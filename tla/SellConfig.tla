----------------------------- MODULE SellConfig -----------------------------
(***************************************************************************)
(* SetSellConfig and CloseSellConfig, in transactions of several           *)
(* instructions.                                                           *)
(*                                                                         *)
(* Closing a configuration takes its lamports and leaves its account in    *)
(* place until the transaction ends, so what the next instructions of the  *)
(* same transaction do to the account matters.  A transaction holds the    *)
(* write locks of its accounts from Begin to Commit or Abort: nothing else *)
(* reads or writes them in between.  The other instructions of a           *)
(* transaction are those of module Splitter.                               *)
(***************************************************************************)
EXTENDS Splitter

CONSTANTS
  Mints,
  SwapPrograms,
  MAX_WHITELIST,         \* 10
  MAX_APPROVED_PROGRAMS, \* 5
  Whitelists,            \* the lists of mints an admin may submit, too long or not
  Approvals,             \* the lists of programs an admin may submit
  RentConfig,            \* rent.minimum_balance(SellConfig::LEN)
  Zeroed,                \* the data of a closed account: SellConfig::LEN zeros
  NoTransaction

VARIABLES
  config,          \* the data at the configuration address of every splitter
  configLamports,  \* the lamports of that address
  open,            \* what the open transaction found, to return to if it fails
  asked            \* history: the configuration last set, NoData once closed

ledger == <<splitter, lamports, config, configLamports, asked>>
sellVars == <<ledger, open>>

SellConfig == [splitter : PDAs, whitelisted_mints : Seq(Mints),
               approved_programs : Seq(SwapPrograms)]

ASSUME SellInputTypes == /\ Whitelists \subseteq Seq(Mints)
                         /\ Approvals \subseteq Seq(SwapPrograms)
                         /\ MAX_WHITELIST \in Nat /\ MAX_APPROVED_PROGRAMS \in Nat
                         /\ RentConfig \in Nat \ {0}
ASSUME MarksDiffer == /\ Zeroed \notin SellConfig /\ NoData \notin SellConfig
                      /\ Zeroed # NoData

(***************************************************************************)
(* Handlers.                                                               *)
(***************************************************************************)

\* SellConfig::is_initialized: zeros do not carry the discriminator.
ConfigInitialized(p) == config[p] \in SellConfig

NewSellConfig(p, mints, programs) ==
  [splitter |-> p, whitelisted_mints |-> mints, approved_programs |-> programs]

\* Fault: the lists may have any length.
ListsFit_AnySize(mints, programs) == TRUE

ListsFit(mints, programs) ==
  Len(mints) <= MAX_WHITELIST /\ Len(programs) <= MAX_APPROVED_PROGRAMS

\* Fault: lamports already at the address count towards the rent.
EnsureAccount_TopsUp(p, payer) ==
  LET missing == RentConfig - configLamports[p] IN
  \/ /\ config[p] = NoData
     /\ missing >= 0 /\ lamports[payer] >= missing
     /\ lamports' = [lamports EXCEPT ![payer] = @ - missing]
     /\ configLamports' = [configLamports EXCEPT ![p] = RentConfig]
  \/ config[p] # NoData /\ UNCHANGED <<lamports, configLamports>>

\* The account is created when it has no data, and the system program refuses
\* to create one that holds lamports; otherwise it is used as it is found.
EnsureAccount(p, payer) ==
  \/ /\ config[p] = NoData
     /\ configLamports[p] = 0
     /\ lamports[payer] >= RentConfig
     /\ lamports' = [lamports EXCEPT ![payer] = @ - RentConfig]
     /\ configLamports' = [configLamports EXCEPT ![p] = RentConfig]
  \/ config[p] # NoData /\ UNCHANGED <<lamports, configLamports>>

process_set_sell_config(p, key, payer, mints, programs) ==
  /\ AdminSigned(p, key)
  /\ ListsFit(mints, programs)
  /\ EnsureAccount(p, payer)
  /\ config' = [config EXCEPT ![p] = NewSellConfig(p, mints, programs)]
  /\ UNCHANGED splitter

\* Faults: the data stays; the admin is paid the rent, whatever the account holds.
process_close_sell_config_KeepsData(p, key) ==
  /\ AdminSigned(p, key)
  /\ ConfigInitialized(p)
  /\ lamports' = [lamports EXCEPT ![key] = @ + configLamports[p]]
  /\ configLamports' = [configLamports EXCEPT ![p] = 0]
  /\ UNCHANGED <<splitter, config>>
process_close_sell_config_PaysRent(p, key) ==
  /\ AdminSigned(p, key)
  /\ ConfigInitialized(p)
  /\ lamports' = [lamports EXCEPT ![key] = @ + RentConfig]
  /\ configLamports' = [configLamports EXCEPT ![p] = 0]
  /\ config' = [config EXCEPT ![p] = Zeroed]
  /\ UNCHANGED splitter

process_close_sell_config(p, key) ==
  /\ AdminSigned(p, key)
  /\ ConfigInitialized(p)
  /\ lamports' = [lamports EXCEPT ![key] = @ + configLamports[p]]
  /\ configLamports' = [configLamports EXCEPT ![p] = 0]
  /\ config' = [config EXCEPT ![p] = Zeroed]
  /\ UNCHANGED splitter

(***************************************************************************)
(* Instructions of the open transaction.                                   *)
(***************************************************************************)

InTransaction == open # NoTransaction /\ UNCHANGED open

SetSellConfig(p) ==
  \E key, payer \in Wallets, mints \in Whitelists, programs \in Approvals :
    /\ InTransaction
    /\ process_set_sell_config(p, key, payer, mints, programs)
    /\ asked' = [asked EXCEPT ![p] = NewSellConfig(p, mints, programs)]

CloseSellConfig(p) ==
  \E key \in Wallets :
    /\ InTransaction
    /\ process_close_sell_config(p, key)
    /\ asked' = [asked EXCEPT ![p] = NoData]

\* A transfer to the address of a configuration, whatever is there.
PayConfig(from, p) ==
  \E amount \in Amounts :
    /\ InTransaction
    /\ amount <= lamports[from]
    /\ lamports' = [lamports EXCEPT ![from] = @ - amount]
    /\ configLamports' = [configLamports EXCEPT ![p] = @ + amount]
    /\ UNCHANGED <<splitter, config, asked>>

\* The instructions of module Splitter.
SplitterStep ==
  /\ InTransaction
  /\ SplitterInstruction
  /\ UNCHANGED <<config, configLamports, asked>>

(***************************************************************************)
(* Transactions.                                                           *)
(***************************************************************************)

Begin ==
  /\ open = NoTransaction
  /\ open' = [splitter |-> splitter, lamports |-> lamports, config |-> config,
              configLamports |-> configLamports, asked |-> asked]
  /\ UNCHANGED ledger

\* The balances the runtime accepts, of the accounts whose balance moved.
BalancesAccepted ==
  /\ \A a \in Address : lamports[a] # open.lamports[a] =>
       /\ a # Default
       /\ lamports[a] = 0 \/ lamports[a] >= MinBalance(a)
  /\ \A p \in PDAs : configLamports[p] # open.configLamports[p] =>
       \/ configLamports[p] = 0
       \/ configLamports[p] >= (IF config[p] = NoData THEN RentWallet ELSE RentConfig)

\* The end of a transaction: an account without lamports is purged.
Commit ==
  /\ open # NoTransaction
  /\ BalancesAccepted
  /\ config' = [p \in PDAs |-> IF configLamports[p] = 0 THEN NoData ELSE config[p]]
  /\ open' = NoTransaction
  /\ UNCHANGED <<splitter, lamports, configLamports, asked>>

\* An instruction fails, or the runtime refuses the balances: nothing happened.
Abort ==
  /\ open # NoTransaction
  /\ splitter' = open.splitter
  /\ lamports' = open.lamports
  /\ config' = open.config
  /\ configLamports' = open.configLamports
  /\ asked' = open.asked
  /\ open' = NoTransaction

SellInit == /\ Init
            /\ config = [p \in PDAs |-> NoData]
            /\ configLamports = [p \in PDAs |-> 0]
            /\ open = NoTransaction
            /\ asked = [p \in PDAs |-> NoData]

SellInstruction ==
  \/ SplitterStep
  \/ \E p \in PDAs : SetSellConfig(p) \/ CloseSellConfig(p)
  \/ \E from \in Wallets, p \in PDAs : PayConfig(from, p)

SellNext == Begin \/ Commit \/ Abort \/ SellInstruction

SellSpec == SellInit /\ [][SellNext]_sellVars

(***************************************************************************)
(* Properties.                                                             *)
(***************************************************************************)

\* Configurations fit their account: the lists fill at most its two arrays.
SellTypeOK ==
  /\ config \in [PDAs -> SellConfig \cup {NoData, Zeroed}]
  /\ \A p \in PDAs : ConfigInitialized(p) =>
       /\ Len(config[p].whitelisted_mints) <= MAX_WHITELIST
       /\ Len(config[p].approved_programs) <= MAX_APPROVED_PROGRAMS
  /\ lamports \in [Address -> Nat]
  /\ configLamports \in [PDAs -> Nat]

\* Creating, paying, reviving and closing configurations neither makes nor
\* loses lamports, the ones an account held beyond its rent included.
SellSupplyConserved ==
  SumFunction(lamports) + SumFunction(configLamports) = SumFunction(InitialLamports)

\* What SwapToken can read is nothing or the configuration last set: no order
\* of closing, paying and setting within or across transactions brings back
\* the lists of a configuration that was closed or replaced.
NeverOlder == \A p \in PDAs : ConfigInitialized(p) => config[p] = asked[p]

\* What every committed transaction has left.
Committed ==
  IF open = NoTransaction
  THEN [splitter |-> splitter, config |-> config, configLamports |-> configLamports]
  ELSE [splitter |-> open.splitter, config |-> open.config,
        configLamports |-> open.configLamports]

\* Revocation is final across whole transactions: once it is committed, no
\* sequence of instructions changes the splitter except for floors, which rise,
\* and its configuration outlives the admin: the lists stay for good and the
\* rent is never paid back.
RevokedKeepsConfig ==
  [][LET now == Committed
         next == Committed' IN
     \A p \in PDAs :
       now.splitter[p] # NoData /\ is_admin_revoked(now.splitter[p]) =>
         /\ Frozen(now.splitter[p], next.splitter[p])
         /\ next.config[p] = now.config[p]
         /\ next.configLamports[p] >= now.configLamports[p]]_sellVars

\* "Once locked, cannot be reduced" (state.rs): who is listed before and after
\* a transaction has at least the floor of before.
LocksOutliveTransactions ==
  [][LET now == Committed
         next == Committed' IN
     \A p \in PDAs :
       now.splitter[p] # NoData =>
         LET before == now.splitter[p].recipients
             after  == next.splitter[p].recipients IN
         \A a \in Listed(before) \cap Listed(after) :
           LockOf(after, a) >= LockOf(before, a)]_sellVars

\* Lamports sent to the address of a configuration before it is created stay
\* there, and selling can never be configured for that splitter.
EarlyPaymentStrands ==
  [][LET now == Committed
         next == Committed' IN
     \A p \in PDAs :
       now.config[p] = NoData /\ now.configLamports[p] > 0 =>
         /\ next.config[p] = NoData
         /\ next.configLamports[p] >= now.configLamports[p]]_sellVars

\* "Create account if it doesn't exist yet" (set_sell_config.rs): after
\* a committed SetSellConfig there is a configuration, the one it was given,
\* until CloseSellConfig.
SetTakesEffect ==
  open = NoTransaction =>
    \A p \in PDAs : asked[p] # NoData => config[p] = asked[p]

=============================================================================
