------------------------------ MODULE Splitter ------------------------------
(***************************************************************************)
(* The instructions that read and write splitter accounts and SOL:         *)
(* CreateSplitter, SetSplitterDistribution, SetSplitterAdmin,              *)
(* RevokeSplitterAdmin, LockRecipient, SetSplitterName and DistributeSOL.  *)
(*                                                                         *)
(* One step is one transaction of one instruction; module SellConfig puts  *)
(* several into one transaction.  Transactions that write the same account *)
(* run one after the other, so a handler is atomic; an instruction that    *)
(* returns an error changes nothing and is not a step.                     *)
(* Each process_ operator is one handler: its conjuncts are the checks of  *)
(* the handler in order, then its writes.                                  *)
(***************************************************************************)
EXTENDS SplitterState, Functions

CONSTANTS
  Distributions,    \* the lists an admin may submit, valid or not
  Names,            \* the names a user may submit, valid or not
  NewAdmins,        \* the keys an admin may hand over to
  MinShares,        \* the floors a recipient may ask for
  Amounts,          \* the amounts of plain SOL transfers
  RentSplitter,     \* rent.minimum_balance(Splitter::LEN)
  RentWallet,       \* rent.minimum_balance(0)
  InitialLamports   \* what every address holds before the first instruction

VARIABLES
  splitter,         \* the data of every splitter PDA
  lamports          \* the balance of every address

vars == <<splitter, lamports>>

ASSUME InputTypes == /\ Distributions \subseteq Seq(Entry)
                     /\ Names \subseteq Seq(Bytes)
                     /\ NewAdmins \subseteq Address
                     /\ MinShares \subseteq Nat
                     /\ Amounts \subseteq Nat \ {0}
ASSUME RentTypes == RentWallet \in Nat \ {0} /\ RentSplitter \in Nat \ {0}
ASSUME InitialTypes == InitialLamports \in [Address -> Nat]

(***************************************************************************)
(* The Solana runtime, as the handlers depend on it.                       *)
(***************************************************************************)

Initialized(p) == splitter[p] # NoData

\* The balance below which the runtime does not let an account fall, unless
\* it falls to zero.
MinBalance(a) ==
  IF a \in PDAs /\ splitter[a] # NoData THEN RentSplitter ELSE RentWallet

\* The check of the runtime at the end of a transaction: a balance that moved
\* is zero or rent exempt, and the system program's own account is read-only.
RuntimeAccepts ==
  \A a \in Address : lamports'[a] # lamports[a] =>
    /\ a # Default
    /\ lamports'[a] = 0 \/ lamports'[a] >= MinBalance(a)'

(***************************************************************************)
(* Handlers.                                                               *)
(***************************************************************************)

\* Fault: lamports already there count towards the rent.
process_create_splitter_TopsUp(creator, nonce, name) ==
  LET p == SplitterPDA(creator, nonce)
      missing == IF lamports[p] < RentSplitter THEN RentSplitter - lamports[p] ELSE 0 IN
  /\ ~Initialized(p)
  /\ Len(name) <= MAX_NAME_LEN
  /\ lamports[creator] >= missing
  /\ splitter' = [splitter EXCEPT ![p] = NewSplitter(creator, nonce, name)]
  /\ lamports' = [lamports EXCEPT ![p] = @ + missing, ![creator] = @ - missing]

\* The system program refuses to create an account that already holds
\* lamports, and takes the rent from the creator.
process_create_splitter(creator, nonce, name) ==
  LET p == SplitterPDA(creator, nonce) IN
  /\ ~Initialized(p)
  /\ Len(name) <= MAX_NAME_LEN
  /\ lamports[p] = 0
  /\ lamports[creator] >= RentSplitter
  /\ splitter' = [splitter EXCEPT ![p] = NewSplitter(creator, nonce, name)]
  /\ lamports' = [lamports EXCEPT ![p] = RentSplitter, ![creator] = @ - RentSplitter]

\* Fault: the creator is taken for the admin.
AdminSigned_CreatorSuffices(p, key) ==
  Initialized(p) /\ key = splitter[p].creator

\* The checks shared by every instruction of the admin; key has signed.
AdminSigned(p, key) ==
  /\ Initialized(p)
  /\ ~is_admin_revoked(splitter[p])
  /\ key = splitter[p].admin

process_set_distribution(p, key, rs) ==
  LET old == splitter[p].recipients IN
  /\ AdminSigned(p, key)
  /\ ValidList(rs)
  /\ RespectsLocks(old, rs)
  /\ splitter' = [splitter EXCEPT ![p].recipients = StoredList(old, rs)]
  /\ UNCHANGED lamports

\* new_admin is any key, Pubkey::default() and program addresses included.
process_set_admin(p, key, new_admin) ==
  /\ AdminSigned(p, key)
  /\ splitter' = [splitter EXCEPT ![p].admin = new_admin]
  /\ UNCHANGED lamports

process_revoke_admin(p, key) ==
  /\ AdminSigned(p, key)
  /\ splitter' = [splitter EXCEPT ![p].admin = Default]
  /\ UNCHANGED lamports

process_lock_recipient(p, key, min_share) ==
  LET rs == splitter[p].recipients
      i  == FirstSlot(rs, key) IN
  /\ Initialized(p)
  /\ key \in Listed(rs)
  /\ Lockable(rs[i], min_share)
  /\ splitter' = [splitter EXCEPT ![p].recipients[i] = WithLock(@, min_share)]
  /\ UNCHANGED lamports

process_set_splitter_name(p, key, name) ==
  /\ Len(name) <= MAX_NAME_LEN
  /\ AdminSigned(p, key)
  /\ splitter' = [splitter EXCEPT ![p] = set_name(splitter[p], name)]
  /\ UNCHANGED lamports

\* Fault: the splitter's balance is read before the loop and written after it.
AfterPayouts_StaleBalance(p, rs, distributable) ==
  [a \in Address |->
     IF a = p THEN lamports[a] - Total(Payouts(rs, distributable))
              ELSE lamports[a] + PaidTo(rs, distributable, a)]

\* Fault: the recipients' balances are read before the loop, so an address in
\* two slots is credited the last only.
AfterPayouts_LastSlot(p, rs, distributable) ==
  [a \in Address |->
     LET k == {i \in 1..Len(rs) : rs[i].address = a} IN
     lamports[a] + (IF k = {} THEN 0
                    ELSE Payout(distributable,
                                rs[CHOOSE i \in k : \A j \in k : j <= i].share))
                 - (IF a = p THEN Total(Payouts(rs, distributable)) ELSE 0)]

\* What the loop of a distribution leaves: the splitter pays every slot, and
\* a slot may name any address, the splitter itself included.
AfterPayouts(p, rs, distributable) ==
  [a \in Address |->
     lamports[a] + PaidTo(rs, distributable, a)
                 - (IF a = p THEN Total(Payouts(rs, distributable)) ELSE 0)]

\* Fault: the rent is distributed too.
Distributable_WithRent(p) == lamports[p]

\* All the SOL above the rent-exempt minimum; the dust of the rounding stays.
Distributable(p) == lamports[p] - RentSplitter

\* Fault: the threshold is taken for twice the rent.
HasDistributable_AboveTwice(p) == lamports[p] > 2 * RentSplitter

HasDistributable(p) == lamports[p] > RentSplitter

process_distribute_sol(p) ==
  /\ Initialized(p)
  /\ HasDistributable(p)
  /\ splitter[p].recipients # << >>
  /\ lamports' = AfterPayouts(p, splitter[p].recipients, Distributable(p))
  /\ UNCHANGED splitter

\* SystemProgram.transfer: how SOL reaches a splitter, created or not.
transfer(from, to) ==
  \E amount \in Amounts :
    /\ from # to
    /\ amount <= lamports[from]
    /\ lamports' = [lamports EXCEPT ![from] = @ - amount, ![to] = @ + amount]
    /\ UNCHANGED splitter

(***************************************************************************)
(* Transactions.                                                           *)
(***************************************************************************)

CreateSplitter(creator) ==
  \E nonce \in Nonces, name \in Names :
    process_create_splitter(creator, nonce, name) /\ RuntimeAccepts

SetSplitterDistribution(p) ==
  \E key \in Wallets, rs \in Distributions : process_set_distribution(p, key, rs)

SetSplitterAdmin(p) ==
  \E key \in Wallets, new_admin \in NewAdmins : process_set_admin(p, key, new_admin)

RevokeSplitterAdmin(p) == \E key \in Wallets : process_revoke_admin(p, key)

LockRecipient(p) ==
  \E key \in Wallets, min_share \in MinShares : process_lock_recipient(p, key, min_share)

SetSplitterName(p) ==
  \E key \in Wallets, name \in Names : process_set_splitter_name(p, key, name)

DistributeSOL(p) == process_distribute_sol(p) /\ RuntimeAccepts

Transfer(from, to) == transfer(from, to) /\ RuntimeAccepts

\* One instruction of a transaction that may hold others: the runtime looks at
\* the balances when the transaction ends.
SplitterInstruction ==
  \/ \E creator \in Wallets, nonce \in Nonces, name \in Names :
       process_create_splitter(creator, nonce, name)
  \/ \E p \in PDAs : SetSplitterDistribution(p)
  \/ \E p \in PDAs : SetSplitterAdmin(p)
  \/ \E p \in PDAs : RevokeSplitterAdmin(p)
  \/ \E p \in PDAs : LockRecipient(p)
  \/ \E p \in PDAs : SetSplitterName(p)
  \/ \E p \in PDAs : process_distribute_sol(p)
  \/ \E from \in Wallets, to \in Address : transfer(from, to)

Init == /\ splitter = [p \in PDAs |-> NoData]
        /\ lamports = InitialLamports

Next ==
  \/ \E creator \in Wallets : CreateSplitter(creator)
  \/ \E p \in PDAs : SetSplitterDistribution(p)
  \/ \E p \in PDAs : SetSplitterAdmin(p)
  \/ \E p \in PDAs : RevokeSplitterAdmin(p)
  \/ \E p \in PDAs : LockRecipient(p)
  \/ \E p \in PDAs : SetSplitterName(p)
  \/ \E p \in PDAs : DistributeSOL(p)
  \/ \E from \in Wallets, to \in Address : Transfer(from, to)

Spec == Init /\ [][Next]_vars

\* DistributeSOL is permissionless: somebody cranks every splitter that can
\* be cranked.  Nobody is obliged to anything else.
FairSpec == Spec /\ \A p \in PDAs : WF_vars(DistributeSOL(p))

(***************************************************************************)
(* Properties.                                                             *)
(***************************************************************************)

\* Every account holds what its type allows: a splitter has at most
\* MAX_RECIPIENTS slots and a name of at most MAX_NAME_LEN bytes, and no
\* balance is ever negative (a u64 subtraction in the distribution loop that
\* could underflow would show here).
TypeOK ==
  /\ splitter \in [PDAs -> Splitter \cup {NoData}]
  /\ \A p \in PDAs : Initialized(p) => Len(splitter[p].recipients) <= MAX_RECIPIENTS
  /\ lamports \in [Address -> Nat]

\* Whatever sequence of instructions led here, the slots of a splitter share
\* exactly 100%, none of them zero: DistributeSOL and DistributeToken rely on
\* it without checking, and their NoRecipients error cannot happen.
SharesTotal ==
  \A p \in PDAs : Initialized(p) =>
    LET rs == splitter[p].recipients IN
    /\ Total(Shares(rs)) = TOTAL_SHARES
    /\ \A i \in 1..Len(rs) : rs[i].share > 0

\* No slot is paid less than the floor it carries, and among the slots that
\* name the same address the first, the only one LockRecipient and
\* SetSplitterDistribution look at, carries the highest floor.
LocksHonoured ==
  \A p \in PDAs : Initialized(p) =>
    LET rs == splitter[p].recipients IN
    \A i \in 1..Len(rs) :
      /\ rs[i].locked_share <= rs[i].share
      /\ rs[i].locked_share <= LockOf(rs, rs[i].address)

\* A stored name is followed by zeros only: a shorter name leaves nothing of
\* the longer one it replaces.
NamePadded ==
  \A p \in PDAs : Initialized(p) =>
    \A i \in 1..MAX_NAME_LEN : i > splitter[p].name_len => splitter[p].name[i] = 0

\* An initialized splitter is rent exempt, whatever it has paid out and
\* however the payouts were rounded: the runtime never reclaims it.
RentPreserved == \A p \in PDAs : Initialized(p) => lamports[p] >= RentSplitter

\* Lamports are neither made nor lost: duplicate slots, a splitter that
\* lists itself and rounding included.
SupplyConserved == SumFunction(lamports) = SumFunction(InitialLamports)

\* A splitter with something to distribute can be cranked unless the runtime
\* refuses one of the recipients: the payouts never exceed what there is.
\* a is refused when it is the system program or would be left below rent.
Refused(p, a) ==
  LET due == PaidTo(splitter[p].recipients, Distributable(p), a) IN
  a # p /\ due > 0 /\ (a = Default \/ lamports[a] + due < MinBalance(a))

CrankAvailable ==
  \A p \in PDAs :
    /\ Initialized(p)
    /\ lamports[p] > RentSplitter
    /\ \A a \in Address : ~Refused(p, a)
    => ENABLED DistributeSOL(p)

\* Once the admin is revoked, by RevokeSplitterAdmin or by a transfer to the
\* default key, nothing of the splitter changes any more except floors, which
\* rise: addresses, shares, name and the revocation itself are final.
Frozen(s, t) ==
  /\ t # NoData
  /\ Len(t.recipients) = Len(s.recipients)
  /\ \A i \in 1..Len(s.recipients) :
       /\ t.recipients[i].address = s.recipients[i].address
       /\ t.recipients[i].share = s.recipients[i].share
       /\ t.recipients[i].locked_share >= s.recipients[i].locked_share
  /\ t.creator = s.creator /\ t.nonce = s.nonce /\ t.admin = s.admin
  /\ t.name = s.name /\ t.name_len = s.name_len

RevocationIsFinal ==
  [][\A p \in PDAs : Initialized(p) /\ is_admin_revoked(splitter[p]) =>
       Frozen(splitter[p], splitter'[p])]_vars

\* The floor of a recipient that stays listed never falls, however the slots
\* are reordered, repeated or merged by SetSplitterDistribution.
LocksPersist ==
  [][\A p \in PDAs : Initialized(p) =>
       \A a \in Listed(splitter[p].recipients) \cap Listed(splitter'[p].recipients) :
         LockOf(splitter'[p].recipients, a) >= LockOf(splitter[p].recipients, a)]_vars

\* A distribution leaves less than one lamport of dust per slot above the
\* rent, unless the splitter pays itself.
DustBounded ==
  [][\A p \in PDAs :
       LET rs == splitter[p].recipients IN
       lamports'[p] < lamports[p] /\ p \notin Listed(rs)
         => lamports'[p] - RentSplitter < Len(rs)]_vars

\* Whenever a splitter pays, a recipient with a floor receives at least the
\* floor's part of everything that is distributed.
LockedRecipientPaid ==
  [][\A p \in PDAs : lamports'[p] < lamports[p] =>
       \A a \in Listed(splitter[p].recipients) \ {p} :
         lamports'[a] - lamports[a] >=
           Payout(Distributable(p), LockOf(splitter[p].recipients, a))]_vars

\* SOL sent to the address of a splitter before CreateSplitter is stranded: no
\* later instruction makes that address a splitter or takes the SOL back.
EarlyDepositStrands ==
  [][\A p \in PDAs : ~Initialized(p) /\ lamports[p] > 0 =>
       splitter'[p] = NoData /\ lamports'[p] >= lamports[p]]_vars

\* Something is due to another address than the splitter itself.
Owed(p) ==
  /\ Initialized(p) /\ lamports[p] > RentSplitter
  /\ \E a \in Address \ {p} : PaidTo(splitter[p].recipients, Distributable(p), a) > 0

Receives(p) == lamports'[p] > lamports[p]

\* When a splitter stops receiving SOL, the cranks empty it: again and again
\* nothing is owed any more, unless the runtime refuses a recipient.
QuietSplitterDrains ==
  \A p \in PDAs :
    <>[][~Receives(p)]_vars =>
      []<>(~Owed(p) \/ \E a \in Address : Refused(p, a))

=============================================================================
