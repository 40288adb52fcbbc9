# ChiefSplitter in TLA+

ChiefSplitter is a Solana program (`src/programs/chiefsplitter`) that divides
the SOL and the tokens an account receives among recipients with fixed shares.
This directory models it in TLA+, checks the models with TLC and proves what
matters most with TLAPS. Definitions keep the names of the Rust source; an
operator `process_x` is the handler of that name. `PROJECT.json` maps every
definition that models code to the lines it stands for.

## The system

### Components, state and operations

| Component | State | Operations | Where |
|---|---|---|---|
| Splitter account | creator, nonce, admin, up to 10 slots (address, share, floor), name | `CreateSplitter`, `SetSplitterDistribution`, `SetSplitterAdmin`, `RevokeSplitterAdmin`, `LockRecipient`, `SetSplitterName` | `state.rs`, `instructions/create.rs`, `set_distribution.rs`, `set_admin.rs`, `revoke_admin.rs`, `lock_recipient.rs`, `set_name.rs` |
| SOL distribution | the lamports of the splitter and of its recipients | `DistributeSOL`, anyone may call it | `distribute_sol.rs` |
| Token distribution | the splitter's and the recipients' token accounts | `DistributeToken`, anyone may call it | `distribute_token.rs` |
| Sell configuration | per splitter: kept mints, approved exchange programs | `SetSellConfig`, `CloseSellConfig` | `state.rs`, `set_sell_config.rs`, `close_sell_config.rs` |
| Token swaps | the splitter's token accounts | `SwapToken`, anyone may call it | `swap_token.rs` |
| SNS proxy | none of its own | `SnsProxy`, a call into a name service with the splitter's signature, at the admin's request | `sns_proxy.rs` |
| Events | none: log data | `emit_distribution`, once for every payout | `events.rs` |
| Decoding, errors, IDL, scripts, tests | none at run time | - | `lib.rs`, `error.rs`, `idl.json`, `scripts/`, `tests/` |

The program keeps no state outside accounts and starts nothing by itself: every
change is an instruction of a transaction somebody signs. Components meet only
in shared accounts. The list of slots, written by the admin (and, floors only,
by the recipients), is read by both distributions. The sell configuration
hangs off a splitter and obeys its admin. A swap turns tokens of a splitter
into other tokens or SOL, which the distributions then pay out. Lamports and tokens
also move by transfers the program never sees.

The runtime orders things: a transaction locks the accounts it writes, so
handlers of one splitter run one after the other and each is atomic; a
transaction that fails, in an instruction or in the runtime's check of balances
at its end, changes nothing. What can still go wrong is between transactions
(a cranker's transaction built from a list that has changed since, or one that
passes other accounts from the start), between
instructions of one transaction (accounts that are closed but not yet gone),
inside one handler when account arguments coincide (a splitter among its own
recipients, one address in two slots), and in integer arithmetic.

### What makes each component correct

* Splitter account: shares always total 100% and none is zero, the
  distributions rely on both; a floor never exceeds its share and does not fall while the
  recipient stays; only the admin changes the list, and nobody after revocation.
* SOL distribution: pays out of what is above the rent only, never more than
  that and at most one lamport per slot less; every recipient its part;
  lamports are conserved; eventually everything is paid.
* Token distribution: the same for tokens; who is paid is decided by whoever
  passes the accounts, so the recipients of the list are, when these are theirs.
* Sell configuration: only the admin's last decision is ever in force; rent is
  returned exactly; nothing changes after revocation.
* Token swaps: only an approved exchange takes tokens, as far as its authority goes, and
  returns something; kept mints are never sold; unwrapping loses nothing.
* SNS proxy: the splitter's signature, which is good for its tokens too, reaches
  only the programs the handler names, and only at the admin's request.
* Events: whoever adds them up finds what every recipient received.

## Modules

| Module | Models |
|---|---|
| `Sums` | running totals of a sequence, as a recursive function |
| `SplitterState` | account data of `state.rs`, validation and construction of lists, arithmetic of a payout |
| `Splitter` | the seven instructions of the splitter account and of SOL, plain transfers, the runtime's check; safety and liveness properties |
| `SplitAgreement` | abstract specification: what part and what floor every address has, who may change it; no slots, no lists, no signatures |
| `SplitterAgreement` | the refinement mapping from `Splitter` to `SplitAgreement` |
| `TokenSplitter` | `DistributeToken` beside the instructions of `Splitter`, the transactions crankers have built, the token programs |
| `SellConfig` | `SetSellConfig`, `CloseSellConfig` and every instruction of `Splitter` in transactions of several instructions that commit or fail |
| `ExternalCalls` | `SwapToken` and `SnsProxy` as instructions of those transactions, with the programs they call |
| `SplitterHistory` | `Splitter` with tallies of what every distribution offered, paid and reported |
| `SumsProofs`, `SplitterStateProofs`, `SplitterProofs`, `SellProofs`, `ExternalProofs`, `HistoryProofs`, `TokenProofs`, `AgreementProofs` | lemmas and theorems |
| `MCSplitter`, `MCTokens`, `MCSell`, `MCExternal`, `MCHistory` | values of the constants for TLC |

### How state and actions correspond to the code

`Splitter`. `splitter[p]` is the data of the account at a splitter's address,
`NoData` before creation. A splitter's address is the pair of creator and nonce,
as `derive_pda` makes it injective; discriminator and bump carry no choice and
are left out. `recipients` is a sequence; its length is `num_recipients`.
Addresses that may appear twice, floors looked up at the first slot only
(`FirstSlot`, `LockOf`), and floors raised at the first slot only are as in the
loops of the code. `lamports[a]` is the balance of every address.
`process_distribute_sol` gives the net effect of the loop of
`distribute_sol.rs:77-88`: each slot is credited and the splitter debited, also
when they are the same account. That the loop gives it, round by round, and that
no subtraction on the way underflows, is the theorem `LoopPays`. `RuntimeAccepts` is the
runtime's check after the transaction: a balance that moved must be zero or rent
exempt, and the system program's own account cannot be credited, so one
recipient can make a distribution fail for all. The actions of `Next` are
transactions of one instruction; `SplitterInstruction` is the same handlers
without the check, for transactions of several.

`TokenSplitter`. `tokens[<<owner, mint>>]` is the associated account of owner
and mint: absent, or an amount that may be frozen. The handler does not compare
the accounts it is given with the recipients, and anybody may call it:
`DistributeToken` runs it with every choice of accounts, one for each slot.
Beside it are the crankers that mean well. `prepared[p, mint]` is the account list
of the last transaction they built (`Prepare`: the accounts of the recipients,
in slot order) and have not yet run (`CrankToken`); the list of the splitter may change
in between. Which token program owns a mint is folded into the mint; a mint in
`ExtendedMints` is one `Mint::unpack` rejects. Holders deposit, open and close
accounts; the freeze authority freezes and thaws.

`SellConfig`. `config[p]` is the data at the configuration's address: `NoData`,
a configuration, or `Zeroed`, the zeros `CloseSellConfig` leaves in an account
that still has its length. `configLamports[p]` is its balance. `open` is the
ledger a transaction found at `Begin`, to which `Abort` returns; `Commit` makes
the runtime's check and purges accounts without lamports. `asked` is a history variable: what
the last `SetSellConfig` or `CloseSellConfig` of a transaction that was not
undone asked for. The instructions of `Splitter` run inside these transactions
too (`SplitterStep`): a distribution may follow a change of the list that another
one follows, and the runtime looks at the balances once, at `Commit`.

`ExternalCalls`. `tokens[<<owner, mint>>]` is the amount in the associated
account of owner and mint, `NoData` when it is not open; exchanges own accounts
too. `uses[k]` is a history variable: the programs that have used the
signature of key `k`, at most `MaxUses` of them. `saved` is what the open
transaction found of both, to which `ExternalAbort` returns. A called program does
what its authority allows: an
exchange takes, at one or two places, out of accounts of its own, of keys whose
signature it was handed (`SwapSigners`), or of mints it is the permanent
delegate of, and pays at one place out of its own (`CallOutcomes`). A program that
`SnsProxy` calls is handed the signature of the splitter, if the splitter is among
the accounts forwarded (`ProxySigners`), and may do with it what the token program
lets an owner do (`ActsFor`): transfer tokens to any open account, close an account
that is empty or wrapped SOL to any address, or leave both alone. It does one of
these in a call; several are several calls. The lamports and the data of a splitter are
out of its reach, as this program owns the account and is not called back.
`process_swap_token` compares owner and mint of the source and only the
amount of the destination, `Traded` the two balances afterwards, and
`Unwrap` closes the destination when the destination mint *named* is wrapped SOL. Which
token program is passed, and close authorities other than the owner, are
folded into the choice of the account.

`SplitterHistory`. The actions of `Splitter`, with a tally for every
splitter and address since the list was set (`listed`) and since the address
raised its floor (`pledged`): distributions, lamports offered, lamports received
and lamports the events reported. `Relist` starts the tallies anew and ends the floors of addresses
it leaves out. No guard reads a tally but that of `Crank`, which ends a history at
`MaxCranks` distributions of a splitter.

Events. `Events` in `SplitterState` is what one distribution logs: an
event for every slot that is paid something, with the recipient of the *slot*,
whoever owns the token account that was passed. `Reported` adds them up for an
address; `EventsTell` compares with the ledger for SOL, `PaysTheListed` for tokens.

Abstractions made everywhere: transaction fees are not charged; instruction data
arrives decoded; keys are model values; every wallet may sign; error codes are
not distinguished, an instruction that fails is no step. Lamports are naturals
without a width: the release build traps overflow (`overflow-checks = true` in
`Cargo.toml`), and the theorems `NothingOverflows...` show that it never
happens to lamports, as long as all there are fit into 64 bits. Of tokens,
which the token program keeps in 64 bits itself, a distribution computes
only parts of one balance and their total, which `PayoutsBounded` bounds by the
balance.

## Runs

| Run | Checks | Shows |
|---|---|---|
| `config` (`MCSplitter_config.cfg`) | `SharesTotal`, `LocksHonoured`, `NamePadded`, `RevocationIsFinal`, `LocksPersist`, `KeepsAgreement` | the configuration handlers, over every list of up to three entries, valid or not, and the refinement of `SplitAgreement` |
| `sol` | `TypeOK`, `RentPreserved`, `SupplyConserved`, `CrankAvailable`, `DustBounded`, `LockedRecipientPaid`, `EarlyDepositStrands`, `QuietSplitterDrains` | the arithmetic and the accounts of `DistributeSOL`, with splitters that list themselves and each other; what is above the rent is eventually paid |
| `rates` | `NobodyFallsBehind`, `NobodyRunsAhead`, `FloorRateKept`, `EventsTell` | what recipients have received, and what the log says, after several distributions and changes of the list |
| `tokens` | `TokenTypeOK`, `TokenSupplyConserved`, `TokenCrankAvailable`, `TokenDustBounded`, `CurrentCrankPays`, `RevokedStaysCurrent`, `QuietTokensDrain` | `DistributeToken` with any accounts, current and stale ones among them, missing, frozen or repeated; a crank with the accounts of the list pays everybody, and after revocation stays such a crank; nothing stays owed |
| `sell` | `SellTypeOK`, `SellSupplyConserved`, `NeverOlder`, `RevokedKeepsConfig`, `EarlyPaymentStrands` | configurations and splitters in transactions of any number of instructions; a committed revocation is final for the splitter and its configuration |
| `external` | `ExternalTypeOK`, `SolConserved`, `KeptTokensStay`, `SoldUnderLastConfig`, `ClosesOnlyWrapped`, `SignatureFollowsAdmin` | swaps and proxied calls in transactions that also set and close configurations and revoke the admin |
| `floor` (`MCSell_floor.cfg`) | `LocksOutliveTransactions` | violated: see finding 1 |
| `tokens_order` | `RecipientsPaid` | violated: see finding 2 |
| `sell_survives` | `SetTakesEffect` | violated: see finding 3 |
| `authority` | `SwapAvailable` | violated: see finding 4 |
| `payee` | `SwapPaysSplitter` | violated: see finding 5 |
| `names` | `OnlyNameService` | violated: see finding 6 |

`CHECK_DEADLOCK FALSE` stands in the configurations of `Splitter`,
`SplitterHistory` and `TokenSplitter`: after revocation, with nothing to distribute, no instruction
may be left to send. `SellSpec` and `ExternalSpec` can always begin a transaction
and are checked for deadlock.

### Bounds

* `TOTAL_SHARES` is 4 instead of 10000. It is the coarsest grid in which shares
  are uneven (1 and 3), a floor lies strictly between zero and a share, and
  every amount that is not a multiple of 4 is rounded. The
  proofs hold for every value.
* Three slots instead of 10: enough for an address in two slots that
  are not adjacent with another between them. A list of four exceeds the limit.
* Two wallets, one nonce: two splitters, so a splitter can list itself, the
  other one, and the other one before it is created. In `config` and in the
  token and sell runs only one can be paid for, as two do not interact there.
* In `config` nothing is distributed (its wallet has the rent of one splitter and no
  more); balances are the subject of `sol`.
* Balances of 9 and 4 lamports with rent 3 and 2: several distributions, with
  and without dust, and payouts that leave an unfunded address below its rent.
* Names of at most 2 bytes over 3 values: longer, shorter and empty ones.
* One mint in `tokens`: transfers between accounts of different mints are refused.
* `sell`, `sell_survives` and `floor`: one wallet pays for a splitter (rent 5), a
  configuration (rent 3) and has 1 lamport left, the other has nothing; transfers of 2.
  That is enough to close a configuration and spend what comes back, to revive it
  below and at its rent, and to leave a wallet below its own. The whole split goes
  to one wallet or the other, so a floor can be set, dropped and asked for again;
  several slots are the subject of `config`. Each list of a configuration has room for one entry
  and a list of two is submitted too. Transactions are not bounded in length.
* `external`: one splitter, one exchange and three mints, of which one is to be sold,
  one kept and one wrapped SOL; at most one unit in each account at first. That is enough for a
  swap that could take a second balance along, for a wrapped account with
  SOL from before the swap, for a destination that is another owner's, and for
  both orders of a swap, a proxied call and a change of configuration or admin. The
  signature is used once in a behaviour (`MaxUses`), by either program, before or after
  any swap; the theorems hold for any number of uses and of splitters. The exchange
  is the permanent delegate of the mint to be sold, without which finding 4 would leave
  no swap to check; in `authority` there is no delegate.
* `rates`: two distributions of each splitter (`MaxCranks`), at most 3 lamports
  above the rent to distribute, five lists. Two is the least at which the dust of one distribution is
  offered again; the theorems hold for any number.
* No other run bounds the length of a behaviour: each finite instance is explored
  completely.

### Fairness

`FairSpec` assumes weak fairness of `DistributeSOL` for each splitter, and
`FairTokenSpec` of `Prepare` and `CrankToken` for each splitter and mint.
Both instructions are permissionless and the README of the program calls them
cranks: somebody who means well keeps sending them. `DistributeToken` with accounts
of the sender's own choice has no fairness and is never excluded either, so
`QuietTokensDrain` says that the tokens are paid out, not to whom; of that,
`RevokedStaysCurrent` says what a cranker can count on: its own transaction, once the
list is final, pays the recipients. Nothing is assumed of admins, holders or
recipients. No liveness is claimed of swaps: nothing makes an exchange trade.
`QuietSplitterDrains` and `QuietTokensDrain` have
the condition that deposits stop, and exempt the states in which a
recipient cannot be credited, as one such recipient blocks all.

## Findings

1. *A floor can be lost.* `state.rs:68` says "Once locked, cannot be
   reduced", but `set_distribution.rs:72-87` looks at the floors of addresses in the
   new list only. A list without the recipient drops its floor and a later
   list with it starts at zero. Both lists may come in one transaction: who looks at
   the ledger before and after it sees the recipient listed all along, and its
   floor gone. What does hold is `LocksPersist`: no single instruction lowers the floor
   of a recipient that stays listed; and, after revocation, `RevokedKeepsConfig`.
2. *Whoever sends the crank decides who is paid.* `lib.rs:80` and
   `distribute_token.rs:25` say that the token accounts "must match configured recipients
   in order", which nothing checks, unlike `DistributeSOL`
   (`distribute_sol.rs:61`). Anybody may pass accounts of anybody, and a
   transaction built in good faith before a reordering pays one recipient's part to
   another. What holds is `TokenSupplyConserved` and `TokenDustBounded` for
   any accounts; `CurrentCrankPays` for the accounts of the current list; and
   `RevokedStaysCurrent`: once the admin is revoked, a cranker's transaction for the
   list does not become stale any more. Nothing holds, before or after, of those who pass
   other accounts.
3. *A configuration can vanish.* `set_sell_config.rs:77` says "Create account if
   it doesn't exist yet" and tests the length of the data; an account that was closed
   earlier in the same transaction has length and no lamports. The configuration is
   written, the instruction succeeds, and the account is purged at the end of the transaction.
   What holds is `NeverOlder`: what vanishes is the new configuration, and
   the old one never comes back.
4. *An exchange cannot take what it is to sell.* `swap_token.rs:30` says "CPI to
   the swap program (invoke_signed — PDA is the authority)", but
   `swap_token.rs:138-147` marks every account of the call as no signer, so the
   exchange never has the splitter's signature. Only one with authority of
   its own, such as a permanent delegate, can trade. The other side of it is `KeptTokensStay`: with
   the splitter as a signer an approved exchange could take kept tokens along,
   as only two balances are compared.
5. *A swap may pay somebody else.* `lib.rs:137` says "Splitter's destination
   token account (wSOL or whitelisted)", but of the destination only the amount
   is read (`swap_token.rs:129`). What holds is `ClosesOnlyWrapped`: an
   account that a swap closes was the splitter's own and wrapped SOL.
6. *A second program is handed the signature.* `lib.rs:154` says that the program
   "must be namesLPneVptA9Z5rqUDD9tMTWEJwofgaYwp8cawRkX", but `sns_proxy.rs:59`
   accepts `SNS_NAME_OFFERS_ID` too. `lib.rs:149` adds "Cannot touch tokens or SOL",
   which is a claim about these two programs: the signature itself, which is passed on
   with `sns_proxy.rs:69`, is good for transferring the splitter's tokens and closing its token
   accounts, and nothing in the handler compares balances. What holds is
   `SignatureFollowsAdmin`, and that whatever these programs do, no SOL is lost
   (`SolConserved`) and the splitter accounts stay as they are (`CallsKeepSplitters`).

One more difference is a theorem and no run: `README.md:18` of the program says "SPL Token +
Token 2022 -- distribute and swap both token standards", but `distribute_token.rs:85`
decodes the mint with `Mint::unpack`, which takes plain mints only
(`ExtendedMintsAlwaysStay`).

`EarlyDepositStrands` and `EarlyPaymentStrands` state what the code does with
an address that receives lamports before the account is created there:
`create_account` refuses it, so the splitter or the configuration can never be
created at that address.

## Proofs

`tlapm` checks every theorem for all values of the constants that satisfy the
named assumptions: `AddressesDiffer` (wallets, splitter addresses and the
default key are different keys), `LimitsAreNat`, `NoDataIsNoSplitter`,
`InputTypes`, `RentTypes`, `InitialTypes`; `SellInputTypes` and `MarksDiffer` (a
closed account is told from an open one) for configurations; `ExternalTypes`
(exchanges own no splitter's key) for swaps; `MintTypes` and `InitialTokenTypes`
for tokens; `MaxCranksIsNat`; `NoDataIsNoAgreement` for the refinement.
`KeysAreFinite` and `AddressesAreFinite` say that keys, nonces, exchanges and
mints are finitely many, as a key has 32 bytes and a nonce 8: without it a sum
over all addresses means nothing. Of the size of these sets nothing is assumed,
so there are any number of wallets, splitters, mints and exchanges, and of lists
and amounts any set, finite or not.

* `SumsProofs`: running totals exist, are natural, are linear and bound their
  elements, what a loop has spent so far (`SpentWithinTotal`) and one another
  (`RunningTotalsBelow`); division
  rounds down and is monotone. Sums over a finite set are the folds of the
  community modules: the function that `SumFunctionOnSet` chooses among those
  that satisfy its recursion is shown to exist and to be the only one, by
  `FiniteSetInduction`, and from that how a sum changes with its set and its
  function (`SumWith`, `SumOfSums`, `SumOfMoved`, `SumOfParts`), and that it bounds the
  values it adds (`ValuesWithinSum`). Induction over
  the length of a sequence is carried out on the set of indices for which the
  claim fails, through `LeastNatural` and `NatSetInduction`, as a theorem with
  an operator parameter cannot be instantiated.
* `SplitterStateProofs`: what `set_name`, `StoredList`, `LockRecipient` and
  `Splitter::new` return. `PayoutsBounded`: for a list that shares 100% and any
  amount, the payouts total at most the amount, and more than the amount less
  one per slot. `PaidToAtLeast`: an address is paid at least what any slot of it
  is due. `PaidToAddsUp` and `SharesAddUp`: what the addresses are due, and
  their shares, add up over all addresses to what the slots have, however often
  an address is listed.
* `SplitterProofs`: the inductive invariant is

      Inv = TypeOK /\ SharesTotal /\ LocksHonoured /\ NamePadded /\ RentPreserved

  The parts lean on each other. `TypeOK` (no balance becomes negative) needs
  `SharesTotal`, without which the payouts may exceed what is distributed;
  `RentPreserved` needs both; `LocksHonoured` needs its own second half (the
  first slot of an address has the highest floor), as `StoredList` copies the
  floor of the first slot to all. `Invariance` proves `Spec => []Inv`;
  `TypeCorrect`, `SharesAlwaysTotal`, `LocksAlwaysHonoured`, `NamesAlwaysPadded`
  and `RentAlwaysPreserved` follow. `LocksAlwaysPersist`,
  `RevocationAlwaysFinal`, `DustAlwaysBounded`, `LockedRecipientAlwaysPaid` and
  `EarlyDepositsAlwaysStrand` are action properties proved from `Inv`. That a step
  preserves `Inv` is proved of `SplitterInstruction`, without the runtime's check
  (`InstructionInv`), so that it serves the transactions of `SellConfig` as well;
  `NextIsInstruction` brings it to `Next`.

  `SupplyAlwaysConserved` needs no strengthening beyond `Inv`: a transfer and
  the creation of a splitter move lamports between two different addresses
  (`SumOfMoved`), and a distribution credits the addresses, the splitter itself
  among them, with what `PaidToAddsUp` says the splitter is debited.

  `CrankCanRun` is the part of `CrankAvailable` that is not about `ENABLED`:
  from any state of `Inv` with something to distribute and nobody refused, the
  payouts pass every check. `CrankPaysOut`: they make the splitter's balance
  less while something is owed. With `OnlyDistributionPays` it gives
  `CranksAlwaysDrain`, an action property of `Spec`: the balance is a measure that
  every distribution that owes something lowers, that stays at or above the rent,
  and that nothing else lowers. With `CrankCanRun` this is all of the argument
  for `QuietSplitterDrains` that does not mention fairness.

  `LoopPays` justifies the one step that stands for a loop: `AfterSlots` is the
  balances after the first `i` slots, every round is `PaySlot` (a debit, then a
  credit, perhaps of the same account), each debit leaves the splitter its rent,
  and the last round gives `AfterPayouts`. `LoopFits` says that no product,
  payout, total or balance on the way exceeds a bound; `LoopStaysWithin` proves
  it when all lamports together do not, since every balance between two rounds is
  part of that sum, and with `SupplyAlwaysConserved` it holds in every
  reachable state (`NothingOverflows`).

* `SellProofs`: `SellInv` says of the present ledger and of the one the open
  transaction found that both are well formed (`GoodLedger`: a readable
  configuration is the one last asked for), that accounts without lamports have
  been purged between transactions, and (`KeptSince`) that the transaction so
  far has not touched a revoked splitter's configuration nor an address that had
  lamports and no data. The saved ledger must be in the invariant because
  `Abort` returns to it, and `KeptSince` because `RevokedKeepsConfig` and
  `EarlyPaymentStrands` compare commits, which lie many steps apart.
  `SellSupplyConserved` is not inductive either: `SupplyKept` asks the same of
  the saved ledger. A ledger is only well formed if its splitters are
  (`GoodSplitters`, which is `Inv` of that ledger), and `KeptSince` says of a revoked splitter
  that the transaction so far has left it `Frozen`: all but its floors is as it was, and
  those have risen. `FrozenThenFrozen` adds one instruction to the rest. So
  `SplittersStayGood` (`SellSpec => []Inv`) carries every invariant of the
  splitter accounts over to transactions of several instructions, and
  `RevokedAlwaysKeepsConfig` is the finality of a revocation across them.
  `NothingOverflowsInTransactions` does for them what `NothingOverflows` does
  for single instructions, the checked addition of `close_sell_config.rs:73-75` included.
* `ExternalProofs`: `ExternalInv` is `SellInv` with the types of the token
  accounts and of the uses of signatures, present and saved. What an exchange can do with
  what it is handed is one lemma about two transfers out and one in (`Reach`);
  `SwapEffect` sums up a swap, `SnsProxyEffect` a proxied call (it takes from the accounts of
  one splitter, `OnlyFrom`, and uses its signature), and the action properties follow from
  them and the guards of the handlers. `LeavesInSwap` is the case distinction: what
  leaves a splitter in a step that does not use its signature leaves in a swap.
  For `SolConserved` the invariant is `SolKept`: lamports
  and wrapped SOL together are what they were, in the present state and in the
  saved one. A called program moves tokens between accounts of one mint
  (`MovedHolds`, also when both are the same account), so what is wrapped does
  not change, and closing moves what an account holds to lamports
  (`MovedToAccount`). `CallsKeepSplitters` and
  `NothingOverflowsWithCalls`: called programs, whatever they do within their authority, leave every
  invariant of the splitter accounts, and no overflow, in place.
* `HistoryProofs`: `HistoryInv` is `Inv` with, for every splitter and address,
  two linear bounds on the tally of the list, one on the tally of the floor, the
  floor being at most the lock in the list, and received being what was
  reported. One distribution adds a rounded payout to each side (`PaidToBounds`,
  `PaidToMeetsFloor`); `BoundsAdd` adds the bounds. `HistoryIsOfSplitter`
  (`HistorySpec => Spec`) carries what is proved of `Spec` over to histories; that every
  behaviour of `Spec` has a history is not proved, and for a given `MaxCranks` is not
  so. That the floor is at most
  the lock in force is what carries `FloorRateKept` from one list to the next.
* `TokenProofs`: `TokenInv == Inv /\ TokenTypeOK`. `DistributeTokenStep` gives
  every account's balance after a distribution with arbitrary accounts, and
  `Covered` that none is overdrawn; `TokenDustBounded` and `CurrentCrankPays`
  use `PayoutsBounded` and `PaidToAtLeast`. `TokenSupplyConserved`: what arrives at all
  accounts, the same one for several slots or the splitter's own included, is what the
  slots are due (`ArrivesAddsUp`), and that is what the source is debited
  (`DistributionConserves`). `CurrentCrankGains` says what every
  address gains from a current distribution; with `InFlight` (what a step does
  to the transaction built) and `RevokedStep` (the list of a revoked splitter
  stays) it gives `RevokedStaysCurrent`.
  `TokensImplementSplitter` (`TokenSpec => Spec`) carries the theorems about
  splitter accounts over. `TokenCrankCanRun`, `TokenCrankPaysOut` and
  `TokenCranksAlwaysDrain` are for
  tokens what `CrankCanRun`, `CrankPaysOut` and `CranksAlwaysDrain` are for SOL; that every transfer
  is covered in its turn is `SpentWithinTotal`. `LoopSends` does for the
  transfers what `LoopPays` does for the payouts, with any accounts passed: the
  rounds (`Send`) end in `AfterTransfers`, and `Covered` says exactly that each
  round finds its amount in the source.
* `AgreementProofs`: the refinement `KeepsAgreement`. `GoodParts` and
  `TermsSound`: the parts and floors that the mapping reads off a good list are
  terms the abstract specification admits. One lemma per instruction says which
  abstract step it is (`CreateOpens`, `DistributionRenegotiates`,
  `AdminChangeHandsOver`, `LockRaisesFloor`) and `OthersStutter` that names,
  distributions and transfers are none; `StepImplements` puts them together
  under `Inv`. `NoDataIsNoAgreement` tells the absence of an agreement from an
  agreement.

Only model-checked: `CrankAvailable` and `TokenCrankAvailable`, as they stand
with `ENABLED`, and `QuietSplitterDrains` and `QuietTokensDrain`, which need
fairness and an induction on the balance that is temporal; these are out of the
prover's reach.
Every other property of a passing run is a theorem. What does hold beside each
finding is proved too: `LocksPersist`, `RevokedKeepsConfig`, `TokenSupplyConserved`,
`TokenDustBounded`, `CurrentCrankPays`, `RevokedStaysCurrent`,
`NeverOlder`, `KeptTokensStay`, `ClosesOnlyWrapped`, `SignatureFollowsAdmin` and
`SolConserved`.

## Not modelled

* `error.rs`: an enumeration; which error an instruction returns changes nothing.
* Decoding of instruction data and of accounts other than by its outcome, `idl.json`, build
  scripts, CI and the TypeScript tests.
* Checks of account arguments that only reject wrong ones (program ids, PDA
  comparisons) appear as the choice of the right account.
* `DistributeToken` beside a sell configuration: it does not read one, and the
  repository does not say whether tokens that are to be sold may be distributed as
  they are. Token accounts other than associated ones.
  So what `KeptTokensStay` and `SoldUnderLastConfig` say is of the instructions of
  `ExternalCalls`; a token distribution takes kept tokens like any other, and a permanent
  delegate that moves tokens in an instruction of its own is not there either.
* What the called programs do beyond moving tokens and closing accounts: what a name
  service stores, and approvals and changes of authority a program with the splitter's
  signature could make.

## Plan

Every instruction of the program is modelled, every property of the runs that
needs neither `ENABLED` nor fairness is proved, and so are the steps that stand
for a loop, the absence of overflow and the parts of the two drain arguments that
do not mention fairness. What is left is `DistributeToken` and `SwapToken` over the
same token accounts, should the repository state which of them may take a token.
