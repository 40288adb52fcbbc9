---------------------------- MODULE TokenSplitter ----------------------------
(***************************************************************************)
(* DistributeToken, next to the instructions of module Splitter that       *)
(* change the list it reads.                                               *)
(*                                                                         *)
(* The instruction is permissionless, and the handler does not look at     *)
(* whose token accounts it is given: anybody may pass any accounts         *)
(* (DistributeToken).  Crankers mean well (Prepare, CrankToken): they read *)
(* the splitter, put the accounts of its recipients together in slot       *)
(* order, sign and send, and the transaction runs later, against the list  *)
(* of that moment.  Token accounts are associated accounts, one for each   *)
(* owner and mint.                                                         *)
(***************************************************************************)
EXTENDS Splitter

CONSTANTS
  Mints,
  ExtendedMints,    \* the mints of Token 2022 that carry extensions
  TokenAmounts,     \* the amounts deposited
  InitialTokens     \* the token accounts before the first instruction

VARIABLES
  tokens,           \* the data of every token account
  prepared          \* the accounts of a cranker's last transaction, by splitter and mint

tokenVars == <<splitter, lamports, tokens, prepared>>

Account == Address \X Mints
TokenData == [amount : Nat, frozen : BOOLEAN]

ASSUME MintTypes == ExtendedMints \subseteq Mints /\ TokenAmounts \subseteq Nat \ {0}
ASSUME InitialTokenTypes == /\ InitialTokens \in [Account -> TokenData \cup {NoData}]
                            /\ NoData \notin TokenData

(***************************************************************************)
(* The token programs, as the handler depends on them.                     *)
(***************************************************************************)

Open(x) == tokens[x] # NoData

\* transfer_checked between two accounts, the amount aside.
TransferAccepted(from, to) ==
  /\ Open(from) /\ ~tokens[from].frozen
  /\ Open(to) /\ ~tokens[to].frozen
  /\ to[2] = from[2]

\* Fault: the balance is written back after the transfers have taken it.
AfterTransfers_DebitsTwice(from, to, due) ==
  [x \in Account |->
     IF ~Open(x) THEN NoData
     ELSE [tokens[x] EXCEPT !.amount =
             @ + Total([i \in 1..Len(due) |-> IF to[i] = x THEN due[i] ELSE 0])
               - (IF x = from THEN 2 * Total(due) ELSE 0)]]

\* Fault: an account passed for several slots is credited for the last only.
AfterTransfers_LastSlot(from, to, due) ==
  [x \in Account |->
     IF ~Open(x) THEN NoData
     ELSE [tokens[x] EXCEPT !.amount =
             @ + Total([i \in 1..Len(due) |->
                          IF to[i] = x /\ (\A j \in i+1..Len(due) : to[j] # x)
                          THEN due[i] ELSE 0])
               - (IF x = from THEN Total(due) ELSE 0)]]

\* The transfers of due[i] to account to[i], one after the other.
AfterTransfers(from, to, due) ==
  [x \in Account |->
     IF ~Open(x) THEN NoData
     ELSE [tokens[x] EXCEPT !.amount =
             @ + Total([i \in 1..Len(due) |-> IF to[i] = x THEN due[i] ELSE 0])
               - (IF x = from THEN Total(due) ELSE 0)]]

\* When the transfer of due[i] is made, what is left of the source covers it.
Covered(from, to, due) ==
  LET spent == RunningTotals([i \in 1..Len(due) |->
                                IF to[i] = from THEN 0 ELSE due[i]])
  IN  \A i \in 1..Len(due) : due[i] <= tokens[from].amount - spent[i-1]

(***************************************************************************)
(* The handler.  The whole balance is distributed; a slot that is due      *)
(* nothing is skipped, and its account is not looked at.  The owners of    *)
(* the accounts are not compared with the recipients.  The mint is read    *)
(* with a decoder that only takes mints without extensions.                *)
(***************************************************************************)

\* Fault: a balance of one unit per slot is taken for dust.
process_distribute_token_SparesDust(p, mint, accounts) ==
  LET rs   == splitter[p].recipients
      from == <<p, mint>>
      due  == Payouts(rs, tokens[from].amount) IN
  /\ Initialized(p)
  /\ rs # << >>
  /\ Open(from)
  /\ tokens[from].amount > Len(rs)
  /\ mint \notin ExtendedMints
  /\ Len(accounts) >= Len(rs)
  /\ \A i \in 1..Len(rs) : due[i] > 0 => TransferAccepted(from, accounts[i])
  /\ Covered(from, accounts, due)
  /\ tokens' = AfterTransfers(from, accounts, due)
  /\ UNCHANGED <<splitter, lamports>>

\* Fault: a slot that is due nothing does not use up the next account.
process_distribute_token_KeepsAccount(p, mint, accounts) ==
  LET rs   == splitter[p].recipients
      from == <<p, mint>>
      due  == Payouts(rs, tokens[from].amount)
      to   == [i \in 1..Len(rs) |-> IF due[i] = 0 THEN from
                 ELSE accounts[Cardinality({j \in 1..i : due[j] > 0})]] IN
  /\ Initialized(p)
  /\ rs # << >>
  /\ Open(from)
  /\ tokens[from].amount > 0
  /\ mint \notin ExtendedMints
  /\ Len(accounts) >= Len(rs)
  /\ \A i \in 1..Len(rs) : due[i] > 0 => TransferAccepted(from, to[i])
  /\ Covered(from, to, due)
  /\ tokens' = AfterTransfers(from, to, due)
  /\ UNCHANGED <<splitter, lamports>>

process_distribute_token(p, mint, accounts) ==
  LET rs   == splitter[p].recipients
      from == <<p, mint>>
      due  == Payouts(rs, tokens[from].amount) IN
  /\ Initialized(p)
  /\ rs # << >>
  /\ Open(from)
  /\ tokens[from].amount > 0
  /\ mint \notin ExtendedMints
  /\ Len(accounts) >= Len(rs)
  /\ \A i \in 1..Len(rs) : due[i] > 0 => TransferAccepted(from, accounts[i])
  /\ Covered(from, accounts, due)
  /\ tokens' = AfterTransfers(from, accounts, due)
  /\ UNCHANGED <<splitter, lamports>>

(***************************************************************************)
(* Transactions.                                                           *)
(***************************************************************************)

\* The recipients' accounts in slot order, for the list of this moment.
MatchingAccounts(p, mint) ==
  LET rs == splitter[p].recipients IN
  [i \in 1..Len(rs) |-> <<rs[i].address, mint>>]

\* A cranker reads the splitter and builds a transaction.
Prepare(p, mint) ==
  /\ Initialized(p) /\ Open(<<p, mint>>)
  /\ prepared[<<p, mint>>] # MatchingAccounts(p, mint)
  /\ prepared' = [prepared EXCEPT ![<<p, mint>>] = MatchingAccounts(p, mint)]
  /\ UNCHANGED <<splitter, lamports, tokens>>

\* The cranker's transaction runs, once.
CrankToken(p, mint) ==
  /\ process_distribute_token(p, mint, prepared[<<p, mint>>])
  /\ prepared' = [prepared EXCEPT ![<<p, mint>>] = << >>]

\* Anybody distributes, into any accounts.  Those after the last slot's are
\* not looked at.
DistributeToken(p, mint) ==
  /\ Initialized(p)
  /\ \E accounts \in [1..Len(splitter[p].recipients) -> Account] :
       process_distribute_token(p, mint, accounts)
  /\ UNCHANGED prepared

\* A holder sends tokens to a splitter.
Deposit(from, p, mint) ==
  \E amount \in TokenAmounts :
    /\ TransferAccepted(<<from, mint>>, <<p, mint>>)
    /\ amount <= tokens[<<from, mint>>].amount
    /\ tokens' = [tokens EXCEPT ![<<from, mint>>].amount = @ - amount,
                                ![<<p, mint>>].amount = @ + amount]
    /\ UNCHANGED <<splitter, lamports, prepared>>

\* Holders open their accounts, and close them when they are empty.
OpenAccount(x) ==
  /\ ~Open(x)
  /\ tokens' = [tokens EXCEPT ![x] = [amount |-> 0, frozen |-> FALSE]]
  /\ UNCHANGED <<splitter, lamports, prepared>>

CloseAccount(x) ==
  /\ Open(x) /\ tokens[x].amount = 0
  /\ tokens' = [tokens EXCEPT ![x] = NoData]
  /\ UNCHANGED <<splitter, lamports, prepared>>

\* The freeze authority of the mint freezes and thaws accounts.
Freeze(x) ==
  /\ Open(x)
  /\ tokens' = [tokens EXCEPT ![x].frozen = ~@]
  /\ UNCHANGED <<splitter, lamports, prepared>>

TokenInit == /\ Init
             /\ tokens = InitialTokens
             /\ prepared = [x \in PDAs \X Mints |-> << >>]

TokenNext ==
  \/ Next /\ UNCHANGED <<tokens, prepared>>
  \/ \E p \in PDAs, mint \in Mints :
       Prepare(p, mint) \/ CrankToken(p, mint) \/ DistributeToken(p, mint)
  \/ \E from \in Wallets, p \in PDAs, mint \in Mints : Deposit(from, p, mint)
  \/ \E a \in Wallets, mint \in Mints :
       OpenAccount(<<a, mint>>) \/ CloseAccount(<<a, mint>>) \/ Freeze(<<a, mint>>)

TokenSpec == TokenInit /\ [][TokenNext]_tokenVars

\* Crankers keep reading the splitters and sending what they have built.
\* Nobody else is obliged to anything.
FairTokenSpec ==
  TokenSpec /\ \A p \in PDAs, mint \in Mints :
                 WF_tokenVars(Prepare(p, mint)) /\ WF_tokenVars(CrankToken(p, mint))

(***************************************************************************)
(* Properties.                                                             *)
(***************************************************************************)

AmountOf(f, x) == IF f[x] = NoData THEN 0 ELSE f[x].amount

\* Token accounts hold naturals: no transfer overdraws a splitter, whatever
\* accounts are passed.
TokenTypeOK ==
  /\ tokens \in [Account -> TokenData \cup {NoData}]
  /\ prepared \in [PDAs \X Mints -> Seq(Account)]

TokenSupply(f, mint) == SumFunction([a \in Address |-> AmountOf(f, <<a, mint>>)])

\* No distribution makes or loses tokens, whatever accounts are passed: the
\* same account for several slots, the splitter's own, and for a slot that is
\* due nothing one that is closed.
TokenSupplyConserved ==
  \A mint \in Mints : TokenSupply(tokens, mint) = TokenSupply(InitialTokens, mint)

Pays(p, mint) == AmountOf(tokens', <<p, mint>>) < AmountOf(tokens, <<p, mint>>)

Gain(a, mint) == AmountOf(tokens', <<a, mint>>) - AmountOf(tokens, <<a, mint>>)

\* A distribution leaves less than one token unit per slot, whatever accounts
\* are passed: when more is left, the splitter's own account was one of them.
TokenDustBounded ==
  [][\A p \in PDAs, mint \in Mints :
       LET rs == splitter[p].recipients IN
       Pays(p, mint) /\ AmountOf(tokens', <<p, mint>>) >= Len(rs) =>
         ~\E accounts \in [1..Len(rs) -> Account \ {<<p, mint>>}] :
            process_distribute_token(p, mint, accounts)]_tokenVars

\* A distribution that is passed the accounts of the current list pays every
\* recipient its part of the whole balance, at least what its floor guarantees.
CurrentCrankPays ==
  [][\A p \in PDAs, mint \in Mints :
       LET rs == splitter[p].recipients
           balance == AmountOf(tokens, <<p, mint>>) IN
       Pays(p, mint) /\ process_distribute_token(p, mint, MatchingAccounts(p, mint)) =>
         \A a \in Listed(rs) \ {p} :
           /\ Gain(a, mint) = PaidTo(rs, balance, a)
           /\ Gain(a, mint) >= Payout(balance, LockOf(rs, a))]_tokenVars

\* A recipient whose account cannot take what it is due.
Blocked(p, mint, a) ==
  LET balance == AmountOf(tokens, <<p, mint>>) IN
  /\ Initialized(p)
  /\ PaidTo(splitter[p].recipients, balance, a) > 0
  /\ ~TransferAccepted(<<p, mint>>, <<a, mint>>)

\* A cranker's transaction built from the current list goes through unless one
\* of the recipients' accounts cannot be paid: rounding never asks for more
\* than there is.  Mints with extensions aside.
TokenCrankAvailable ==
  \A p \in PDAs, mint \in Mints \ ExtendedMints :
    /\ Initialized(p)
    /\ AmountOf(tokens, <<p, mint>>) > 0
    /\ prepared[<<p, mint>>] = MatchingAccounts(p, mint)
    /\ \A a \in Address : ~Blocked(p, mint, a)
    => ENABLED CrankToken(p, mint)

\* Some address other than the splitter is due a part of the balance.
TokensOwed(p, mint) ==
  /\ Initialized(p)
  /\ \E a \in Address \ {p} :
       PaidTo(splitter[p].recipients, AmountOf(tokens, <<p, mint>>), a) > 0

\* When deposits stop and the list stays as it is, the splitter is emptied, by
\* the crankers or, before them, by somebody else: again and again nothing is
\* owed any more, unless again and again a recipient's account is missing or
\* frozen.  Who is paid is another matter: see RecipientsPaid.
Settled(p, mint) ==
  /\ splitter'[p] = splitter[p]
  /\ AmountOf(tokens', <<p, mint>>) <= AmountOf(tokens, <<p, mint>>)

QuietTokensDrain ==
  \A p \in PDAs, mint \in Mints \ ExtendedMints :
    <>[][Settled(p, mint)]_tokenVars =>
      []<>(~TokensOwed(p, mint) \/ \E a \in Address : Blocked(p, mint, a))

\* What every slot is due arrives with the recipient the slot names when the
\* distribution runs, as its events report.
PaysTheListed(p, mint) ==
  Pays(p, mint) =>
    \A a \in Address \ {p} :
      Gain(a, mint) = Reported(splitter[p].recipients, AmountOf(tokens, <<p, mint>>), a)

\* The cranker's transaction, if there is one, is for the recipients listed.
Current(p, mint) == prepared[<<p, mint>>] \in {<< >>, MatchingAccounts(p, mint)}

\* Once the admin is revoked and the cranker's transaction is for the list, it
\* stays so, and when it runs it pays each slot, the ones that are due nothing
\* skipped, to the recipient the slot names: crankers who mean well can no
\* longer be overtaken by a change of list.  Others may still distribute in
\* between, into any accounts.
RevokedStaysCurrent ==
  [][\A p \in PDAs, mint \in Mints :
       Initialized(p) /\ is_admin_revoked(splitter[p]) /\ Current(p, mint) =>
         /\ Current(p, mint)'
         /\ CrankToken(p, mint) => PaysTheListed(p, mint)]_tokenVars

\* "Recipient token accounts (must match configured recipients in order)"
\* (lib.rs, distribute_token.rs): every distribution pays the recipients listed.
RecipientsPaid == [][\A p \in PDAs, mint \in Mints : PaysTheListed(p, mint)]_tokenVars

=============================================================================
