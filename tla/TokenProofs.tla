---------------------------- MODULE TokenProofs ----------------------------
(***************************************************************************)
(* The safety of module TokenSplitter, for every list, mint and amount and *)
(* for whatever accounts a distribution is given, those of a cranker or    *)
(* any others.                                                             *)
(***************************************************************************)
EXTENDS TokenSplitter, SplitterProofs

TokenInv == Inv /\ TokenTypeOK

\* What arrives in an account when due[i] is sent to to[i].
Arrives(to, due, x) == Total([i \in 1..Len(due) |-> IF to[i] = x THEN due[i] ELSE 0])

\* What a distribution moves, to whatever accounts: all of the balance but less
\* than a unit a slot.
LEMMA DistributeTokenStep ==
  ASSUME TokenInv, NEW p \in PDAs, NEW mint \in Mints, NEW to,
         process_distribute_token(p, mint, to)
  PROVE  LET rs   == splitter[p].recipients
             from == <<p, mint>>
             B    == tokens[from].amount
             due  == Payouts(rs, B)
         IN  /\ GoodList(rs) /\ Open(from) /\ B \in Nat
             /\ due \in Seq(Nat) /\ Len(due) = Len(rs) /\ Len(to) >= Len(rs)
             /\ Total(due) \in Nat /\ Total(due) <= B /\ B < Total(due) + Len(rs)
             /\ \A i \in 1..Len(rs) : due[i] > 0 => Open(to[i])
             /\ \A x \in Account :
                  /\ Arrives(to, due, x) \in Nat
                  /\ ~Open(x) => tokens'[x] = NoData
                  /\ Open(x) =>
                       /\ tokens'[x] \in TokenData
                       /\ tokens'[x].amount = tokens[x].amount + Arrives(to, due, x)
                                                - (IF x = from THEN Total(due) ELSE 0)
<1> DEFINE rs   == splitter[p].recipients
           from == <<p, mint>>
           B    == tokens[from].amount
           due  == Payouts(rs, B)
<1>1. /\ Initialized(p) /\ Open(from) /\ rs # << >> /\ Len(to) >= Len(rs)
      /\ \A i \in 1..Len(rs) : due[i] > 0 => Open(to[i])
      /\ tokens' = AfterTransfers(from, to, due)
  BY DEF process_distribute_token, TransferAccepted
<1>2. tokens \in [Account -> TokenData \cup {NoData}] /\ from \in Account
  BY DEF TokenInv, TokenTypeOK, Account, Address
<1>3. B \in Nat
  BY <1>1, <1>2 DEF Open, TokenData
<1>4. GoodList(rs)
  BY <1>1 DEF TokenInv, Inv, GoodAccount
<1> HIDE DEF rs, B, from
<1>5. /\ rs \in Seq(Recipient) /\ Len(rs) \in Nat \ {0}
      /\ \A i \in 1..Len(rs) : rs[i].share \in Nat
  <2>1. rs \in Seq(Recipient) /\ \A i \in 1..Len(rs) : rs[i] \in Recipient
    BY <1>4, ElementOfSeq DEF GoodList
  <2>2. Len(rs) # 0
    BY <1>1, <2>1
  <2> QED
    BY <2>1, <2>2 DEF Recipient
<1>6. Total(due) \in Nat /\ Total(due) <= B /\ B < Total(due) + Len(rs)
  <2>1. Total(Shares(rs)) = TOTAL_SHARES
    BY <1>4 DEF GoodList
  <2> QED
    BY <1>3, <1>5, <2>1, PayoutsBounded
<1>7. due \in Seq(Nat) /\ Len(due) = Len(rs)
  <2>1. \A i \in 1..Len(rs) : Payout(B, rs[i].share) \in Nat
    BY <1>3, <1>5, PayoutRoundsDown
  <2>2. due = [i \in 1..Len(rs) |-> Payout(B, rs[i].share)]
    BY DEF Payouts
  <2> HIDE DEF due
  <2>3. due \in [1..Len(rs) -> Nat]
    BY <2>1, <2>2
  <2> QED
    BY <1>5, <2>3
<1> HIDE DEF due
<1>8. ASSUME NEW x PROVE Arrives(to, due, x) \in Nat
  <2> DEFINE h == [i \in 1..Len(due) |-> IF to[i] = x THEN due[i] ELSE 0]
  <2>1. Len(due) \in Nat /\ \A i \in 1..Len(due) : due[i] \in Nat
    BY <1>7
  <2>2. h \in [1..Len(due) -> Nat]
    BY <2>1
  <2>3. h \in Seq(Nat)
    BY <2>1, <2>2
  <2> HIDE DEF h
  <2>4. Total(h) \in Nat
    BY <2>3, TotalNat
  <2> QED
    BY <2>4 DEF Arrives, h
<1>9. ASSUME NEW x \in Account
      PROVE  /\ ~Open(x) => tokens'[x] = NoData
             /\ Open(x) =>
                  /\ tokens'[x] \in TokenData
                  /\ tokens'[x].amount = tokens[x].amount + Arrives(to, due, x)
                                           - (IF x = from THEN Total(due) ELSE 0)
  <2> DEFINE n == tokens[x].amount + Arrives(to, due, x)
                    - (IF x = from THEN Total(due) ELSE 0)
  <2>1. tokens'[x] = IF ~Open(x) THEN NoData ELSE [tokens[x] EXCEPT !.amount = n]
    BY <1>1 DEF AfterTransfers, Arrives
  <2>2. CASE Open(x)
    <3>1. tokens[x] \in TokenData /\ tokens[x].amount \in Nat
      BY <1>2, <2>2 DEF Open, TokenData
    <3>2. n \in Nat
      <4>1. CASE x = from
        BY <1>3, <1>6, <1>8, <4>1 DEF B
      <4>2. CASE x # from
        BY <1>8, <3>1, <4>2
      <4> QED
        BY <4>1, <4>2
    <3> HIDE DEF n
    <3>3. tokens'[x] \in TokenData /\ tokens'[x].amount = n
      BY <2>1, <2>2, <3>1, <3>2 DEF TokenData
    <3> QED
      BY <2>2, <3>3 DEF n
  <2>3. CASE ~Open(x)
    BY <2>1, <2>3
  <2> QED
    BY <2>2, <2>3
<1> QED
  BY <1>1, <1>3, <1>4, <1>6, <1>7, <1>8, <1>9 DEF rs, B, from, due

\* A deposit moves tokens of a wallet.
LEMMA DepositStep ==
  ASSUME TokenInv, NEW a \in Wallets, NEW p \in PDAs, NEW mint \in Mints,
         Deposit(a, p, mint)
  PROVE  /\ tokens' \in [Account -> TokenData \cup {NoData}]
         /\ UNCHANGED <<splitter, lamports, prepared>>
         /\ \A q \in PDAs, m \in Mints :
              /\ tokens'[<<q, m>>] = NoData <=> tokens[<<q, m>>] = NoData
              /\ Open(<<q, m>>) => tokens'[<<q, m>>].amount >= tokens[<<q, m>>].amount
<1> DEFINE x == <<a, mint>>
           y == <<p, mint>>
<1>1. PICK n \in TokenAmounts :
        /\ Open(x) /\ Open(y) /\ n <= tokens[x].amount
        /\ tokens' = [tokens EXCEPT ![x].amount = @ - n, ![y].amount = @ + n]
        /\ UNCHANGED <<splitter, lamports, prepared>>
  BY DEF Deposit, TransferAccepted
<1>2. /\ tokens \in [Account -> TokenData \cup {NoData}]
      /\ x \in Account /\ y \in Account /\ x # y /\ n \in Nat
      /\ x[1] \notin PDAs
  BY AddressesDiffer, MintTypes DEF TokenInv, TokenTypeOK, Account, Address
<1> HIDE DEF x, y
<1>3. /\ tokens[x] \in TokenData /\ tokens[x].amount \in Nat
      /\ tokens[y] \in TokenData /\ tokens[y].amount \in Nat
  BY <1>1, <1>2 DEF Open, TokenData
<1>4. /\ tokens' = [z \in Account |-> IF z = y THEN [tokens[y] EXCEPT !.amount = @ + n]
                                     ELSE IF z = x THEN [tokens[x] EXCEPT !.amount = @ - n]
                                     ELSE tokens[z]]
  BY <1>1, <1>2
<1>5. /\ [tokens[y] EXCEPT !.amount = @ + n] \in TokenData
      /\ [tokens[y] EXCEPT !.amount = @ + n].amount = tokens[y].amount + n
      /\ [tokens[x] EXCEPT !.amount = @ - n] \in TokenData
  BY <1>1, <1>2, <1>3 DEF TokenData
<1>6. tokens' \in [Account -> TokenData \cup {NoData}]
  BY <1>2, <1>4, <1>5
<1>7. ASSUME NEW q \in PDAs, NEW m \in Mints
      PROVE  /\ tokens'[<<q, m>>] = NoData <=> tokens[<<q, m>>] = NoData
             /\ Open(<<q, m>>) => tokens'[<<q, m>>].amount >= tokens[<<q, m>>].amount
  <2> DEFINE z == <<q, m>>
  <2>1. z \in Account /\ z # x
    BY <1>2 DEF Account, Address
  <2> HIDE DEF z
  <2>2. CASE z = y
    <3>1. tokens'[z] \in TokenData /\ tokens'[z].amount = tokens[z].amount + n
      BY <1>4, <1>5, <2>1, <2>2
    <3> QED
      BY <1>2, <1>3, <2>2, <3>1, InitialTokenTypes DEF z
  <2>3. CASE z # y
    <3>1. tokens'[z] = tokens[z]
      BY <1>4, <2>1, <2>3
    <3>2. Open(z) => tokens[z].amount \in Nat
      BY <1>2, <2>1 DEF Open, TokenData
    <3> QED
      BY <3>1, <3>2 DEF z
  <2> QED
    BY <2>2, <2>3
<1> QED
  BY <1>1, <1>6, <1>7

\* Opening, closing and freezing leaves the splitters' accounts alone.
LEMMA HolderStep ==
  ASSUME TokenInv, NEW a \in Wallets, NEW mint \in Mints,
         OpenAccount(<<a, mint>>) \/ CloseAccount(<<a, mint>>) \/ Freeze(<<a, mint>>)
  PROVE  /\ tokens' \in [Account -> TokenData \cup {NoData}]
         /\ UNCHANGED <<splitter, lamports, prepared>>
         /\ \A q \in PDAs, m \in Mints : tokens'[<<q, m>>] = tokens[<<q, m>>]
<1> DEFINE x == <<a, mint>>
<1>1. /\ tokens \in [Account -> TokenData \cup {NoData}]
      /\ x \in Account /\ x[1] \notin PDAs
  BY AddressesDiffer DEF TokenInv, TokenTypeOK, Account, Address
<1>2. /\ UNCHANGED <<splitter, lamports, prepared>>
      /\ \E v \in TokenData \cup {NoData} : tokens' = [tokens EXCEPT ![x] = v]
  <2>1. CASE OpenAccount(x)
    BY <2>1 DEF OpenAccount, TokenData
  <2>2. CASE CloseAccount(x)
    BY <2>2 DEF CloseAccount
  <2>3. CASE Freeze(x)
    <3>1. tokens[x] \in TokenData
      BY <1>1, <2>3 DEF Freeze, Open
    <3>2. [tokens[x] EXCEPT !.frozen = ~@] \in TokenData
      BY <3>1 DEF TokenData
    <3>3. tokens' = [tokens EXCEPT ![x] = [tokens[x] EXCEPT !.frozen = ~@]]
      BY <2>3 DEF Freeze
    <3> QED
      BY <2>3, <3>2, <3>3 DEF Freeze
  <2> QED
    BY <2>1, <2>2, <2>3
<1> HIDE DEF x
<1>3. tokens' \in [Account -> TokenData \cup {NoData}]
  BY <1>1, <1>2
<1>4. ASSUME NEW q \in PDAs, NEW m \in Mints PROVE tokens'[<<q, m>>] = tokens[<<q, m>>]
  <2>1. <<q, m>> \in Account /\ <<q, m>> # x
    BY <1>1 DEF Account, Address
  <2> QED
    BY <1>1, <1>2, <2>1
<1> QED
  BY <1>2, <1>3, <1>4

\* The accounts put together for a list.
LEMMA PrepareStep ==
  ASSUME TokenInv, NEW p \in PDAs, NEW mint \in Mints, Prepare(p, mint)
  PROVE  TokenTypeOK' /\ UNCHANGED <<splitter, lamports, tokens>>
<1> DEFINE rs == splitter[p].recipients
<1>1. /\ Initialized(p) /\ UNCHANGED <<splitter, lamports, tokens>>
      /\ prepared' = [prepared EXCEPT ![<<p, mint>>] = MatchingAccounts(p, mint)]
  BY DEF Prepare
<1>2. GoodList(rs)
  BY <1>1 DEF TokenInv, Inv, GoodAccount
<1>3. Len(rs) \in Nat /\ \A i \in 1..Len(rs) : <<rs[i].address, mint>> \in Account
  <2>1. rs \in Seq(Recipient) /\ \A i \in 1..Len(rs) : rs[i] \in Recipient
    BY <1>2, ElementOfSeq DEF GoodList
  <2>2. \A i \in 1..Len(rs) : rs[i].address \in Address
    BY <2>1 DEF Recipient
  <2>3. Len(rs) \in Nat
    BY <2>1
  <2> QED
    BY <2>2, <2>3 DEF Account
<1>4. MatchingAccounts(p, mint) \in [1..Len(rs) -> Account]
  BY <1>3 DEF MatchingAccounts
<1>5. MatchingAccounts(p, mint) \in Seq(Account)
  BY <1>3, <1>4
<1> QED
  BY <1>1, <1>5 DEF TokenInv, TokenTypeOK

\* The steps of module Splitter are its own, and the others do not touch what
\* it keeps.
LEMMA TokenStepIsStep == [TokenNext]_tokenVars => [Next]_vars
<1>1. ASSUME NEW p \in PDAs, NEW mint \in Mints, NEW to,
             process_distribute_token(p, mint, to)
      PROVE  UNCHANGED vars
  BY <1>1 DEF process_distribute_token, vars
<1>2. ASSUME NEW p \in PDAs, NEW mint \in Mints,
             Prepare(p, mint) \/ CrankToken(p, mint) \/ DistributeToken(p, mint)
      PROVE  UNCHANGED vars
  BY <1>1, <1>2 DEF Prepare, CrankToken, DistributeToken, vars
<1>3. ASSUME NEW a \in Wallets, NEW mint \in Mints,
             \/ \E p \in PDAs : Deposit(a, p, mint)
             \/ OpenAccount(<<a, mint>>) \/ CloseAccount(<<a, mint>>) \/ Freeze(<<a, mint>>)
      PROVE  UNCHANGED vars
  BY <1>3 DEF Deposit, OpenAccount, CloseAccount, Freeze, vars
<1> QED
  BY <1>2, <1>3 DEF TokenNext, tokenVars, vars

\* Of a distribution, a cranker's or another one: the handler ran for some
\* accounts, and the cranker's transaction is used up or left as it was.
LEMMA DistributionRan ==
  ASSUME TokenInv, NEW p \in PDAs, NEW mint \in Mints,
         CrankToken(p, mint) \/ DistributeToken(p, mint)
  PROVE  /\ \E to \in Seq(Account) : process_distribute_token(p, mint, to)
         /\ \/ prepared' = [prepared EXCEPT ![<<p, mint>>] = << >>]
            \/ UNCHANGED prepared
<1>1. CASE CrankToken(p, mint)
  <2>1. prepared[<<p, mint>>] \in Seq(Account)
    BY DEF TokenInv, TokenTypeOK
  <2> QED
    BY <1>1, <2>1 DEF CrankToken
<1>2. CASE DistributeToken(p, mint)
  <2>1. PICK to \in [1..Len(splitter[p].recipients) -> Account] :
          process_distribute_token(p, mint, to)
    BY <1>2 DEF DistributeToken
  <2>2. Len(splitter[p].recipients) \in Nat
    BY <1>2, StoredListTypes DEF DistributeToken, TokenInv, Inv, GoodAccount
  <2>3. to \in Seq(Account)
    BY <2>2
  <2> QED
    BY <1>2, <2>1, <2>3 DEF DistributeToken
<1> QED
  BY <1>1, <1>2

\* Every step preserves the invariant.
LEMMA TokenStepInv == TokenInv /\ [TokenNext]_tokenVars => TokenInv'
<1> SUFFICES ASSUME TokenInv, [TokenNext]_tokenVars PROVE TokenInv'
  OBVIOUS
<1>1. Inv /\ TokenTypeOK
  BY DEF TokenInv
<1>2. Inv'
  BY <1>1, TokenStepIsStep, StepInv
<1>3. TokenTypeOK'
  <2>1. ASSUME NEW p \in PDAs, NEW mint \in Mints,
               CrankToken(p, mint) \/ DistributeToken(p, mint)
        PROVE  TokenTypeOK'
    <3>0. PICK to \in Seq(Account) : process_distribute_token(p, mint, to)
      BY <2>1, DistributionRan
    <3>1. \A x \in Account : tokens'[x] \in TokenData \cup {NoData}
      BY <3>0, DistributeTokenStep
    <3>2. tokens' = [x \in Account |-> tokens'[x]]
      BY <3>0 DEF process_distribute_token, AfterTransfers
    <3> HIDE DEF TokenTypeOK
    <3>3. tokens' \in [Account -> TokenData \cup {NoData}]
      BY <3>1, <3>2
    <3>4. \/ prepared' = [prepared EXCEPT ![<<p, mint>>] = << >>]
          \/ UNCHANGED prepared
      BY <2>1, DistributionRan
    <3>5. << >> \in Seq(Account)
      OBVIOUS
    <3> QED
      BY <1>1, <3>3, <3>4, <3>5 DEF TokenTypeOK
  <2>2. ASSUME NEW p \in PDAs, NEW mint \in Mints, Prepare(p, mint)
        PROVE  TokenTypeOK'
    BY <2>2, PrepareStep
  <2>3. ASSUME NEW a \in Wallets, NEW p \in PDAs, NEW mint \in Mints, Deposit(a, p, mint)
        PROVE  TokenTypeOK'
    BY <1>1, <2>3, DepositStep DEF TokenTypeOK
  <2>4. ASSUME NEW a \in Wallets, NEW mint \in Mints,
               OpenAccount(<<a, mint>>) \/ CloseAccount(<<a, mint>>) \/ Freeze(<<a, mint>>)
        PROVE  TokenTypeOK'
    BY <1>1, <2>4, HolderStep DEF TokenTypeOK
  <2>5. CASE UNCHANGED <<tokens, prepared>>
    BY <1>1, <2>5 DEF TokenTypeOK
  <2> QED
    BY <2>1, <2>2, <2>3, <2>4, <2>5 DEF TokenNext, tokenVars
<1> QED
  BY <1>2, <1>3 DEF TokenInv

\* The first state satisfies it.
LEMMA TokenInitInv == TokenInit => TokenInv
<1> SUFFICES ASSUME TokenInit PROVE TokenInv
  OBVIOUS
<1>1. Inv
  BY InitInv DEF TokenInit
<1>2. TokenTypeOK
  BY InitialTokenTypes DEF TokenInit, TokenTypeOK
<1> QED
  BY <1>1, <1>2 DEF TokenInv

\* The invariant holds in every reachable state.
THEOREM TokenInvariance == TokenSpec => []TokenInv
<1> QED
  BY TokenInitInv, TokenStepInv, PTL DEF TokenSpec

(***************************************************************************)
(* The theorems.                                                           *)
(***************************************************************************)

\* Distributing tokens implements module Splitter: every theorem about the
\* splitter accounts holds with token distributions in between.
THEOREM TokensImplementSplitter == TokenSpec => Spec
<1>1. TokenInit => Init
  BY DEF TokenInit
<1> QED
  BY <1>1, TokenStepIsStep, PTL DEF TokenSpec, Spec

\* No transfer overdraws a token account, whatever accounts are passed.
THEOREM TokenTypeCorrect == TokenSpec => []TokenTypeOK
<1>1. TokenInv => TokenTypeOK
  BY DEF TokenInv
<1> QED
  BY <1>1, TokenInvariance, PTL

\* Only a distribution makes a splitter's balance less.
LEMMA OnlyCrankPays ==
  ASSUME TokenInv, [TokenNext]_tokenVars, NEW p \in PDAs, NEW mint \in Mints, Pays(p, mint)
  PROVE  /\ CrankToken(p, mint) \/ DistributeToken(p, mint)
         /\ \E to \in Seq(Account) : process_distribute_token(p, mint, to)
<1> DEFINE z == <<p, mint>>
<1>1. /\ z \in Account /\ tokens \in [Account -> TokenData \cup {NoData}]
      /\ AmountOf(tokens', z) < AmountOf(tokens, z)
  BY DEF TokenInv, TokenTypeOK, Account, Address, Pays
<1>2. AmountOf(tokens, z) \in Nat
  BY <1>1 DEF AmountOf, TokenData
<1>3. ASSUME tokens'[z] = tokens[z] PROVE FALSE
  BY <1>1, <1>2, <1>3 DEF AmountOf
<1>4. ASSUME NEW q \in PDAs, NEW m \in Mints,
             CrankToken(q, m) \/ DistributeToken(q, m), <<q, m>> # z
      PROVE  FALSE
  <2>0. PICK to \in Seq(Account) : process_distribute_token(q, m, to)
    BY <1>4, DistributionRan
  <2> DEFINE due == Payouts(splitter[q].recipients, tokens[<<q, m>>].amount)
             in  == Arrives(to, due, z)
  <2>1. /\ in \in Nat
        /\ ~Open(z) => tokens'[z] = NoData
        /\ Open(z) => tokens'[z] \in TokenData
                      /\ tokens'[z].amount = tokens[z].amount + in - 0
    BY <1>1, <1>4, <2>0, DistributeTokenStep
  <2> HIDE DEF in
  <2>2. CASE Open(z)
    <3>1. tokens[z].amount \in Nat
      BY <1>1, <2>2 DEF Open, TokenData
    <3>2. tokens'[z] # NoData /\ tokens'[z].amount >= tokens[z].amount
      BY <2>1, <2>2, <3>1, InitialTokenTypes
    <3>3. AmountOf(tokens', z) = tokens'[z].amount /\ AmountOf(tokens, z) = tokens[z].amount
      BY <2>2, <3>2 DEF AmountOf, Open
    <3>4. tokens'[z].amount \in Nat
      BY <2>1, <2>2 DEF TokenData
    <3> HIDE DEF z
    <3> QED
      BY <1>1, <3>1, <3>2, <3>3, <3>4
  <2>3. CASE ~Open(z)
    BY <1>3, <2>1, <2>3 DEF Open
  <2> QED
    BY <2>2, <2>3
<1>5. ASSUME NEW a \in Wallets, NEW q \in PDAs, NEW m \in Mints, Deposit(a, q, m)
      PROVE  FALSE
  <2>1. /\ tokens'[z] = NoData <=> tokens[z] = NoData
        /\ Open(z) => tokens'[z].amount >= tokens[z].amount
        /\ tokens' \in [Account -> TokenData \cup {NoData}]
    BY <1>5, DepositStep
  <2>2. CASE Open(z)
    <3>1. tokens[z].amount \in Nat /\ tokens'[z].amount \in Nat
      BY <1>1, <2>1, <2>2 DEF Open, TokenData
    <3>2. AmountOf(tokens', z) = tokens'[z].amount /\ AmountOf(tokens, z) = tokens[z].amount
      BY <2>1, <2>2 DEF AmountOf, Open
    <3>3. tokens'[z].amount >= tokens[z].amount
      BY <2>1, <2>2
    <3> HIDE DEF z
    <3> QED
      BY <1>1, <2>2, <3>1, <3>2, <3>3
  <2>3. CASE ~Open(z)
    BY <1>3, <2>1, <2>3 DEF Open
  <2> QED
    BY <2>2, <2>3
<1>6. ASSUME NEW a \in Wallets, NEW m \in Mints,
             OpenAccount(<<a, m>>) \/ CloseAccount(<<a, m>>) \/ Freeze(<<a, m>>)
      PROVE  FALSE
  BY <1>3, <1>6, HolderStep
<1>7. ASSUME NEW q \in PDAs, NEW m \in Mints, Prepare(q, m) PROVE FALSE
  BY <1>3, <1>7 DEF Prepare
<1>8. CASE UNCHANGED <<tokens, prepared>>
  BY <1>3, <1>8
<1>9. \E q \in PDAs, m \in Mints :
        (CrankToken(q, m) \/ DistributeToken(q, m)) /\ <<q, m>> = z
  BY <1>4, <1>5, <1>6, <1>7, <1>8 DEF TokenNext, tokenVars
<1>10. CrankToken(p, mint) \/ DistributeToken(p, mint)
  BY <1>9
<1> QED
  BY <1>10, DistributionRan

\* Less than a unit a slot stays, if the splitter's account is not passed.
THEOREM TokenDustAlwaysBounded == TokenSpec => TokenDustBounded
<1>1. ASSUME TokenInv, NEW p \in PDAs, NEW mint \in Mints,
             NEW to \in [1..Len(splitter[p].recipients) -> Account \ {<<p, mint>>}],
             process_distribute_token(p, mint, to)
      PROVE  ~(AmountOf(tokens', <<p, mint>>) >= Len(splitter[p].recipients))
  <2> DEFINE rs   == splitter[p].recipients
             from == <<p, mint>>
             B    == tokens[from].amount
             due  == Payouts(rs, B)
             h    == [i \in 1..Len(due) |-> IF to[i] = from THEN due[i] ELSE 0]
  <2>1. from \in Account
    BY DEF Account, Address
  <2>2. /\ GoodList(rs) /\ Open(from) /\ B \in Nat
        /\ due \in Seq(Nat) /\ Len(due) = Len(rs)
        /\ Total(due) \in Nat /\ Total(due) <= B /\ B < Total(due) + Len(rs)
        /\ tokens'[from] \in TokenData
        /\ tokens'[from].amount = B + Arrives(to, due, from) - Total(due)
    BY <1>1, <2>1, DistributeTokenStep
  <2>3. \A i \in 1..Len(rs) : to[i] # from
    BY <1>1
  <2> HIDE DEF rs, from, B, due
  <2>4. \A i \in 1..Len(due) : to[i] # from
    BY <2>2, <2>3
  <2>5. Len(due) \in Nat /\ h \in [1..Len(due) -> Nat] /\ \A i \in 1..Len(due) : h[i] = 0
    BY <2>2, <2>4
  <2>6. Total(h) = 0
    <3>1. h \in Seq(Nat) /\ Len(h) = Len(due)
      BY <2>5
    <3> HIDE DEF h
    <3> QED
      BY <2>5, <3>1, TotalOfZeros
  <2>7. tokens'[from].amount = B - Total(due)
    BY <2>2, <2>6 DEF Arrives
  <2>8. ~(tokens'[from].amount >= Len(rs))
    <3>1. Len(rs) \in Nat
      BY <2>2
    <3> QED
      BY <2>2, <2>7, <3>1
  <2>9. tokens'[from] # NoData
    BY <2>2, InitialTokenTypes
  <2> QED
    BY <2>8, <2>9 DEF AmountOf, rs, from
<1>2. TokenInv /\ [TokenNext]_tokenVars =>
        [\A p \in PDAs, mint \in Mints :
           LET rs == splitter[p].recipients IN
           Pays(p, mint) /\ AmountOf(tokens', <<p, mint>>) >= Len(rs) =>
             ~\E accounts \in [1..Len(rs) -> Account \ {<<p, mint>>}] :
                process_distribute_token(p, mint, accounts)]_tokenVars
  BY <1>1
<1> QED
  BY <1>2, TokenInvariance, PTL DEF TokenSpec, TokenDustBounded

\* What the transfers of a distribution to the recipients listed send to an
\* address is what the slots that name it are due.
LEMMA CurrentCrankSends ==
  ASSUME NEW p, NEW mint, NEW B, NEW a,
         Len(Payouts(splitter[p].recipients, B)) = Len(splitter[p].recipients)
  PROVE  Arrives(MatchingAccounts(p, mint), Payouts(splitter[p].recipients, B), <<a, mint>>)
           = PaidTo(splitter[p].recipients, B, a)
<1> DEFINE rs  == splitter[p].recipients
           due == Payouts(rs, B)
           to  == MatchingAccounts(p, mint)
           x   == <<a, mint>>
<1>1. \A i \in 1..Len(rs) : to[i] = <<rs[i].address, mint>> /\ due[i] = Payout(B, rs[i].share)
  BY DEF MatchingAccounts, Payouts
<1>2. Len(due) = Len(rs)
  OBVIOUS
<1>3. [i \in 1..Len(due) |-> IF to[i] = x THEN due[i] ELSE 0]
        = [i \in 1..Len(rs) |-> IF rs[i].address = a THEN Payout(B, rs[i].share) ELSE 0]
  <2> HIDE DEF rs, due, to
  <2> QED
    BY <1>1, <1>2
<1> QED
  BY <1>3 DEF Arrives, PaidTo

\* A distribution to the recipients listed pays every address what the slots
\* that name it are due.
LEMMA CurrentCrankGains ==
  ASSUME TokenInv, NEW p \in PDAs, NEW mint \in Mints,
         process_distribute_token(p, mint, MatchingAccounts(p, mint)),
         NEW a \in Address \ {p}
  PROVE  LET rs == splitter[p].recipients
             B  == tokens[<<p, mint>>].amount
         IN  /\ GoodList(rs) /\ B \in Nat
             /\ AmountOf(tokens, <<p, mint>>) = B
             /\ Gain(a, mint) = PaidTo(rs, B, a)
<1> DEFINE rs   == splitter[p].recipients
           from == <<p, mint>>
           B    == tokens[from].amount
           due  == Payouts(rs, B)
           to   == MatchingAccounts(p, mint)
           x    == <<a, mint>>
           P    == PaidTo(rs, B, a)
<1>1. x \in Account /\ x # from /\ GoodList(rs)
  BY DistributeTokenStep DEF Account
<1>2. /\ Open(from) /\ B \in Nat /\ Len(due) = Len(rs)
      /\ \A i \in 1..Len(rs) : due[i] > 0 => Open(to[i])
      /\ ~Open(x) => tokens'[x] = NoData
      /\ Open(x) => /\ tokens'[x] \in TokenData
                    /\ tokens'[x].amount = tokens[x].amount + Arrives(to, due, x) - 0
  BY <1>1, DistributeTokenStep
<1>3. \A i \in 1..Len(rs) : to[i] = <<rs[i].address, mint>> /\ due[i] = Payout(B, rs[i].share)
  BY DEF MatchingAccounts, Payouts
<1>4. Arrives(to, due, x) = P
  BY <1>2, CurrentCrankSends
<1>5. AmountOf(tokens, from) = B
  BY <1>2 DEF AmountOf, Open
<1>6. \A i \in 1..Len(rs) : rs[i].share \in Nat /\ Payout(B, rs[i].share) \in Nat
  BY <1>1, <1>2, StoredListTypes, PayoutRoundsDown
<1>7. P \in Nat
  <2>1. Len(rs) \in Nat
    BY <1>1, StoredListTypes
  <2> QED
    BY <1>2, <1>6, <2>1, PaidToAtLeast
<1>8. CASE Open(x)
  <2>1. tokens[x].amount \in Nat
    BY <1>1, <1>8 DEF TokenInv, TokenTypeOK, Open, TokenData
  <2>2. tokens'[x] # NoData /\ tokens'[x].amount = tokens[x].amount + P
    <3> HIDE DEF P
    <3> QED
      BY <1>2, <1>4, <1>7, <1>8, <2>1, InitialTokenTypes
  <2>3. Gain(a, mint) = tokens'[x].amount - tokens[x].amount
    BY <1>8, <2>2 DEF Gain, AmountOf, Open
  <2> HIDE DEF P, x
  <2>4. Gain(a, mint) = P
    BY <1>7, <2>1, <2>2, <2>3
  <2> QED
    BY <1>1, <1>2, <1>5, <2>4 DEF P
<1>9. CASE ~Open(x)
  <2> DEFINE h == [i \in 1..Len(rs) |->
                     IF rs[i].address = a THEN Payout(B, rs[i].share) ELSE 0]
  <2>1. ASSUME NEW i \in 1..Len(rs), rs[i].address = a PROVE Payout(B, rs[i].share) = 0
    <3>1. to[i] = x /\ due[i] = Payout(B, rs[i].share) /\ Payout(B, rs[i].share) \in Nat
      BY <1>3, <1>6, <2>1
    <3> HIDE DEF rs, due, to, B, x
    <3>2. ~(due[i] > 0)
      BY <1>2, <1>9, <3>1
    <3> QED
      BY <3>1, <3>2
  <2>2. Len(rs) \in Nat /\ h \in [1..Len(rs) -> Nat] /\ \A i \in 1..Len(rs) : h[i] = 0
    <3>1. Len(rs) \in Nat
      BY <1>1, StoredListTypes
    <3> HIDE DEF rs, B
    <3> QED
      BY <1>6, <2>1, <3>1
  <2>3. h \in Seq(Nat) /\ Len(h) = Len(rs)
    BY <2>2
  <2>4. P = Total(h)
    BY DEF PaidTo
  <2> HIDE DEF h, P, rs
  <2>5. P = 0
    BY <2>2, <2>3, <2>4, TotalOfZeros
  <2>6. Gain(a, mint) = P
    BY <1>2, <1>9, <2>5 DEF Gain, AmountOf, Open
  <2> QED
    BY <1>1, <1>2, <1>5, <2>6 DEF P, rs
<1> QED
  BY <1>8, <1>9

\* A distribution to the recipients listed pays every one of them its part.
THEOREM CurrentCrankAlwaysPays == TokenSpec => CurrentCrankPays
<1>1. ASSUME TokenInv, [TokenNext]_tokenVars, NEW p \in PDAs, NEW mint \in Mints,
             process_distribute_token(p, mint, MatchingAccounts(p, mint)),
             NEW a \in Listed(splitter[p].recipients) \ {p}
      PROVE  LET rs == splitter[p].recipients
                 balance == AmountOf(tokens, <<p, mint>>)
             IN  /\ Gain(a, mint) = PaidTo(rs, balance, a)
                 /\ Gain(a, mint) >= Payout(balance, LockOf(rs, a))
  <2> DEFINE rs == splitter[p].recipients
             B  == tokens[<<p, mint>>].amount
             P  == PaidTo(rs, B, a)
  <2>2. a \in Address \ {p}
    <3>1. GoodList(rs)
      BY <1>1, DistributeTokenStep
    <3> QED
      BY <3>1, GoodListAddresses
  <2>3. /\ GoodList(rs) /\ B \in Nat /\ AmountOf(tokens, <<p, mint>>) = B
        /\ Gain(a, mint) = P
    BY <1>1, <2>2, CurrentCrankGains
  <2>4. P \in Nat /\ Payout(B, LockOf(rs, a)) <= P
    BY <2>3, FloorWithinPaid
  <2>5. Payout(B, LockOf(rs, a)) \in Nat
    <3>1. rs[FirstSlot(rs, a)] \in Recipient
      BY <2>3, FirstSlotDef, ElementOfSeq DEF GoodList
    <3>2. LockOf(rs, a) \in Nat
      BY <3>1 DEF LockOf, Recipient
    <3> QED
      BY <2>3, <3>2, PayoutRoundsDown
  <2> HIDE DEF P, B, rs
  <2>6. Gain(a, mint) >= Payout(B, LockOf(rs, a))
    BY <2>3, <2>4, <2>5
  <2> QED
    BY <2>3, <2>6 DEF P, rs
<1>2. TokenInv /\ [TokenNext]_tokenVars =>
        [\A p \in PDAs, mint \in Mints :
           LET rs == splitter[p].recipients
               balance == AmountOf(tokens, <<p, mint>>) IN
           Pays(p, mint) /\ process_distribute_token(p, mint, MatchingAccounts(p, mint)) =>
             \A a \in Listed(rs) \ {p} :
               /\ Gain(a, mint) = PaidTo(rs, balance, a)
               /\ Gain(a, mint) >= Payout(balance, LockOf(rs, a))]_tokenVars
  BY <1>1
<1> QED
  BY <1>2, TokenInvariance, PTL DEF TokenSpec, CurrentCrankPays

\* What a step does to a cranker's transaction and to the list.
LEMMA InFlight ==
  ASSUME TokenInv, [TokenNext]_tokenVars, NEW p \in PDAs, NEW mint \in Mints
  PROVE  \/ /\ splitter'[p] = splitter[p]
            /\ \/ prepared'[<<p, mint>>] = << >>
               \/ prepared'[<<p, mint>>] = MatchingAccounts(p, mint)
         \/ prepared'[<<p, mint>>] = prepared[<<p, mint>>]
<1>1. <<p, mint>> \in PDAs \X Mints /\ DOMAIN prepared = PDAs \X Mints
  BY DEF TokenInv, TokenTypeOK
<1>2. ASSUME NEW q \in PDAs, NEW m \in Mints, Prepare(q, m), <<q, m>> = <<p, mint>>
      PROVE  splitter'[p] = splitter[p] /\ prepared'[<<p, mint>>] = MatchingAccounts(p, mint)
  BY <1>1, <1>2 DEF Prepare
<1>3. ASSUME NEW q \in PDAs, NEW m \in Mints, CrankToken(q, m), <<q, m>> = <<p, mint>>
      PROVE  splitter'[p] = splitter[p] /\ prepared'[<<p, mint>>] = << >>
  BY <1>1, <1>3 DEF CrankToken, process_distribute_token
<1>4. ASSUME NEW q \in PDAs, NEW m \in Mints, Prepare(q, m) \/ CrankToken(q, m),
             <<q, m>> # <<p, mint>>
      PROVE  prepared'[<<p, mint>>] = prepared[<<p, mint>>]
  BY <1>1, <1>4 DEF Prepare, CrankToken
<1>5. ASSUME \/ UNCHANGED <<tokens, prepared>>
             \/ \E q \in PDAs, m \in Mints : DistributeToken(q, m)
             \/ \E from \in Wallets, q \in PDAs, m \in Mints : Deposit(from, q, m)
             \/ \E a \in Wallets, m \in Mints :
                  OpenAccount(<<a, m>>) \/ CloseAccount(<<a, m>>) \/ Freeze(<<a, m>>)
      PROVE  prepared'[<<p, mint>>] = prepared[<<p, mint>>]
  BY <1>5 DEF DistributeToken, Deposit, OpenAccount, CloseAccount, Freeze
<1> QED
  BY <1>2, <1>3, <1>4, <1>5 DEF TokenNext, tokenVars

\* A revoked splitter keeps its list, and a cranker's transaction that is for
\* that list stays so.
LEMMA RevokedInFlight ==
  ASSUME TokenInv, [TokenNext]_tokenVars, NEW p \in PDAs, NEW mint \in Mints,
         Initialized(p), is_admin_revoked(splitter[p]), Current(p, mint)
  PROVE  Current(p, mint)'
<1>1. [Next]_vars
  BY TokenStepIsStep
<1>2. Frozen(splitter[p], splitter'[p])
  BY <1>1, NextIsInstruction, RevokedStep DEF TokenInv
<1>3. [i \in 1..Len(splitter'[p].recipients) |->
         <<splitter'[p].recipients[i].address, mint>>] = MatchingAccounts(p, mint)
  BY <1>2 DEF Frozen, MatchingAccounts
<1>4. prepared'[<<p, mint>>] \in {<< >>, MatchingAccounts(p, mint)}
  BY InFlight DEF Current
<1> QED
  BY <1>3, <1>4 DEF Current, MatchingAccounts

\* A cranker's transaction that is for the list pays the recipients listed: an
\* empty transaction is refused.
LEMMA CurrentPaysTheListed ==
  ASSUME TokenInv, NEW p \in PDAs, NEW mint \in Mints,
         Current(p, mint), CrankToken(p, mint)
  PROVE  PaysTheListed(p, mint)
<1>1. process_distribute_token(p, mint, prepared[<<p, mint>>])
  BY DEF CrankToken
<1>2. /\ Len(prepared[<<p, mint>>]) >= Len(splitter[p].recipients)
      /\ GoodList(splitter[p].recipients)
  BY <1>1, DistributeTokenStep
<1>3. prepared[<<p, mint>>] # << >>
  BY <1>2, StoredListTypes
<1>4. process_distribute_token(p, mint, MatchingAccounts(p, mint))
  BY <1>1, <1>3 DEF Current
<1>5. ASSUME NEW a \in Address \ {p}
      PROVE  Gain(a, mint) =
               Reported(splitter[p].recipients, AmountOf(tokens, <<p, mint>>), a)
  BY <1>4, CurrentCrankGains, ReportedIsDue
<1> QED
  BY <1>5 DEF PaysTheListed

\* Once the admin is revoked and a cranker's transaction is for the list of the
\* splitter, it stays so, and when it runs it pays the recipients listed,
\* whatever others have distributed in between.
THEOREM RevokedAlwaysStaysCurrent == TokenSpec => RevokedStaysCurrent
<1>1. TokenInv /\ [TokenNext]_tokenVars =>
        [\A p \in PDAs, mint \in Mints :
           Initialized(p) /\ is_admin_revoked(splitter[p]) /\ Current(p, mint) =>
             /\ Current(p, mint)'
             /\ CrankToken(p, mint) => PaysTheListed(p, mint)]_tokenVars
  BY RevokedInFlight, CurrentPaysTheListed
<1> QED
  BY <1>1, TokenInvariance, PTL DEF TokenSpec, RevokedStaysCurrent

\* Tokens of a mint with extensions stay: the handler cannot read the mint.
THEOREM ExtendedMintsAlwaysStay ==
  TokenSpec => [][\A p \in PDAs, mint \in ExtendedMints : ~Pays(p, mint)]_tokenVars
<1>1. ASSUME TokenInv, [TokenNext]_tokenVars, NEW p \in PDAs, NEW mint \in ExtendedMints
      PROVE  ~Pays(p, mint)
  <2>1. mint \in Mints
    BY MintTypes
  <2>2. \A to : ~process_distribute_token(p, mint, to)
    BY DEF process_distribute_token
  <2> QED
    BY <1>1, <2>1, <2>2, OnlyCrankPays
<1>2. TokenInv /\ [TokenNext]_tokenVars =>
        [\A p \in PDAs, mint \in ExtendedMints : ~Pays(p, mint)]_tokenVars
  BY <1>1
<1> QED
  BY <1>2, TokenInvariance, PTL DEF TokenSpec

(***************************************************************************)
(* The supply.                                                             *)
(***************************************************************************)

\* What the addresses hold of a mint.
Balances(t, m) == [a \in Address |-> AmountOf(t, <<a, m>>)]

LEMMA BalancesType ==
  ASSUME NEW t \in [Account -> TokenData \cup {NoData}], NEW m \in Mints
  PROVE  Balances(t, m) \in [Address -> Nat]
<1>1. ASSUME NEW a \in Address PROVE AmountOf(t, <<a, m>>) \in Nat
  <2>1. t[<<a, m>>] \in TokenData \cup {NoData}
    BY DEF Account
  <2> QED
    BY <2>1 DEF AmountOf, TokenData
<1> QED
  BY <1>1 DEF Balances

\* The same balances sum to the same supply.
LEMMA SameSupply ==
  ASSUME NEW t, NEW u, NEW m,
         \A a \in Address : AmountOf(u, <<a, m>>) = AmountOf(t, <<a, m>>)
  PROVE  TokenSupply(u, m) = TokenSupply(t, m)
<1>1. Balances(u, m) = Balances(t, m)
  BY DEF Balances
<1> QED
  BY <1>1 DEF TokenSupply, Balances

\* What arrives in the accounts of a mint is what a distribution sends, and
\* nothing arrives in those of another mint.
LEMMA ArrivesAddsUp ==
  ASSUME NEW due \in Seq(Nat), NEW to \in Seq(Account), Len(due) <= Len(to), NEW mint,
         \A i \in 1..Len(due) : due[i] > 0 => to[i][2] = mint
  PROVE  /\ \A f : (\A a \in Address : f[a] = Arrives(to, due, <<a, mint>>)) =>
                    SumFunctionOnSet(f, Address) = Total(due)
         /\ \A a, m : m # mint => Arrives(to, due, <<a, m>>) = 0
<1> DEFINE owner == [i \in 1..Len(due) |-> to[i][1]]
           sent(x) == [i \in 1..Len(due) |-> IF to[i] = x THEN due[i] ELSE 0]
<1>1. /\ Len(due) \in Nat /\ Len(to) \in Nat
      /\ \A i \in 1..Len(due) : due[i] \in Nat /\ to[i] \in Account
  OBVIOUS
<1>2. \A i \in 1..Len(due) :
        /\ to[i] = <<to[i][1], to[i][2]>> /\ to[i][1] \in Address
        /\ due[i] = 0 \/ to[i][2] = mint
  BY <1>1 DEF Account
<1>3. ASSUME NEW f, \A a \in Address : f[a] = Arrives(to, due, <<a, mint>>)
      PROVE  SumFunctionOnSet(f, Address) = Total(due)
  <2>1. ASSUME NEW a \in Address PROVE f[a] = Total(PartOf(owner, due, a))
    <3>1. sent(<<a, mint>>) = PartOf(owner, due, a)
      BY <1>2 DEF PartOf
    <3> QED
      BY <1>3, <3>1 DEF Arrives
  <2>2. \A i \in 1..Len(due) : owner[i] \in Address
    BY <1>2
  <2>3. IsFiniteSet(Address)
    BY AddressesFinite
  <2> HIDE DEF owner, sent
  <2> QED
    BY ONLY <2>1, <2>2, <2>3, due \in Seq(Nat), SumOfParts
<1>4. ASSUME NEW a, NEW m, m # mint PROVE Arrives(to, due, <<a, m>>) = 0
  <2> DEFINE h == sent(<<a, m>>)
  <2>1. h \in [1..Len(due) -> Nat] /\ \A i \in 1..Len(due) : h[i] = 0
    BY <1>1, <1>2, <1>4
  <2>2. h \in Seq(Nat) /\ Len(h) = Len(due)
    BY <1>1, <2>1
  <2>3. Arrives(to, due, <<a, m>>) = Total(h)
    BY DEF Arrives
  <2> HIDE DEF h
  <2> QED
    BY <2>1, <2>2, <2>3, TotalOfZeros
<1> QED
  BY <1>3, <1>4

\* A distribution conserves every mint, whatever accounts it is given.
LEMMA DistributionConserves ==
  ASSUME TokenInv, NEW p \in PDAs, NEW mint \in Mints, NEW to \in Seq(Account),
         process_distribute_token(p, mint, to), TokenTypeOK', NEW m \in Mints
  PROVE  TokenSupply(tokens', m) = TokenSupply(tokens, m)
<1> DEFINE rs   == splitter[p].recipients
           from == <<p, mint>>
           B    == tokens[from].amount
           due  == Payouts(rs, B)
           d    == [a \in Address |-> Arrives(to, due, <<a, m>>)]
           f    == Balances(tokens, m)
           g    == Balances(tokens', m)
           P    == IF m = mint THEN Total(due) ELSE 0
<1>1. /\ GoodList(rs) /\ Open(from)
      /\ due \in Seq(Nat) /\ Len(due) = Len(rs) /\ Len(to) >= Len(rs) /\ Total(due) \in Nat
      /\ \A x \in Account :
           /\ Arrives(to, due, x) \in Nat
           /\ ~Open(x) => tokens'[x] = NoData
           /\ Open(x) =>
                /\ tokens'[x] \in TokenData
                /\ tokens'[x].amount = tokens[x].amount + Arrives(to, due, x)
                                         - (IF x = from THEN Total(due) ELSE 0)
  BY DistributeTokenStep
<1>2. \A i \in 1..Len(rs) : due[i] > 0 => to[i][2] = mint /\ Open(to[i])
  BY DEF process_distribute_token, TransferAccepted
<1>3. p \in Address /\ tokens \in [Account -> TokenData \cup {NoData}]
  BY DEF TokenInv, TokenTypeOK, Address
<1>4. f \in [Address -> Nat] /\ g \in [Address -> Nat]
  BY <1>3, BalancesType DEF TokenTypeOK
<1> HIDE DEF rs, B, due
<1>5. /\ \A h : (\A a \in Address : h[a] = Arrives(to, due, <<a, mint>>)) =>
                  SumFunctionOnSet(h, Address) = Total(due)
      /\ \A a, n : n # mint => Arrives(to, due, <<a, n>>) = 0
  <2>1. Len(due) <= Len(to) /\ \A i \in 1..Len(due) : due[i] > 0 => to[i][2] = mint
    BY <1>1, <1>2
  <2> HIDE DEF Arrives
  <2> QED
    BY <1>1, <2>1, ArrivesAddsUp
<1>6. ASSUME NEW a \in Address
      PROVE  /\ d[a] \in Nat
             /\ g[a] = f[a] + d[a] - (IF a = p THEN P ELSE 0)
  <2> DEFINE x == <<a, m>>
  <2>1. x \in Account /\ (x = from <=> a = p /\ m = mint)
    BY DEF Account
  <2>2. d[a] = Arrives(to, due, x) /\ d[a] \in Nat
    BY <1>1, <2>1
  <2>3. CASE Open(x)
    <3>1. f[a] = tokens[x].amount /\ g[a] = tokens'[x].amount
      BY <1>1, <2>1, <2>3, InitialTokenTypes DEF Balances, AmountOf, Open
    <3>2. tokens'[x].amount = tokens[x].amount + d[a] - (IF x = from THEN Total(due) ELSE 0)
      BY <1>1, <2>1, <2>2, <2>3
    <3> QED
      BY <2>1, <2>2, <3>1, <3>2
  <2>4. CASE ~Open(x)
    <3>1. f[a] = 0 /\ g[a] = 0 /\ x # from
      BY <1>1, <2>1, <2>4 DEF Balances, AmountOf, Open
    <3>2. d[a] = 0
      <4> DEFINE h == [i \in 1..Len(due) |-> IF to[i] = x THEN due[i] ELSE 0]
      <4> HIDE DEF x, d, f, g, P
      <4>1. Len(due) \in Nat /\ \A i \in 1..Len(due) : due[i] \in Nat
        BY <1>1
      <4>2. ASSUME NEW i \in 1..Len(due) PROVE h[i] = 0
        <5>1. to[i] = x => ~(due[i] > 0)
          BY <1>1, <1>2, <2>4
        <5> QED
          BY <4>1, <5>1
      <4>5. h \in [1..Len(due) -> Nat]
        BY <4>1
      <4>3. h \in Seq(Nat) /\ Len(h) = Len(due)
        BY <4>1, <4>5
      <4>4. d[a] = Total(h)
        BY <2>2 DEF Arrives
      <4> HIDE DEF h
      <4> QED
        BY <4>2, <4>3, <4>4, TotalOfZeros
    <3>3. ~(a = p /\ m = mint)
      BY <2>1, <3>1
    <3> QED
      BY <3>1, <3>2, <3>3
  <2> QED
    BY <2>2, <2>3, <2>4
<1>7. SumFunctionOnSet(d, Address) = P
  <2>1. CASE m = mint
    BY <1>5, <2>1
  <2>2. CASE m # mint
    <3>1. \A a \in Address : d[a] = 0
      BY <1>5, <2>2
    <3> HIDE DEF d
    <3> QED
      BY <2>2, <3>1, AddressesFinite, SumOfZeros
  <2> QED
    BY <2>1, <2>2
<1>8. P \in Nat /\ d \in [Address -> Nat]
  BY <1>1, <1>6
<1> HIDE DEF d, f, g, P
<1> DEFINE k == [a \in Address |-> f[a] + d[a]]
<1>9. SumFunctionOnSet(g, Address) = SumFunctionOnSet(f, Address)
  <2>1. /\ \A a \in Address : f[a] \in Int /\ d[a] \in Int /\ k[a] = f[a] + d[a]
        /\ k \in [Address -> Int] /\ g \in [Address -> Int]
    BY <1>4, <1>8
  <2>2. /\ \A a \in Address : a # p => g[a] = k[a]
        /\ g[p] = k[p] - P /\ k[p] \in Int
    <3>1. ASSUME NEW a \in Address, a # p PROVE g[a] = k[a]
      <4>1. g[a] = f[a] + d[a] - 0
        BY <1>6, <3>1
      <4> QED
        BY <2>1, <4>1
    <3>2. g[p] = f[p] + d[p] - P
      BY <1>3, <1>6
    <3>3. k[p] = f[p] + d[p] /\ f[p] \in Int /\ d[p] \in Int /\ P \in Int
      BY <1>3, <1>8, <2>1
    <3> HIDE DEF k
    <3> QED
      BY <3>1, <3>2, <3>3
  <2> HIDE DEF k
  <2>3. IsFiniteSet(Address)
    BY AddressesFinite
  <2>4. SumFunctionOnSet(k, Address) =
          SumFunctionOnSet(f, Address) + SumFunctionOnSet(d, Address)
    BY <2>1, <2>3, SumOfSums
  <2>5. SumFunctionOnSet(g, Address) = SumFunctionOnSet(k, Address) + g[p] - k[p]
    <3>1. p \in Address /\ \A x \in Address : x # p => g[x] = k[x]
      BY <1>3, <2>2
    <3>2. k \in [Address -> Int] /\ g \in [Address -> Int]
      BY <2>1
    <3> QED
      BY <2>3, <3>1, <3>2, SumChangedAt
  <2>6. SumFunctionOnSet(f, Address) \in Int
    BY <2>1, <2>3, SumOfChosen
  <2> DEFINE F == SumFunctionOnSet(f, Address)  G == SumFunctionOnSet(g, Address)
             K == SumFunctionOnSet(k, Address)
  <2>7. K = F + P /\ G = K + g[p] - k[p] /\ F \in Int /\ P \in Nat
    BY <1>7, <1>8, <2>4, <2>5, <2>6
  <2> HIDE DEF F, G, K
  <2>8. G = F
    BY <2>2, <2>7
  <2> QED
    BY <2>8 DEF F, G
<1>10. SumFunction(g) = SumFunction(f)
  BY <1>4, <1>9 DEF SumFunction
<1> QED
  BY <1>10 DEF TokenSupply, Balances, f, g

\* A deposit conserves every mint.
LEMMA DepositConserves ==
  ASSUME TokenInv, NEW a \in Wallets, NEW p \in PDAs, NEW mint \in Mints,
         Deposit(a, p, mint), NEW m \in Mints
  PROVE  TokenSupply(tokens', m) = TokenSupply(tokens, m)
<1> DEFINE x == <<a, mint>>
           y == <<p, mint>>
           f == Balances(tokens, m)
           g == Balances(tokens', m)
<1>1. PICK n \in TokenAmounts :
        /\ Open(x) /\ Open(y) /\ n <= tokens[x].amount
        /\ tokens' = [tokens EXCEPT ![x].amount = @ - n, ![y].amount = @ + n]
  BY DEF Deposit, TransferAccepted
<1>2. /\ tokens \in [Account -> TokenData \cup {NoData}]
      /\ tokens' \in [Account -> TokenData \cup {NoData}]
      /\ x \in Account /\ y \in Account /\ x # y /\ n \in Nat
      /\ a \in Address /\ p \in Address /\ a # p
  BY DepositStep, AddressesDiffer, MintTypes DEF TokenInv, TokenTypeOK, Account, Address
<1>3. /\ tokens[x] \in TokenData /\ tokens[x].amount \in Nat
      /\ tokens[y] \in TokenData /\ tokens[y].amount \in Nat
  BY <1>1, <1>2 DEF Open, TokenData
<1>4. /\ tokens'[x] = [tokens[x] EXCEPT !.amount = @ - n]
      /\ tokens'[y] = [tokens[y] EXCEPT !.amount = @ + n]
      /\ \A z \in Account : z # x /\ z # y => tokens'[z] = tokens[z]
  <2> HIDE DEF x, y
  <2> QED
    BY <1>1, <1>2
<1>5. /\ tokens'[x] \in TokenData /\ tokens'[x].amount = tokens[x].amount - n
      /\ tokens'[y] \in TokenData /\ tokens'[y].amount = tokens[y].amount + n
  <2> HIDE DEF x, y
  <2> QED
    BY <1>1, <1>2, <1>3, <1>4 DEF TokenData
<1>6. /\ AmountOf(tokens', x) = AmountOf(tokens, x) - n
      /\ AmountOf(tokens', y) = AmountOf(tokens, y) + n
  BY <1>1, <1>5, InitialTokenTypes DEF AmountOf, Open
<1>7. CASE m = mint
  <2>1. f \in [Address -> Nat] /\ g \in [Address -> Nat]
    BY <1>2, BalancesType
  <2>2. /\ g[a] = f[a] - n /\ g[p] = f[p] + n
        /\ \A b \in Address : b # a /\ b # p => g[b] = f[b]
    <3>1. \A b \in Address : <<b, m>> \in Account
      BY DEF Account
    <3>2. \A b \in Address : b # a /\ b # p =>
            AmountOf(tokens', <<b, m>>) = AmountOf(tokens, <<b, m>>)
      BY <1>4, <3>1 DEF AmountOf
    <3> QED
      BY <1>2, <1>6, <1>7, <3>2 DEF Balances
  <2>3. f \in [Address -> Int] /\ g \in [Address -> Int] /\ n \in Int
    BY <1>2, <2>1
  <2> HIDE DEF f, g
  <2>4. SumFunctionOnSet(g, Address) = SumFunctionOnSet(f, Address)
    BY <1>2, <2>2, <2>3, AddressesFinite, SumOfMoved
  <2>5. SumFunction(g) = SumFunction(f)
    BY <2>1, <2>4 DEF SumFunction
  <2> QED
    BY <2>5 DEF TokenSupply, Balances, f, g
<1>8. CASE m # mint
  <2>1. \A b \in Address : <<b, m>> \in Account /\ <<b, m>> # x /\ <<b, m>> # y
    BY <1>8 DEF Account
  <2>2. \A b \in Address : AmountOf(tokens', <<b, m>>) = AmountOf(tokens, <<b, m>>)
    BY <1>4, <2>1 DEF AmountOf
  <2> QED
    BY <2>2, SameSupply
<1> QED
  BY <1>7, <1>8

\* Opening, closing and freezing an account leaves every balance as it is.
LEMMA HolderConserves ==
  ASSUME TokenInv, NEW x \in Account,
         OpenAccount(x) \/ CloseAccount(x) \/ Freeze(x), NEW m \in Mints
  PROVE  TokenSupply(tokens', m) = TokenSupply(tokens, m)
<1>1. tokens \in [Account -> TokenData \cup {NoData}]
  BY DEF TokenInv, TokenTypeOK
<1>2. ASSUME NEW z \in Account PROVE AmountOf(tokens', z) = AmountOf(tokens, z)
  <2>1. CASE OpenAccount(x)
    <3>1. /\ tokens' = [tokens EXCEPT ![x] = [amount |-> 0, frozen |-> FALSE]]
          /\ tokens[x] = NoData
      BY <2>1 DEF OpenAccount, Open
    <3>2. [amount |-> 0, frozen |-> FALSE].amount = 0
      OBVIOUS
    <3> QED
      BY <1>1, <3>1, <3>2 DEF AmountOf
  <2>2. CASE CloseAccount(x)
    BY <1>1, <2>2 DEF CloseAccount, Open, AmountOf
  <2>3. CASE Freeze(x)
    <3>1. tokens[x] \in TokenData /\ tokens[x] # NoData
      BY <1>1, <2>3 DEF Freeze, Open
    <3> DEFINE v == [tokens[x] EXCEPT !.frozen = ~@]
    <3>2. tokens' = [tokens EXCEPT ![x] = v]
      BY <2>3 DEF Freeze
    <3>3. v \in TokenData /\ v.amount = tokens[x].amount
      BY <3>1 DEF TokenData
    <3> HIDE DEF v
    <3> QED
      BY <1>1, <3>1, <3>2, <3>3, InitialTokenTypes DEF AmountOf
  <2> QED
    BY <2>1, <2>2, <2>3
<1>3. \A a \in Address : <<a, m>> \in Account
  BY DEF Account
<1> QED
  BY <1>2, <1>3, SameSupply

\* No step makes or loses tokens: those of every mint stay as many as they were
\* in the beginning, whatever accounts the distributions were given.
THEOREM TokenSupplyAlwaysConserved == TokenSpec => []TokenSupplyConserved
<1>1. TokenInit => TokenSupplyConserved
  BY DEF TokenInit, TokenSupplyConserved
<1>2. TokenInv /\ TokenInv' /\ [TokenNext]_tokenVars /\ TokenSupplyConserved =>
        TokenSupplyConserved'
  <2> SUFFICES ASSUME TokenInv, TokenInv', [TokenNext]_tokenVars, NEW m \in Mints
               PROVE  TokenSupply(tokens', m) = TokenSupply(tokens, m)
    BY DEF TokenSupplyConserved
  <2>1. ASSUME NEW p \in PDAs, NEW mint \in Mints,
               CrankToken(p, mint) \/ DistributeToken(p, mint)
        PROVE  TokenSupply(tokens', m) = TokenSupply(tokens, m)
    <3>1. PICK to \in Seq(Account) : process_distribute_token(p, mint, to)
      BY <2>1, DistributionRan
    <3>2. TokenTypeOK'
      BY DEF TokenInv
    <3> QED
      BY <3>1, <3>2, DistributionConserves
  <2>2. ASSUME NEW a \in Wallets, NEW p \in PDAs, NEW mint \in Mints, Deposit(a, p, mint)
        PROVE  TokenSupply(tokens', m) = TokenSupply(tokens, m)
    BY <2>2, DepositConserves
  <2>3. ASSUME NEW a \in Wallets, NEW mint \in Mints,
               OpenAccount(<<a, mint>>) \/ CloseAccount(<<a, mint>>) \/ Freeze(<<a, mint>>)
        PROVE  TokenSupply(tokens', m) = TokenSupply(tokens, m)
    <3>1. <<a, mint>> \in Account
      BY DEF Account, Address
    <3> QED
      BY <2>3, <3>1, HolderConserves
  <2>4. CASE UNCHANGED tokens
    BY <2>4
  <2> QED
    BY <2>1, <2>2, <2>3, <2>4 DEF TokenNext, tokenVars, Prepare
<1> QED
  BY <1>1, <1>2, TokenInvariance, PTL DEF TokenSpec

(***************************************************************************)
(* The crank.                                                              *)
(***************************************************************************)

\* What TokenCrankAvailable says without ENABLED: in every state of the
\* invariant in which a splitter holds tokens of a mint the handler can decode,
\* a cranker's transaction is built for its list and every recipient's account can take
\* what it is due, the transfers of the handler pass its checks and those of
\* the token program, one after the other.
THEOREM TokenCrankCanRun ==
  ASSUME TokenInv, NEW p \in PDAs, NEW mint \in Mints \ ExtendedMints,
         Initialized(p), AmountOf(tokens, <<p, mint>>) > 0,
         prepared[<<p, mint>>] = MatchingAccounts(p, mint),
         \A a \in Address : ~Blocked(p, mint, a),
         UNCHANGED <<splitter, lamports>>,
         tokens' = AfterTransfers(<<p, mint>>, MatchingAccounts(p, mint),
                     Payouts(splitter[p].recipients, tokens[<<p, mint>>].amount)),
         prepared' = [prepared EXCEPT ![<<p, mint>>] = << >>]
  PROVE  CrankToken(p, mint)
<1> DEFINE rs   == splitter[p].recipients
           from == <<p, mint>>
           B    == tokens[from].amount
           due  == Payouts(rs, B)
           to   == MatchingAccounts(p, mint)
           left == [i \in 1..Len(due) |-> IF to[i] = from THEN 0 ELSE due[i]]
<1>1. /\ GoodList(rs) /\ rs \in Seq(Recipient) /\ rs # << >> /\ Len(rs) \in Nat \ {0}
      /\ \A i \in 1..Len(rs) : rs[i].share \in Nat /\ rs[i].address \in Address
  <2>1. GoodList(rs)
    BY DEF TokenInv, Inv, GoodAccount
  <2>2. rs \in Seq(Recipient) /\ \A i \in 1..Len(rs) : rs[i] \in Recipient
    BY <2>1, ElementOfSeq DEF GoodList
  <2> QED
    BY <2>1, <2>2, StoredListTypes DEF Recipient
<1>2. Open(from) /\ B \in Nat /\ B > 0 /\ AmountOf(tokens, from) = B
  <2>1. from \in Account /\ tokens \in [Account -> TokenData \cup {NoData}]
    BY DEF TokenInv, TokenTypeOK, Account, Address
  <2>2. Open(from) /\ AmountOf(tokens, from) = B
    BY DEF AmountOf, Open
  <2>3. tokens[from] \in TokenData
    BY <2>1, <2>2 DEF Open
  <2> QED
    BY <2>2, <2>3 DEF TokenData
<1>3. Len(to) = Len(rs) /\ \A i \in 1..Len(rs) : to[i] = <<rs[i].address, mint>>
  <2>1. to = [i \in 1..Len(rs) |-> <<rs[i].address, mint>>]
    BY DEF MatchingAccounts
  <2> HIDE DEF to, rs
  <2> QED
    BY <1>1, <2>1
<1> HIDE DEF rs, B, to
<1>4. \A i \in 1..Len(rs) : Payout(B, rs[i].share) \in Nat
  BY <1>1, <1>2, PayoutRoundsDown
<1>5. /\ due \in Seq(Nat) /\ Len(due) = Len(rs)
      /\ \A i \in 1..Len(rs) : due[i] = Payout(B, rs[i].share)
  <2>1. due = [i \in 1..Len(rs) |-> Payout(B, rs[i].share)]
    BY DEF Payouts
  <2> HIDE DEF due
  <2>2. due \in [1..Len(rs) -> Nat]
    BY <1>4, <2>1
  <2> QED
    BY <1>1, <2>1, <2>2
<1>6. Total(due) \in Nat /\ Total(due) <= B
  BY <1>1, <1>2, PayoutsBounded DEF GoodList
<1>7. ASSUME NEW i \in 1..Len(rs), due[i] > 0 PROVE TransferAccepted(from, to[i])
  <2> DEFINE a == rs[i].address
  <2>1. a \in Address /\ to[i] = <<a, mint>>
    BY <1>1, <1>3
  <2>2. /\ PaidTo(rs, B, a) \in Nat
        /\ Payout(B, rs[i].share) <= PaidTo(rs, B, a)
    BY <1>1, <1>2, PaidToAtLeast
  <2>3. PaidTo(rs, B, a) > 0
    <3> DEFINE y == PaidTo(rs, B, a)  z == Payout(B, rs[i].share)
    <3>1. y \in Nat /\ z \in Nat /\ z <= y /\ z > 0
      BY <1>4, <1>5, <1>7, <2>2
    <3> HIDE DEF y, z
    <3>2. y > 0
      BY <3>1
    <3> QED
      BY <3>2 DEF y
  <2>4. ~Blocked(p, mint, a)
    BY <2>1
  <2> QED
    BY <1>2, <2>1, <2>3, <2>4 DEF Blocked, rs, from
<1> HIDE DEF due
<1>8. Covered(from, to, due)
  <2>1. left \in Seq(Nat) /\ Len(left) = Len(due) /\ \A i \in 1..Len(due) : left[i] <= due[i]
    <3>1. Len(due) \in Nat /\ \A i \in 1..Len(due) : due[i] \in Nat
      BY <1>5
    <3>2. left \in [1..Len(due) -> Nat]
      BY <3>1
    <3>3. left \in Seq(Nat) /\ Len(left) = Len(due)
      BY <3>1, <3>2
    <3> QED
      BY <3>1, <3>3
  <2> HIDE DEF left
  <2>2. ASSUME NEW i \in 1..Len(due) PROVE due[i] <= B - RunningTotals(left)[i-1]
    <3>1. RunningTotals(left)[i-1] \in Nat /\ RunningTotals(left)[i-1] + due[i] <= Total(due)
      BY <1>5, <2>1, SpentWithinTotal
    <3>2. due[i] \in Nat
      BY <1>5
    <3> QED
      BY <1>2, <1>6, <3>1, <3>2
  <2> QED
    BY <2>2 DEF Covered, left, B
<1>9. process_distribute_token(p, mint, to)
  <2>1. tokens' = AfterTransfers(from, to, due)
    BY DEF to, due, rs, B
  <2>2. Len(to) >= Len(rs)
    BY <1>1, <1>3
  <2>3. \A i \in 1..Len(rs) : due[i] > 0 => TransferAccepted(from, to[i])
    BY <1>7
  <2>4. rs # << >> /\ tokens[from].amount > 0
    BY <1>1, <1>2 DEF B
  <2> QED
    BY <1>2, <1>8, <2>1, <2>2, <2>3, <2>4
       DEF process_distribute_token, rs, B, due
<1> QED
  BY <1>9 DEF CrankToken, to

\* A distribution to the recipients listed that owes something to another
\* address than the splitter's own takes tokens from the splitter: what is
\* left is a smaller natural, the argument for QuietTokensDrain.
THEOREM TokenCrankPaysOut ==
  ASSUME TokenInv, NEW p \in PDAs, NEW mint \in Mints,
         process_distribute_token(p, mint, MatchingAccounts(p, mint)), TokensOwed(p, mint)
  PROVE  Pays(p, mint) /\ AmountOf(tokens', <<p, mint>>) \in Nat
<1> DEFINE rs   == splitter[p].recipients
           from == <<p, mint>>
           B    == tokens[from].amount
           due  == Payouts(rs, B)
           to   == MatchingAccounts(p, mint)
           P    == Total(due)
<1>1. /\ GoodList(rs) /\ Open(from) /\ B \in Nat /\ Len(due) = Len(rs) /\ P \in Nat /\ P <= B
      /\ from \in Account
      /\ tokens'[from] \in TokenData
      /\ tokens'[from].amount = B + Arrives(to, due, from) - P
  <2>1. from \in Account
    BY DEF Account, Address
  <2> QED
    BY <2>1, DistributeTokenStep
<1>2. /\ AmountOf(tokens, from) = B
      /\ AmountOf(tokens', from) = tokens'[from].amount
  BY <1>1, InitialTokenTypes DEF AmountOf, Open
<1>3. PICK a \in Address \ {p} : PaidTo(rs, B, a) > 0
  BY <1>2 DEF TokensOwed
<1>4. Arrives(to, due, from) = PaidTo(rs, B, p)
  <2>1. Len(Payouts(splitter[p].recipients, B)) = Len(splitter[p].recipients)
    BY <1>1
  <2> QED
    BY <2>1, CurrentCrankSends
<1>5. /\ PaidTo(rs, B, a) \in Nat /\ PaidTo(rs, B, p) \in Nat
      /\ PaidTo(rs, B, a) + PaidTo(rs, B, p) <= P
  BY <1>1, PaidToTwo
<1> DEFINE x == PaidTo(rs, B, p)  y == PaidTo(rs, B, a)
<1>6. x \in Nat /\ y \in Nat /\ y > 0 /\ y + x <= P /\ AmountOf(tokens', from) = B + x - P
  BY <1>1, <1>2, <1>3, <1>4, <1>5
<1> HIDE DEF x, y, B, P
<1>7. AmountOf(tokens', from) < B /\ AmountOf(tokens', from) \in Nat
  BY <1>1, <1>6
<1> QED
  BY <1>2, <1>7 DEF Pays

\* In every reachable state: a cranker's current transaction that owes somebody
\* something leaves fewer tokens, a natural number of them, and nothing but
\* distributions ever does, so between deposits only so many can be owed.
THEOREM TokenCranksAlwaysDrain ==
  TokenSpec =>
    [][\A p \in PDAs, mint \in Mints :
         /\ /\ CrankToken(p, mint)
            /\ prepared[<<p, mint>>] = MatchingAccounts(p, mint)
            /\ TokensOwed(p, mint)
            => Pays(p, mint) /\ AmountOf(tokens', <<p, mint>>) \in Nat
         /\ Pays(p, mint) => CrankToken(p, mint) \/ DistributeToken(p, mint)]_tokenVars
<1>1. TokenInv /\ [TokenNext]_tokenVars =>
        [\A p \in PDAs, mint \in Mints :
           /\ /\ CrankToken(p, mint)
              /\ prepared[<<p, mint>>] = MatchingAccounts(p, mint)
              /\ TokensOwed(p, mint)
              => Pays(p, mint) /\ AmountOf(tokens', <<p, mint>>) \in Nat
           /\ Pays(p, mint) => CrankToken(p, mint) \/ DistributeToken(p, mint)]_tokenVars
  <2>1. \A p \in PDAs, mint \in Mints :
          CrankToken(p, mint) /\ prepared[<<p, mint>>] = MatchingAccounts(p, mint) =>
            process_distribute_token(p, mint, MatchingAccounts(p, mint))
    BY DEF CrankToken
  <2> QED
    BY <2>1, TokenCrankPaysOut, OnlyCrankPays
<1> QED
  BY <1>1, TokenInvariance, PTL DEF TokenSpec

(***************************************************************************)
(* The transfers of a distribution, which AfterTransfers and Covered sum   *)
(* up.                                                                     *)
(***************************************************************************)

\* One round: nothing, or one transfer between two accounts that may be the same.
Send(f, from, to, amount) ==
  IF amount = 0 THEN f
  ELSE [[f EXCEPT ![from].amount = @ - amount] EXCEPT ![to].amount = @ + amount]

\* What is sent to account x, round by round.
SentTo(to, due, x) == [i \in 1..Len(due) |-> IF to[i] = x THEN due[i] ELSE 0]

\* The token accounts after the first i rounds.
AfterRounds(from, to, due, i) ==
  [x \in Account |->
     IF ~Open(x) THEN NoData
     ELSE [tokens[x] EXCEPT !.amount =
             @ + RunningTotals(SentTo(to, due, x))[i]
               - (IF x = from THEN RunningTotals(due)[i] ELSE 0)]]

\* The loop of DistributeToken: every transfer starts from the accounts the one
\* before it left, Covered says that each finds its amount in the source, and
\* after the last one the accounts are AfterTransfers, whatever accounts were
\* passed, the source among them.
THEOREM LoopSends ==
  ASSUME TokenInv, NEW from \in Account, Open(from), NEW due \in Seq(Nat), NEW to,
         \A i \in 1..Len(due) : due[i] > 0 => to[i] \in Account /\ Open(to[i])
  PROVE  /\ AfterRounds(from, to, due, 0) = tokens
         /\ \A i \in 1..Len(due) :
              AfterRounds(from, to, due, i) =
                Send(AfterRounds(from, to, due, i - 1), from, to[i], due[i])
         /\ AfterRounds(from, to, due, Len(due)) = AfterTransfers(from, to, due)
         /\ Covered(from, to, due) <=>
              \A i \in 1..Len(due) : due[i] <= AfterRounds(from, to, due, i - 1)[from].amount
<1> DEFINE n    == Len(due)
           D    == RunningTotals(due)
           h(x) == SentTo(to, due, x)
           H(x) == RunningTotals(h(x))
           left == [i \in 1..n |-> IF to[i] = from THEN 0 ELSE due[i]]
           L    == RunningTotals(left)
           b(i) == AfterRounds(from, to, due, i)
<1>1. n \in Nat /\ \A i \in 1..n : due[i] \in Nat
  OBVIOUS
<1>2. /\ tokens \in [Account -> TokenData \cup {NoData}]
      /\ \A x \in Account : Open(x) => tokens[x] \in TokenData /\ tokens[x].amount \in Nat
  BY DEF TokenInv, TokenTypeOK, Open, TokenData
<1>3. \A s \in [1..n -> Nat] : s \in Seq(Nat) /\ Len(s) = n
  BY <1>1
<1>4. ASSUME NEW x
      PROVE  /\ h(x) \in [1..n -> Nat]
             /\ \A i \in 1..n : h(x)[i] = IF to[i] = x THEN due[i] ELSE 0
  BY <1>1 DEF SentTo
<1>5. /\ left \in [1..n -> Nat]
      /\ \A i \in 1..n : left[i] = IF to[i] = from THEN 0 ELSE due[i]
  BY <1>1
<1> HIDE DEF n, left
<1>6. D \in [0..n -> Nat] /\ D[0] = 0 /\ \A i \in 1..n : D[i] = D[i-1] + due[i]
  BY RunningTotalsDef DEF n
<1>7. L \in [0..n -> Nat] /\ L[0] = 0 /\ \A i \in 1..n : L[i] = L[i-1] + left[i]
  <2>1. left \in Seq(Nat) /\ Len(left) = n
    BY <1>3, <1>5
  <2> QED
    BY <2>1, RunningTotalsDef
<1>8. ASSUME NEW x
      PROVE  /\ H(x) \in [0..n -> Nat] /\ H(x)[0] = 0
             /\ \A i \in 1..n : H(x)[i] = H(x)[i-1] + h(x)[i]
  <2> DEFINE f == h(x)
  <2>1. f \in Seq(Nat) /\ Len(f) = n
    BY <1>3, <1>4
  <2> HIDE DEF f
  <2>2. /\ RunningTotals(f) \in [0..n -> Nat] /\ RunningTotals(f)[0] = 0
        /\ \A i \in 1..n : RunningTotals(f)[i] = RunningTotals(f)[i-1] + f[i]
    BY <2>1, RunningTotalsDef
  <2> QED
    BY <2>2 DEF f
<1> DEFINE A(x, i) == tokens[x].amount + H(x)[i] - (IF x = from THEN D[i] ELSE 0)
<1>9. \A i : b(i) = [x \in Account |->
        IF ~Open(x) THEN NoData ELSE [tokens[x] EXCEPT !.amount = A(x, i)]]
  BY DEF AfterRounds
<1>10. ASSUME NEW x \in Account, Open(x), NEW i \in 0..n PROVE A(x, i) \in Int
  <2> HIDE DEF H, D, h
  <2>1. tokens[x].amount \in Nat /\ H(x)[i] \in Nat /\ D[i] \in Nat
    BY <1>2, <1>6, <1>8, <1>10
  <2> QED
    BY <2>1
<1> HIDE DEF b, H, h, D, L
<1>11. b(0) = tokens
  <2>1. ASSUME NEW x \in Account, Open(x) PROVE A(x, 0) = tokens[x].amount
    <3>1. tokens[x].amount \in Nat /\ H(x)[0] = 0 /\ D[0] = 0
      BY <1>2, <1>6, <1>8, <2>1
    <3> QED
      BY <3>1
  <2> HIDE DEF A
  <2>2. ASSUME NEW x \in Account PROVE b(0)[x] = tokens[x]
    <3>1. CASE Open(x)
      <4>1. tokens[x] \in TokenData
        BY <1>2, <3>1
      <4>2. b(0)[x] = [tokens[x] EXCEPT !.amount = tokens[x].amount]
        BY <1>9, <2>1, <3>1
      <4> QED
        BY <4>1, <4>2 DEF TokenData
    <3>2. CASE ~Open(x)
      BY <1>9, <3>2 DEF Open
    <3> QED
      BY <3>1, <3>2
  <2>3. b(0) = [x \in Account |-> b(0)[x]]
    BY <1>9
  <2> QED
    BY <1>2, <2>2, <2>3
<1>12. ASSUME NEW i \in 1..n
       PROVE  b(i) = Send(b(i-1), from, to[i], due[i])
  <2> DEFINE c == b(i-1)  e == b(i)  r == to[i]  z == due[i]
  <2>1. i - 1 \in 0..n /\ i \in 0..n /\ z \in Nat
    BY <1>1
  <2>2. ASSUME NEW x \in Account, Open(x)
        PROVE  /\ A(x, i) = A(x, i-1) + (IF r = x THEN z ELSE 0) - (IF x = from THEN z ELSE 0)
               /\ A(x, i-1) \in Int
    <3> DEFINE u == H(x)[i-1]  v == D[i-1]  l == tokens[x].amount
    <3>1. A(x, i-1) = l + u - (IF x = from THEN v ELSE 0)
      OBVIOUS
    <3>2. l \in Nat /\ u \in Nat /\ v \in Nat
      BY <1>2, <1>6, <1>8, <2>1, <2>2
    <3>3. H(x)[i] = u + h(x)[i] /\ D[i] = v + z
      BY <1>6, <1>8
    <3>4. h(x)[i] = IF r = x THEN z ELSE 0
      BY <1>4 DEF h
    <3>5. A(x, i) = l + (u + (IF r = x THEN z ELSE 0)) - (IF x = from THEN v + z ELSE 0)
      BY <3>3, <3>4
    <3>6. z \in Nat
      BY <2>1
    <3> DEFINE q == IF r = x THEN z ELSE 0  o == A(x, i)  j == A(x, i-1)
    <3>7. q \in Nat
      BY <3>6
    <3> HIDE DEF A, u, v, l, q, z, o, j
    <3>8. j = l + u - (IF x = from THEN v ELSE 0)
      BY <3>1 DEF j
    <3>9. o = l + (u + q) - (IF x = from THEN v + z ELSE 0)
      BY <3>5 DEF o, q
    <3>10. o = j + q - (IF x = from THEN z ELSE 0) /\ j \in Int
      BY <3>2, <3>6, <3>7, <3>8, <3>9
    <3> QED
      BY <3>10 DEF o, j, q
  <2>3. /\ c = [x \in Account |->
             IF ~Open(x) THEN NoData ELSE [tokens[x] EXCEPT !.amount = A(x, i-1)]]
        /\ e = [x \in Account |->
             IF ~Open(x) THEN NoData ELSE [tokens[x] EXCEPT !.amount = A(x, i)]]
    BY <1>9
  <2>4. z > 0 => r \in Account /\ Open(r)
    BY DEF n
  <2> HIDE DEF c, e, r, z, A
  <2>5. CASE z = 0
    <3>1. \A x \in Account : Open(x) => A(x, i) = A(x, i-1)
      BY <2>2, <2>5
    <3> QED
      BY <2>3, <2>5, <3>1 DEF Send, c, e, r, z
  <2>6. CASE z # 0
    <3>1. r \in Account /\ Open(r)
      BY <2>1, <2>4, <2>6
    <3> DEFINE g == [c EXCEPT ![from].amount = @ - z]
               k == [g EXCEPT ![r].amount = @ + z]
    <3>2. /\ \A x \in Account : Open(x) => c[x] = [tokens[x] EXCEPT !.amount = A(x, i-1)]
          /\ \A x \in Account : Open(x) => e[x] = [tokens[x] EXCEPT !.amount = A(x, i)]
          /\ \A x \in Account : ~Open(x) => c[x] = NoData /\ e[x] = NoData
          /\ DOMAIN c = Account
      BY <2>3
    <3>3. DOMAIN g = Account
      BY <3>2
    <3>4. /\ k = [x \in Account |-> k[x]]
          /\ \A x \in Account :
               k[x] = IF x = r THEN [g[x] EXCEPT !.amount = @ + z] ELSE g[x]
      <4> HIDE DEF g
      <4> QED
        BY <3>3
    <3>5. ASSUME NEW x \in Account PROVE k[x] = e[x]
      <4>1. CASE ~Open(x)
        <5>1. x # from /\ x # r
          BY <3>1, <4>1
        <5> QED
          BY <3>2, <4>1, <5>1
      <4>2. CASE Open(x)
        <5> DEFINE w == tokens[x]  m == A(x, i-1)
        <5>1. /\ w \in TokenData /\ m \in Int /\ z \in Nat
              /\ c[x] = [w EXCEPT !.amount = m]
              /\ e[x] = [w EXCEPT !.amount =
                           m + (IF r = x THEN z ELSE 0) - (IF x = from THEN z ELSE 0)]
          BY <1>2, <2>1, <2>2, <3>2, <4>2
        <5>2. g[x] = IF x = from THEN [c[x] EXCEPT !.amount = @ - z] ELSE c[x]
          BY <3>2
        <5>3. k[x] = IF x = r THEN [g[x] EXCEPT !.amount = @ + z] ELSE g[x]
          BY <3>4
        <5> HIDE DEF w, m, g, k
        <5>4. CASE x = from
          <6>1. g[x] = [w EXCEPT !.amount = m - z]
            BY <5>1, <5>2, <5>4 DEF TokenData
          <6>2. CASE x = r
            <7>1. k[x] = [w EXCEPT !.amount = (m - z) + z]
              BY <5>1, <5>3, <6>1, <6>2 DEF TokenData
            <7>2. (m - z) + z = m + (IF r = x THEN z ELSE 0) - (IF x = from THEN z ELSE 0)
              BY <5>1, <5>4, <6>2
            <7> QED
              BY <5>1, <7>1, <7>2
          <6>3. CASE x # r
            <7>1. m - z = (m + 0) - z
              BY <5>1
            <7> QED
              BY <5>1, <5>3, <5>4, <6>1, <6>3, <7>1
          <6> QED
            BY <6>2, <6>3
        <5>5. CASE x # from
          <6>1. g[x] = [w EXCEPT !.amount = m]
            BY <5>1, <5>2, <5>5
          <6>2. CASE x = r
            <7>1. k[x] = [w EXCEPT !.amount = m + z]
              BY <5>1, <5>3, <6>1, <6>2 DEF TokenData
            <7>2. m + z = (m + z) - 0
              BY <5>1
            <7> QED
              BY <5>1, <5>5, <6>2, <7>1, <7>2
          <6>3. CASE x # r
            <7>1. m = (m + 0) - 0
              BY <5>1
            <7> QED
              BY <5>1, <5>3, <5>5, <6>1, <6>3, <7>1
          <6> QED
            BY <6>2, <6>3
        <5> QED
          BY <5>4, <5>5
      <4> QED
        BY <4>1, <4>2
    <3>6. k = [x \in Account |-> k[x]] /\ e = [x \in Account |-> e[x]]
      <4> HIDE DEF k
      <4> QED
        BY <2>3, <3>4
    <3> HIDE DEF g
    <3>7. k = e
      <4> HIDE DEF k
      <4> QED
        BY <3>5, <3>6
    <3> QED
      BY <2>6, <3>7 DEF Send, c, e, r, z, g
  <2> QED
    BY <2>5, <2>6
<1>13. b(n) = AfterTransfers(from, to, due)
  <2>1. ASSUME NEW x \in Account
        PROVE  A(x, n) = tokens[x].amount
                 + Total([i \in 1..Len(due) |-> IF to[i] = x THEN due[i] ELSE 0])
                 - (IF x = from THEN Total(due) ELSE 0)
    <3>1. Len(h(x)) = n
      BY <1>3, <1>4 DEF h
    <3> QED
      BY <3>1 DEF H, h, SentTo, D, n, Total
  <2> QED
    BY <1>9, <2>1 DEF AfterTransfers
<1>14. ASSUME NEW i \in 0..n PROVE D[i] = L[i] + H(from)[i]
  <2> DEFINE S == {m \in Nat : m <= n => D[m] = L[m] + H(from)[m]}
  <2>1. 0 \in S
    BY <1>6, <1>7, <1>8
  <2>2. ASSUME NEW m \in Nat, m \in S PROVE m + 1 \in S
    <3>1. SUFFICES ASSUME m + 1 <= n PROVE D[m+1] = L[m+1] + H(from)[m+1]
      OBVIOUS
    <3>2. m + 1 \in 1..n /\ m \in 0..n /\ m <= n /\ (m + 1) - 1 = m
      BY <1>1, <3>1
    <3> DEFINE x == L[m]  y == H(from)[m]  z == due[m+1]
    <3>3. x \in Nat /\ y \in Nat /\ z \in Nat
      BY <1>1, <1>7, <1>8, <3>2
    <3>4. D[m] = x + y
      BY <2>2, <3>2
    <3>5. D[m+1] = D[m] + z /\ L[m+1] = x + left[m+1] /\ H(from)[m+1] = y + h(from)[m+1]
      BY <1>6, <1>7, <1>8, <3>2
    <3>6. /\ left[m+1] = IF to[m+1] = from THEN 0 ELSE z
          /\ h(from)[m+1] = IF to[m+1] = from THEN z ELSE 0
      BY <1>4, <1>5, <3>2 DEF h
    <3> HIDE DEF x, y, z
    <3> QED
      BY <3>3, <3>4, <3>5, <3>6
  <2>3. Nat \subseteq S
    <3> HIDE DEF S
    <3> QED
      BY <2>1, <2>2, NatSetInduction
  <2> QED
    BY <1>1, <2>3
<1>15. ASSUME NEW i \in 1..n
       PROVE  b(i-1)[from].amount = tokens[from].amount - L[i-1]
  <2>1. i - 1 \in 0..n
    BY <1>1
  <2>2. b(i-1)[from] = [tokens[from] EXCEPT !.amount = A(from, i-1)]
    BY <1>9
  <2>3. tokens[from] \in TokenData
    BY <1>2
  <2>4. b(i-1)[from].amount = A(from, i-1)
    <3> HIDE DEF A
    <3> QED
      BY <2>2, <2>3 DEF TokenData
  <2> DEFINE x == L[i-1]  y == H(from)[i-1]  l == tokens[from].amount
  <2>5. A(from, i-1) = l + y - D[i-1] /\ D[i-1] = x + y
    BY <1>14, <2>1
  <2>6. x \in Nat /\ y \in Nat /\ l \in Nat
    BY <1>2, <1>7, <1>8, <2>1
  <2> HIDE DEF x, y, l, A
  <2>7. b(i-1)[from].amount = l - x
    BY <2>4, <2>5, <2>6
  <2> QED
    BY <2>7 DEF l, x
<1>16. Covered(from, to, due) <=>
         \A i \in 1..n : due[i] <= b(i-1)[from].amount
  BY <1>15 DEF Covered, L, left, n
<1> QED
  BY <1>11, <1>12, <1>13, <1>16 DEF b, n

=============================================================================
