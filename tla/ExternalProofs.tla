--------------------------- MODULE ExternalProofs ---------------------------
(***************************************************************************)
(* What the two calls into named programs can do to a splitter, for every  *)
(* set of splitters, exchanges and mints: the safety of module             *)
(* ExternalCalls.                                                          *)
(***************************************************************************)
EXTENDS ExternalCalls, SellProofs

(***************************************************************************)
(* Called programs.                                                        *)
(***************************************************************************)

TokensOf == [Account -> Nat \cup {NoData}]

\* What a call can make of the token accounts: it opens and closes none, and
\* only what it may move, or what is the program's own, becomes less.
Reach(t, program, signers) ==
  /\ t \in TokensOf
  /\ \A x \in Account : t[x] = NoData <=> ~Open(x)
  /\ \A x \in Account : Open(x) =>
       t[x] >= tokens[x] \/ x \in Movable(program, signers) \/ x[1] = program

\* One transfer out of such an account stays within reach.
LEMMA MovedReach ==
  ASSUME tokens \in TokensOf, NEW program, NEW signers, NEW t, Reach(t, program, signers),
         NEW from \in Account, NEW to \in Account, Open(from), Open(to),
         from \in Movable(program, signers) \/ from[1] = program,
         NEW n \in 1..t[from]
  PROVE  Reach(Moved(t, from, to, n), program, signers)
<1> DEFINE u == Moved(t, from, to, n)
<1>1. /\ t \in TokensOf
      /\ \A x \in Account : t[x] = NoData <=> ~Open(x)
      /\ \A x \in Account : Open(x) =>
           t[x] >= tokens[x] \/ x \in Movable(program, signers) \/ x[1] = program
  BY DEF Reach
<1>2. t[from] \in Nat /\ t[to] \in Nat /\ t[from] # NoData /\ t[to] # NoData
  BY <1>1 DEF TokensOf
<1>3. n \in Nat /\ n <= t[from]
  BY <1>2
<1>4. \A x \in Account :
        /\ x # from /\ x # to => u[x] = t[x]
        /\ x = from => u[x] \in Nat
        /\ x = to /\ x # from => u[x] \in Nat /\ u[x] >= t[x]
  BY <1>1, <1>2, <1>3 DEF Moved, TokensOf
<1>5. u = [x \in Account |-> u[x]]
  BY <1>1 DEF Moved, TokensOf
<1> HIDE DEF u
<1>6. u \in TokensOf
  BY <1>1, <1>4, <1>5 DEF TokensOf
<1>7. \A x \in Account : u[x] = NoData <=> ~Open(x)
  BY <1>1, <1>2, <1>4, ExternalTypes
<1>8. ASSUME NEW x \in Account, Open(x)
      PROVE  u[x] >= tokens[x] \/ x \in Movable(program, signers) \/ x[1] = program
  <2>1. t[x] \in Nat /\ tokens[x] \in Nat
    BY <1>1, <1>8 DEF TokensOf, Open
  <2>2. CASE x = from
    BY <2>2
  <2>3. CASE x # from /\ x # to
    BY <1>1, <1>4, <1>8, <2>3
  <2>4. CASE x # from /\ x = to
    <3>1. u[x] \in Nat /\ u[x] >= t[x]
      BY <1>4, <2>4
    <3> QED
      BY <1>1, <1>8, <2>1, <3>1
  <2> QED
    BY <2>2, <2>3, <2>4
<1>9. Reach(u, program, signers)
  BY <1>6, <1>7, <1>8 DEF Reach
<1> QED
  BY <1>9 DEF u

\* Whatever the program takes and gives stays within reach.
LEMMA CallOutcomesReach ==
  ASSUME tokens \in TokensOf, NEW program \in SwapPrograms, NEW signers,
         NEW after \in CallOutcomes(program, signers)
  PROVE  Reach(after, program, signers)
<1>1. Reach(tokens, program, signers)
  <2>1. \A x \in Account : Open(x) => tokens[x] \in Nat
    BY DEF Open, TokensOf
  <2>2. \A x \in Account : Open(x) => tokens[x] >= tokens[x]
    BY <2>1
  <2> QED
    BY <2>2 DEF Reach, Open
<1>2. ASSUME NEW t, Reach(t, program, signers), NEW u \in Takes(t, program, signers)
      PROVE  Reach(u, program, signers)
  <2>0. PICK x \in Movable(program, signers) :
          \E n \in 1..t[x] : u = Moved(t, x, <<program, x[2]>>, n)
    BY <1>2 DEF Takes
  <2>1. PICK n \in 1..t[x] : u = Moved(t, x, <<program, x[2]>>, n)
    BY <2>0
  <2>2. x \in Account /\ Open(x) /\ Open(<<program, x[2]>>) /\ <<program, x[2]>> \in Account
    BY <2>1 DEF Movable, Account
  <2> QED
    BY <1>2, <2>1, <2>2, MovedReach
<1>3. ASSUME NEW t, Reach(t, program, signers), NEW u \in Gives(t, program)
      PROVE  Reach(u, program, signers)
  <2>1. PICK y \in Account : /\ Open(y) /\ Open(<<program, y[2]>>)
                             /\ \E n \in 1..t[<<program, y[2]>>] :
                                  u = Moved(t, <<program, y[2]>>, y, n)
    BY <1>3 DEF Gives
  <2>2. PICK n \in 1..t[<<program, y[2]>>] : u = Moved(t, <<program, y[2]>>, y, n)
    BY <2>1
  <2>3. <<program, y[2]>> \in Account /\ <<program, y[2]>>[1] = program
    BY DEF Account
  <2> QED
    BY <1>3, <2>1, <2>2, <2>3, MovedReach
<1>4. PICK t : /\ after \in Gives(t, program)
               /\ \/ t \in Takes(tokens, program, signers)
                  \/ \E u \in Takes(tokens, program, signers) : t \in Takes(u, program, signers)
  BY DEF CallOutcomes
<1> QED
  BY <1>1, <1>2, <1>3, <1>4

(***************************************************************************)
(* The SOL in token accounts.                                              *)
(***************************************************************************)

\* The lamports of all token accounts: what they hold in rent and wrapped SOL.
Reserves(t) == [x \in Account |-> Reserve(t, x)]

Held(t) == SumFunction(Reserves(t))

\* There are finitely many token accounts.
LEMMA AccountsFinite == IsFiniteSet(Account)
<1>1. IsFiniteSet(Address \cup SwapPrograms)
  BY AddressesFinite, AddressesAreFinite, FS_Union
<1> QED
  BY <1>1, AddressesAreFinite, FS_Product DEF Account

\* What the accounts hold of SOL are integers, each and all together.
LEMMA ReservesType ==
  ASSUME NEW t \in TokensOf
  PROVE  Reserves(t) \in [Account -> Int] /\ Held(t) \in Int
<1>1. ASSUME NEW x \in Account PROVE Reserve(t, x) \in Int
  <2>1. CASE t[x] = NoData
    BY <2>1 DEF Reserve
  <2>2. CASE t[x] # NoData
    <3>1. t[x] \in Nat /\ RentToken \in Nat
      BY <2>2, ExternalTypes DEF TokensOf
    <3> QED
      BY <2>2, <3>1 DEF Reserve
  <2> QED
    BY <2>1, <2>2
<1>2. Reserves(t) \in [Account -> Int]
  BY <1>1 DEF Reserves
<1> QED
  BY <1>2, AccountsFinite, SupplyIs DEF Held

\* A transfer between token accounts of one mint.
LEMMA MovedHolds ==
  ASSUME NEW t \in TokensOf, NEW from \in Account, NEW to \in Account,
         from[2] = to[2], t[from] \in Nat, t[to] \in Nat, NEW n \in Nat, n <= t[from]
  PROVE  Held(Moved(t, from, to, n)) = Held(t) /\ Moved(t, from, to, n) \in TokensOf
<1> DEFINE u == Moved(t, from, to, n)
<1>1. /\ t \in [Account -> Nat \cup {NoData}]
      /\ NoData \notin Nat /\ RentToken \in Nat
  BY ExternalTypes DEF TokensOf
<1>2. CASE from = to
  <2>1. u[to] = t[to]
    BY <1>1, <1>2 DEF Moved
  <2>2. u = t
    BY <1>1, <1>2, <2>1 DEF Moved
  <2> QED
    BY <2>2
<1>3. CASE from # to
  <2>1. /\ u[from] = t[from] - n /\ u[to] = t[to] + n
        /\ \A x \in Account : x # from /\ x # to => u[x] = t[x]
    BY <1>1, <1>3 DEF Moved
  <2>2. u[from] \in Nat /\ u[to] \in Nat
    BY <2>1
  <2>3. u \in TokensOf
    <3>1. u = [x \in Account |-> u[x]]
      BY <1>1 DEF Moved
    <3>2. \A x \in Account : u[x] \in Nat \cup {NoData}
      BY <1>1, <2>1, <2>2
    <3> HIDE DEF u
    <3> QED
      BY <3>1, <3>2 DEF TokensOf
  <2> HIDE DEF u
  <2>4. \A x \in Account : x # from /\ x # to => Reserve(u, x) = Reserve(t, x)
    BY <2>1 DEF Reserve
  <2>5. Reserves(t) \in [Account -> Int] /\ Reserves(u) \in [Account -> Int]
    BY <2>3, ReservesType
  <2> DEFINE f == Reserves(t)  g == Reserves(u)
  <2>6. CASE from[2] \in NativeMints
    <3>1. /\ Reserve(t, from) = RentToken + t[from] /\ Reserve(t, to) = RentToken + t[to]
          /\ Reserve(u, from) = RentToken + u[from] /\ Reserve(u, to) = RentToken + u[to]
      BY <1>1, <2>2, <2>6 DEF Reserve
    <3>2. /\ Reserve(u, from) = Reserve(t, from) - n
          /\ Reserve(u, to) = Reserve(t, to) + n
      BY <1>1, <2>1, <3>1
    <3>3. /\ g[from] = f[from] - n /\ g[to] = f[to] + n
          /\ \A x \in Account : x # from /\ x # to => g[x] = f[x]
      BY <2>4, <3>2 DEF Reserves
    <3>4. f \in [Account -> Int] /\ g \in [Account -> Int] /\ n \in Int
      BY <2>5
    <3> HIDE DEF f, g
    <3>5. SumFunctionOnSet(g, Account) = SumFunctionOnSet(f, Account)
      BY <1>3, <3>3, <3>4, AccountsFinite, SumOfMoved
    <3>6. SumFunction(g) = SumFunction(f)
      BY <3>4, <3>5 DEF SumFunction
    <3> QED
      BY <2>3, <3>6 DEF Held, f, g, u
  <2>7. CASE from[2] \notin NativeMints
    <3>1. Reserve(u, from) = Reserve(t, from) /\ Reserve(u, to) = Reserve(t, to)
      BY <1>1, <2>2, <2>7 DEF Reserve
    <3>2. Reserves(u) = Reserves(t)
      BY <2>4, <3>1 DEF Reserves
    <3> QED
      BY <2>3, <3>2 DEF Held, u
  <2> QED
    BY <2>6, <2>7
<1> QED
  BY <1>2, <1>3 DEF u

\* Whatever a called program takes and gives, the lamports of the token
\* accounts together stay what they are.
LEMMA CallOutcomesHold ==
  ASSUME tokens \in TokensOf, NEW program \in SwapPrograms, NEW signers,
         NEW after \in CallOutcomes(program, signers)
  PROVE  Held(after) = Held(tokens)
<1> DEFINE Fine(t) == Reach(t, program, signers) /\ Held(t) = Held(tokens)
<1>1. Fine(tokens)
  <2>1. \A x \in Account : Open(x) => tokens[x] \in Nat
    BY DEF Open, TokensOf
  <2>2. \A x \in Account : Open(x) => tokens[x] >= tokens[x]
    BY <2>1
  <2> QED
    BY <2>2 DEF Reach, Open
<1>2. ASSUME NEW t, Fine(t), NEW from \in Account, NEW to \in Account, Open(from), Open(to),
             from[2] = to[2], from \in Movable(program, signers) \/ from[1] = program,
             NEW n \in 1..t[from]
      PROVE  Fine(Moved(t, from, to, n))
  <2>1. t \in TokensOf /\ t[from] \in Nat /\ t[to] \in Nat
    BY <1>2 DEF Reach, TokensOf
  <2>2. n \in Nat /\ n <= t[from]
    BY <2>1
  <2>3. Held(Moved(t, from, to, n)) = Held(t)
    BY <1>2, <2>1, <2>2, MovedHolds
  <2>4. Reach(Moved(t, from, to, n), program, signers)
    BY <1>2, MovedReach
  <2> QED
    BY <1>2, <2>3, <2>4
<1> HIDE DEF Fine
<1>3. ASSUME NEW t, Fine(t), NEW u \in Takes(t, program, signers) PROVE Fine(u)
  <2>1. PICK x \in Movable(program, signers) :
          \E n \in 1..t[x] : u = Moved(t, x, <<program, x[2]>>, n)
    BY DEF Takes
  <2>2. PICK n \in 1..t[x] : u = Moved(t, x, <<program, x[2]>>, n)
    BY <2>1
  <2>3. /\ x \in Account /\ Open(x) /\ Open(<<program, x[2]>>)
        /\ <<program, x[2]>> \in Account /\ <<program, x[2]>>[2] = x[2]
    BY DEF Movable, Account
  <2> QED
    BY <1>2, <1>3, <2>2, <2>3
<1>4. ASSUME NEW t, Fine(t), NEW u \in Gives(t, program) PROVE Fine(u)
  <2>1. PICK y \in Account : /\ Open(y) /\ Open(<<program, y[2]>>)
                             /\ \E n \in 1..t[<<program, y[2]>>] :
                                  u = Moved(t, <<program, y[2]>>, y, n)
    BY DEF Gives
  <2>2. PICK n \in 1..t[<<program, y[2]>>] : u = Moved(t, <<program, y[2]>>, y, n)
    BY <2>1
  <2>3. /\ <<program, y[2]>> \in Account
        /\ <<program, y[2]>>[1] = program /\ <<program, y[2]>>[2] = y[2]
    BY DEF Account
  <2> QED
    BY <1>2, <1>4, <2>1, <2>2, <2>3
<1>5. PICK t : /\ after \in Gives(t, program)
               /\ \/ t \in Takes(tokens, program, signers)
                  \/ \E u \in Takes(tokens, program, signers) : t \in Takes(u, program, signers)
  BY DEF CallOutcomes
<1>6. Fine(t)
  BY <1>1, <1>3, <1>5
<1>7. Fine(after)
  BY <1>4, <1>5, <1>6
<1> QED
  BY <1>7 DEF Fine

\* All SOL: lamports of addresses and configurations, and of token accounts.
Sol(l, cl, t) == Supply(l, cl) + Held(t)

\* Lamports that move between an address and a token account.
LEMMA MovedToAccount ==
  ASSUME NEW l \in [Address -> Nat], NEW l2 \in [Address -> Nat], NEW cl \in [PDAs -> Nat],
         NEW t \in TokensOf, NEW t2 \in TokensOf,
         NEW a \in Address, NEW y \in Account, NEW n \in Int,
         \A b \in Address : b # a => l2[b] = l[b],
         \A x \in Account : x # y => t2[x] = t[x],
         l2[a] = l[a] + n, Reserve(t, y) = Reserve(t2, y) + n
  PROVE  Sol(l2, cl, t2) = Sol(l, cl, t)
<1>1. /\ l \in [Address -> Int] /\ l2 \in [Address -> Int] /\ cl \in [PDAs -> Int]
      /\ Reserves(t) \in [Account -> Int] /\ Reserves(t2) \in [Account -> Int]
  BY ReservesType
<1>2. IsFiniteSet(Address) /\ IsFiniteSet(PDAs) /\ IsFiniteSet(Account)
  BY AddressesFinite, AccountsFinite
<1>3. SumFunction(l2) = SumFunction(l) + n /\ SumFunction(l) \in Int
  BY <1>1, <1>2, SumGrowsAt
<1> DEFINE f == Reserves(t)  g == Reserves(t2)
<1>4. \A x \in Account : x # y => f[x] = g[x]
  BY DEF Reserves, Reserve
<1>5. f[y] = g[y] + n
  BY DEF Reserves
<1>6. f \in [Account -> Int] /\ g \in [Account -> Int]
  BY <1>1
<1> HIDE DEF f, g
<1>7. SumFunction(f) = SumFunction(g) + n /\ SumFunction(g) \in Int
  <2>1. IsFiniteSet(Account)
    BY <1>2
  <2> QED
    BY <1>4, <1>5, <1>6, <2>1, SumGrowsAt
<1>8. SumFunction(cl) \in Int
  BY <1>1, <1>2, SupplyIs
<1> QED
  BY <1>3, <1>7, <1>8 DEF Sol, Supply, Held, f, g

(***************************************************************************)
(* The inductive invariant.                                                *)
(***************************************************************************)

UsesOf == [Wallets \cup PDAs -> Seq({SNS_PROGRAM_ID, SNS_NAME_OFFERS_ID})]

GoodTokens(t, u) ==
  /\ t \in TokensOf
  /\ u \in UsesOf
  /\ \A x \in Account : InitialTokens[x] # NoData /\ t[x] = NoData => x[1] \in PDAs

ExternalInv ==
  /\ SellInv
  /\ GoodTokens(tokens, uses)
  /\ open # NoTransaction => GoodTokens(saved[1], saved[2])

\* What a swap does: the seller sells a mint under its configuration, what
\* becomes less is the exchange's own or of a mint it is the delegate of, and
\* the only account it closes is one of the seller's with wrapped SOL.
SwapEffect(p, mint) ==
  /\ Sells(p, mint)
  /\ \A x \in Account : Open(x) =>
       \/ /\ tokens'[x] \in Nat
          /\ \/ tokens'[x] >= tokens[x]
             \/ DelegateOf[x[2]] = DelegateOf[mint]
             \/ x[1] \in SwapPrograms
       \/ /\ tokens'[x] = NoData /\ x[1] = p /\ x[2] \in NativeMints
          /\ lamports'[p] > lamports[p] + Reserve(tokens, x)
  /\ \A x \in Account : ~Open(x) => tokens'[x] = NoData

\* Every SwapToken is such a swap, and pays the splitter if it pays lamports.
LEMMA SwapTokenEffect ==
  ASSUME ExternalInv, NEW p \in PDAs, SwapToken(p)
  PROVE  /\ \E mint \in Mints : DelegateOf[mint] \in SwapPrograms /\ SwapEffect(p, mint)
         /\ tokens' \in TokensOf
         /\ lamports' \in [Address -> Nat] /\ \A q \in PDAs : lamports'[q] >= lamports[q]
         /\ InTransaction
         /\ UNCHANGED <<splitter, config, configLamports, asked, uses, saved>>
<1>1. PICK program \in SwapPrograms, mint \in Mints, dest_mint \in Mints, dest \in Account :
        /\ InTransaction
        /\ process_swap_token(p, program, mint, dest, dest_mint)
        /\ UNCHANGED <<asked, uses, saved>>
  BY DEF SwapToken
<1> DEFINE source == <<p, mint>>
<1>2. /\ ConfigInitialized(p)
      /\ ~is_whitelisted(config[p], mint) /\ is_approved_program(config[p], program)
      /\ Open(source) /\ Open(dest)
      /\ UNCHANGED <<splitter, config, configLamports>>
  BY <1>1 DEF process_swap_token
<1>3. PICK after \in CallOutcomes(program, SwapSigners(p)) :
        /\ Traded(source, dest, after)
        /\ \/ dest_mint \in NativeMints /\ Unwrap(p, dest, after)
           \/ dest_mint \notin NativeMints /\ tokens' = after /\ UNCHANGED lamports
  BY <1>1 DEF process_swap_token
<1>4. /\ tokens \in TokensOf /\ lamports \in [Address -> Nat]
      /\ p \in Address /\ source \in Account
  BY DEF ExternalInv, GoodTokens, SellInv, GoodLedger, GoodSplitters, Address, Account
<1>5. Reach(after, program, SwapSigners(p))
  BY <1>4, CallOutcomesReach
<1>6. /\ after \in TokensOf
      /\ \A x \in Account : Open(x) => after[x] \in Nat /\ tokens[x] \in Nat
      /\ \A x \in Account : ~Open(x) => after[x] = NoData
  BY <1>4, <1>5 DEF Reach, TokensOf, Open
<1>7. \A x \in Account : Open(x) =>
        after[x] >= tokens[x] \/ DelegateOf[x[2]] = program \/ x[1] = program
  BY <1>5 DEF Reach, Movable, SwapSigners
<1>8. after[source] < tokens[source] /\ after[dest] > tokens[dest]
  BY <1>3 DEF Traded
<1>9. DelegateOf[mint] = program
  <2>1. after[source] \in Nat /\ tokens[source] \in Nat
    BY <1>2, <1>4, <1>6
  <2>2. source[1] # program /\ source[2] = mint
    BY <1>4, ExternalTypes
  <2> QED
    BY <1>2, <1>4, <1>7, <1>8, <2>1, <2>2
<1>10. asked[p] = config[p] /\ config[p] # NoData
  BY <1>2, MarksDiffer DEF ExternalInv, SellInv, GoodLedger, GoodConfig, ConfigInitialized
<1>11. CASE dest_mint \in NativeMints /\ Unwrap(p, dest, after)
  <2>1. /\ dest[1] = p /\ dest[2] \in NativeMints
        /\ after[dest] \in Nat /\ tokens[dest] \in Nat
    BY <1>2, <1>6, <1>8, <1>11 DEF Unwrap
  <2>2. /\ tokens' = [after EXCEPT ![dest] = NoData]
        /\ lamports' = [lamports EXCEPT ![p] = @ + RentToken + after[dest]]
    BY <1>11, <2>1 DEF Unwrap
  <2>3. /\ \A x \in Account : x # dest => tokens'[x] = after[x]
        /\ tokens'[dest] = NoData /\ tokens' \in TokensOf
    BY <1>6, <2>2 DEF TokensOf
  <2>4. /\ lamports' \in [Address -> Nat] /\ \A q \in PDAs : lamports'[q] >= lamports[q]
        /\ lamports'[p] > lamports[p] + Reserve(tokens, dest)
    <3>1. Reserve(tokens, dest) = RentToken + tokens[dest]
      BY <1>2, <2>1 DEF Reserve, Open
    <3>2. lamports'[p] = lamports[p] + RentToken + after[dest] /\ lamports[p] \in Nat
      BY <1>4, <2>2
    <3>3. RentToken \in Nat
      BY ExternalTypes
    <3>4. lamports'[p] \in Nat /\ lamports'[p] > lamports[p] + (RentToken + tokens[dest])
      BY <1>8, <2>1, <3>2, <3>3
    <3>5. lamports' \in [Address -> Nat]
      BY <1>4, <2>2, <3>2, <3>4
    <3>6. lamports'[p] >= lamports[p]
      BY <2>1, <3>2, <3>3
    <3>7. \A q \in PDAs : q \in Address /\ lamports[q] \in Nat
      BY <1>4 DEF Address
    <3>8. \A q \in PDAs : lamports'[q] >= lamports[q]
      BY <1>4, <2>2, <3>6, <3>7
    <3> QED
      BY <3>1, <3>4, <3>5, <3>8
  <2>5. Leaves(p, mint)
    BY <1>1, <1>2, <1>4, <1>8, <2>3 DEF Leaves, InTransaction
  <2>6. Sells(p, mint)
    BY <1>2, <1>9, <1>10, <2>5 DEF Sells
  <2>7. ASSUME NEW x \in Account, Open(x)
        PROVE  \/ /\ tokens'[x] \in Nat
                  /\ \/ tokens'[x] >= tokens[x]
                     \/ DelegateOf[x[2]] = DelegateOf[mint]
                     \/ x[1] \in SwapPrograms
               \/ /\ tokens'[x] = NoData /\ x[1] = p /\ x[2] \in NativeMints
                  /\ lamports'[p] > lamports[p] + Reserve(tokens, x)
    <3>1. CASE x = dest
      BY <2>1, <2>3, <2>4, <3>1
    <3>2. CASE x # dest
      BY <1>6, <1>7, <1>9, <2>3, <2>7, <3>2
    <3> QED
      BY <3>1, <3>2
  <2>8. \A x \in Account : ~Open(x) => tokens'[x] = NoData
    BY <1>6, <2>3
  <2> QED
    BY <1>1, <1>2, <1>9, <2>3, <2>4, <2>6, <2>7, <2>8 DEF SwapEffect
<1>12. CASE tokens' = after /\ UNCHANGED lamports
  <2>1. Leaves(p, mint)
    BY <1>1, <1>2, <1>4, <1>8, <1>12 DEF Leaves, InTransaction
  <2>2. Sells(p, mint)
    BY <1>2, <1>9, <1>10, <2>1 DEF Sells
  <2>3. SwapEffect(p, mint)
    BY <1>6, <1>7, <1>9, <1>12, <2>2 DEF SwapEffect
  <2>4. \A q \in PDAs : lamports'[q] >= lamports[q]
    <3>1. \A q \in PDAs : q \in Address /\ lamports[q] \in Nat
      BY <1>4 DEF Address
    <3> QED
      BY <1>12, <3>1
  <2> QED
    BY <1>1, <1>2, <1>4, <1>6, <1>9, <1>12, <2>3, <2>4
<1> QED
  BY <1>3, <1>11, <1>12

\* Instructions that change no more than balances of lamports, the splitters'
\* upward.
LEMMA BalancesPreserve ==
  ASSUME SellInv, InTransaction, lamports' \in [Address -> Nat],
         \A q \in PDAs : lamports'[q] >= lamports[q],
         UNCHANGED <<splitter, config, configLamports, asked>>
  PROVE  SellInv'
<1>1. GoodLedger(splitter', lamports', config', configLamports', asked')
  <2>1. GoodSplitters(splitter', lamports')
    BY SellInvKeepsInv, WalletMoves
  <2> QED
    BY <2>1 DEF SellInv, GoodLedger
<1>2. \A p \in PDAs : KeptSince(open, p) => KeptSince(open, p)'
  BY DEF KeptSince, InTransaction
<1> QED
  BY <1>1, <1>2, InstructionPreserves

\* Tokens leave the accounts of p only.
OnlyFrom(p) ==
  \A x \in Account : Open(x) /\ x[1] # p => tokens'[x] \in Nat /\ tokens'[x] >= tokens[x]

\* What a name service does with the signature of a splitter changes lamports
\* upward and tokens of the splitter only, and its admin has not been revoked.
LEMMA SnsProxyEffect ==
  ASSUME ExternalInv, NEW p \in PDAs, SnsProxy(p)
  PROVE  /\ InTransaction /\ UNCHANGED <<splitter, config, configLamports, asked, saved>>
         /\ lamports' \in [Address -> Nat] /\ \A q \in PDAs : lamports'[q] >= lamports[q]
         /\ tokens' \in TokensOf
         /\ OnlyFrom(p)
         /\ Sol(lamports', configLamports', tokens') = Sol(lamports, configLamports, tokens)
         /\ uses' \in UsesOf /\ uses'[p] # uses[p]
         /\ Initialized(p) /\ ~is_admin_revoked(splitter[p]) /\ splitter[p].admin \in Wallets
         /\ \A o \in Wallets \cup PDAs : uses'[o] # uses[o] => o = p
<1>1. PICK key \in Wallets, program \in SwapPrograms \cup {SNS_PROGRAM_ID, SNS_NAME_OFFERS_ID},
           forwarded \in SUBSET (Wallets \cup PDAs) :
        /\ InTransaction
        /\ process_sns_proxy(p, key, program, forwarded)
        /\ UNCHANGED <<asked, saved>>
  BY DEF SnsProxy
<1>2. /\ AdminSigned(p, key) /\ program \in {SNS_PROGRAM_ID, SNS_NAME_OFFERS_ID}
      /\ \E o \in ProxySigners(p, forwarded) : ActsFor(program, o)
      /\ UNCHANGED <<splitter, config, configLamports>>
  BY <1>1 DEF process_sns_proxy, ProxyCall
<1>3. ActsFor(program, p)
  BY <1>2 DEF ProxySigners
<1>4. /\ tokens \in TokensOf /\ uses \in UsesOf
      /\ lamports \in [Address -> Nat] /\ configLamports \in [PDAs -> Nat]
      /\ \A q \in PDAs : q \in Address /\ lamports[q] \in Nat
      /\ RentToken \in Nat /\ NoData \notin Nat
  BY ExternalTypes DEF ExternalInv, GoodTokens, SellInv, GoodLedger, GoodSplitters, Address
<1>5. /\ uses' \in UsesOf /\ uses'[p] # uses[p]
      /\ \A o \in Wallets \cup PDAs : uses'[o] # uses[o] => o = p
  <2>1. uses' = [uses EXCEPT ![p] = Append(@, program)]
    BY <1>3 DEF ActsFor
  <2> DEFINE N == {SNS_PROGRAM_ID, SNS_NAME_OFFERS_ID}
  <2>2. uses[p] \in Seq(N) /\ program \in N
    BY <1>2, <1>4 DEF UsesOf
  <2>3. Append(uses[p], program) \in Seq(N) /\ Append(uses[p], program) # uses[p]
    <3>1. Len(uses[p]) \in Nat /\ Len(Append(uses[p], program)) = Len(uses[p]) + 1
      BY <2>2, AppendProperties, LenProperties
    <3> QED
      BY <2>2, <3>1, AppendProperties
  <2> QED
    BY <1>4, <2>1, <2>3 DEF UsesOf
<1>6. Initialized(p) /\ ~is_admin_revoked(splitter[p]) /\ splitter[p].admin \in Wallets
  BY <1>2 DEF AdminSigned
<1>7. /\ lamports' \in [Address -> Nat] /\ \A q \in PDAs : lamports'[q] >= lamports[q]
      /\ tokens' \in TokensOf
      /\ OnlyFrom(p)
      /\ Sol(lamports', configLamports, tokens') = Sol(lamports, configLamports, tokens)
  <2>1. CASE UNCHANGED <<tokens, lamports>>
    <3>1. OnlyFrom(p)
      BY <1>4, <2>1 DEF Open, OnlyFrom, TokensOf
    <3> QED
      BY <1>4, <2>1, <3>1
  <2>2. CASE TransfersTokens(p)
    <3>1. PICK mint \in Mints, to \in Address \cup SwapPrograms :
            /\ Open(<<p, mint>>) /\ Open(<<to, mint>>)
            /\ \E n \in 1..tokens[<<p, mint>>] :
                 tokens' = Moved(tokens, <<p, mint>>, <<to, mint>>, n)
      BY <2>2 DEF TransfersTokens
    <3> DEFINE x == <<p, mint>>
               y == <<to, mint>>
    <3>2. PICK n \in 1..tokens[x] : tokens' = Moved(tokens, x, y, n)
      BY <3>1
    <3>3. /\ x \in Account /\ y \in Account /\ x[2] = y[2]
          /\ tokens[x] \in Nat /\ tokens[y] \in Nat
      BY <1>4, <3>1 DEF Account, Open, TokensOf
    <3>4. n \in Nat /\ n <= tokens[x] /\ UNCHANGED lamports
      BY <2>2, <3>3 DEF TransfersTokens
    <3> HIDE DEF x, y
    <3>5. Held(tokens') = Held(tokens) /\ tokens' \in TokensOf
      BY <1>4, <3>2, <3>3, <3>4, MovedHolds
    <3>6. OnlyFrom(p)
      <4>1. ASSUME NEW z \in Account, Open(z), z[1] # p
            PROVE  tokens'[z] \in Nat /\ tokens'[z] >= tokens[z]
        <5>1. z # x /\ tokens[z] \in Nat
          BY <1>4, <4>1 DEF Open, TokensOf, x
        <5>2. tokens'[z] = tokens[z] \/ tokens'[z] = tokens[z] + n
          BY <1>4, <3>2, <3>3, <5>1 DEF Moved, TokensOf
        <5> QED
          BY <3>4, <5>1, <5>2
      <4> QED
        BY <4>1 DEF OnlyFrom
    <3> QED
      BY <1>4, <3>4, <3>5, <3>6 DEF Sol
  <2>3. CASE ClosesAccount(p)
    <3>1. PICK mint \in Mints, to \in Address :
            /\ Open(<<p, mint>>)
            /\ tokens' = [tokens EXCEPT ![<<p, mint>>] = NoData]
            /\ lamports' = [lamports EXCEPT ![to] = @ + Reserve(tokens, <<p, mint>>)]
      BY <2>3 DEF ClosesAccount
    <3> DEFINE y == <<p, mint>>
               n == Reserve(tokens, y)
    <3>2. y \in Account /\ y[1] = p /\ tokens[y] \in Nat
      BY <1>4, <3>1 DEF Account, Open, TokensOf
    <3>3. n \in Nat
      BY <1>4, <3>2 DEF Reserve
    <3> HIDE DEF y
    <3>4. /\ tokens' = [tokens EXCEPT ![y] = NoData]
          /\ lamports' = [lamports EXCEPT ![to] = @ + n]
      BY <3>1 DEF y
    <3>5. /\ tokens' \in TokensOf /\ tokens'[y] = NoData
          /\ \A x \in Account : x # y => tokens'[x] = tokens[x]
      BY <1>4, <3>2, <3>4 DEF TokensOf
    <3>6. Reserve(tokens', y) = 0
      BY <3>5 DEF Reserve
    <3>7. Reserve(tokens, y) = Reserve(tokens', y) + n
      BY <3>3, <3>6
    <3> HIDE DEF n
    <3>8. /\ lamports' \in [Address -> Nat] /\ lamports'[to] = lamports[to] + n
          /\ \A b \in Address : b # to => lamports'[b] = lamports[b]
      BY <1>4, <3>3, <3>4
    <3>9. \A q \in PDAs : lamports'[q] >= lamports[q]
      <4> SUFFICES ASSUME NEW q \in PDAs PROVE lamports'[q] >= lamports[q]
        OBVIOUS
      <4>1. CASE q = to
        BY <1>4, <3>3, <3>8, <4>1
      <4>2. CASE q # to
        BY <1>4, <3>8, <4>2
      <4> QED
        BY <4>1, <4>2
    <3>10. Sol(lamports', configLamports, tokens') = Sol(lamports, configLamports, tokens)
      <4>1. n \in Int
        BY <3>3
      <4> QED
        BY <1>4, <3>2, <3>5, <3>7, <3>8, <4>1, MovedToAccount
    <3>11. OnlyFrom(p)
      BY <1>4, <3>2, <3>5 DEF Open, OnlyFrom, TokensOf
    <3> QED
      BY <3>5, <3>8, <3>9, <3>10, <3>11
  <2> QED
    BY <1>3, <2>1, <2>2, <2>3 DEF ActsFor
<1> QED
  BY <1>1, <1>2, <1>5, <1>6, <1>7

\* Opening an account moves its rent and leaves every open account alone.
LEMMA OpenAccountEffect ==
  ASSUME ExternalInv, NEW payer \in Wallets, NEW y \in Account, OpenAccount(payer, y)
  PROVE  /\ InTransaction /\ UNCHANGED <<splitter, config, configLamports, asked, uses, saved>>
         /\ lamports' \in [Address -> Nat] /\ \A q \in PDAs : lamports'[q] >= lamports[q]
         /\ tokens' \in TokensOf
         /\ \A x \in Account : Open(x) => tokens'[x] = tokens[x]
         /\ \A x \in Account : tokens'[x] = NoData => ~Open(x)
<1>1. /\ InTransaction /\ ~Open(y) /\ lamports[payer] >= RentToken
      /\ lamports' = [lamports EXCEPT ![payer] = @ - RentToken]
      /\ tokens' = [tokens EXCEPT ![y] = 0]
      /\ UNCHANGED <<splitter, config, configLamports, asked, uses, saved>>
  BY DEF OpenAccount
<1>2. tokens \in TokensOf /\ lamports \in [Address -> Nat] /\ payer \in Address
  BY DEF ExternalInv, GoodTokens, SellInv, GoodLedger, GoodSplitters, Address
<1>3. lamports' \in [Address -> Nat] /\ \A q \in PDAs : lamports'[q] >= lamports[q]
  <2>1. lamports' \in [Address -> Nat]
    BY <1>1, <1>2, ExternalTypes
  <2>2. \A q \in PDAs : q # payer /\ q \in Address
    BY AddressesDiffer DEF Address
  <2>3. \A q \in PDAs : lamports'[q] = lamports[q] /\ lamports[q] \in Nat
    BY <1>1, <1>2, <2>2
  <2> QED
    BY <2>1, <2>3
<1>4. tokens' \in TokensOf
  BY <1>1, <1>2 DEF TokensOf
<1>5. \A x \in Account : /\ Open(x) => tokens'[x] = tokens[x]
                         /\ tokens'[x] = NoData => ~Open(x)
  BY <1>1, <1>2 DEF TokensOf, Open
<1> QED
  BY <1>1, <1>3, <1>4, <1>5

\* The first instruction finds the initial amounts.
LEMMA ExternalInitInv == ExternalInit => ExternalInv
<1> SUFFICES ASSUME ExternalInit PROVE ExternalInv
  OBVIOUS
<1>1. SellInv
  BY SellInitInv DEF ExternalInit
<1>2. GoodTokens(tokens, uses)
  BY ExternalTypes DEF ExternalInit, GoodTokens, TokensOf, UsesOf
<1>3. open = NoTransaction
  BY DEF ExternalInit, SellInit
<1> QED
  BY <1>1, <1>2, <1>3 DEF ExternalInv

\* Every step preserves the invariant.
LEMMA ExternalStepInv == ExternalInv /\ [ExternalNext]_externalVars => ExternalInv'
<1> SUFFICES ASSUME ExternalInv, [ExternalNext]_externalVars PROVE ExternalInv'
  OBVIOUS
<1>1. SellInv /\ GoodTokens(tokens, uses)
  BY DEF ExternalInv
<1>2. CASE ExternalBegin
  <2>1. SellInv'
    BY <1>1, <1>2, TransactionPreserves DEF ExternalBegin
  <2>2. GoodTokens(tokens', uses') /\ GoodTokens(saved'[1], saved'[2])
    BY <1>1, <1>2 DEF ExternalBegin
  <2> QED
    BY <2>1, <2>2 DEF ExternalInv
<1>3. CASE ExternalCommit
  <2>1. SellInv'
    BY <1>1, <1>3, TransactionPreserves DEF ExternalCommit
  <2>2. GoodTokens(tokens', uses') /\ open' = NoTransaction
    BY <1>1, <1>3 DEF ExternalCommit, Commit
  <2> QED
    BY <2>1, <2>2 DEF ExternalInv
<1>4. CASE ExternalAbort
  <2>1. SellInv'
    BY <1>1, <1>4, TransactionPreserves DEF ExternalAbort
  <2>2. GoodTokens(tokens', uses') /\ open' = NoTransaction
    BY <1>4 DEF ExternalAbort, Abort, ExternalInv
  <2> QED
    BY <2>1, <2>2 DEF ExternalInv
<1>5. CASE SellInstruction /\ UNCHANGED <<tokens, uses, saved>>
  <2>1. SellInv'
    BY <1>1, <1>5, SellStepInv DEF SellNext
  <2>2. UNCHANGED open
    BY <1>5 DEF SellInstruction, SplitterStep, SetSellConfig, CloseSellConfig,
                PayConfig, InTransaction
  <2> QED
    BY <1>5, <2>1, <2>2 DEF ExternalInv
<1>6. ASSUME NEW p \in PDAs, SwapToken(p) PROVE ExternalInv'
  <2>1. PICK mint \in Mints : SwapEffect(p, mint)
    BY <1>6, SwapTokenEffect
  <2>2. /\ tokens' \in TokensOf /\ lamports' \in [Address -> Nat] /\ InTransaction
        /\ \A q \in PDAs : lamports'[q] >= lamports[q]
        /\ UNCHANGED <<splitter, config, configLamports, asked, uses, saved>>
    BY <1>6, SwapTokenEffect
  <2>3. SellInv'
    BY <1>1, <2>2, BalancesPreserve
  <2>4. GoodTokens(tokens', uses')
    <3>1. ASSUME NEW x \in Account, InitialTokens[x] # NoData, tokens'[x] = NoData
          PROVE  x[1] \in PDAs
      BY <1>1, <2>1, <3>1, ExternalTypes DEF SwapEffect, GoodTokens, Open
    <3> QED
      BY <1>1, <2>2, <3>1 DEF GoodTokens
  <2> QED
    BY <2>2, <2>3, <2>4 DEF ExternalInv, InTransaction
<1>7. ASSUME NEW p \in PDAs, SnsProxy(p) PROVE ExternalInv'
  <2>1. /\ InTransaction /\ UNCHANGED <<splitter, config, configLamports, asked, saved>>
        /\ lamports' \in [Address -> Nat] /\ \A q \in PDAs : lamports'[q] >= lamports[q]
        /\ tokens' \in TokensOf /\ uses' \in UsesOf
        /\ OnlyFrom(p)
    BY <1>7, SnsProxyEffect
  <2>2. SellInv'
    BY <1>1, <2>1, BalancesPreserve
  <2>3. GoodTokens(tokens', uses')
    <3>1. ASSUME NEW x \in Account, InitialTokens[x] # NoData, tokens'[x] = NoData
          PROVE  x[1] \in PDAs
      BY <1>1, <2>1, <3>1, ExternalTypes DEF OnlyFrom, GoodTokens, Open
    <3> QED
      BY <2>1, <3>1 DEF GoodTokens
  <2> QED
    BY <2>1, <2>2, <2>3 DEF ExternalInv, InTransaction
<1>8. ASSUME NEW payer \in Wallets, NEW p \in PDAs, NEW mint \in Mints,
             OpenAccount(payer, <<p, mint>>)
      PROVE  ExternalInv'
  <2>0. <<p, mint>> \in Account
    BY DEF Account, Address
  <2>1. /\ InTransaction /\ UNCHANGED <<splitter, config, configLamports, asked, uses, saved>>
        /\ lamports' \in [Address -> Nat] /\ \A q \in PDAs : lamports'[q] >= lamports[q]
        /\ tokens' \in TokensOf /\ \A x \in Account : tokens'[x] = NoData => ~Open(x)
    BY <1>8, <2>0, OpenAccountEffect
  <2>2. SellInv'
    BY <1>1, <2>1, BalancesPreserve
  <2>3. GoodTokens(tokens', uses')
    BY <1>1, <2>1 DEF GoodTokens, Open
  <2> QED
    BY <2>1, <2>2, <2>3 DEF ExternalInv, InTransaction
<1>9. CASE UNCHANGED externalVars
  BY <1>9 DEF externalVars, sellVars, ledger, ExternalInv, SellInv, KeptSince
<1> QED
  BY <1>2, <1>3, <1>4, <1>5, <1>6, <1>7, <1>8, <1>9 DEF ExternalNext

\* The invariant holds in every reachable state.
THEOREM ExternalInvariance == ExternalSpec => []ExternalInv
<1> QED
  BY ExternalInitInv, ExternalStepInv, PTL DEF ExternalSpec

(***************************************************************************)
(* The theorems.                                                           *)
(***************************************************************************)

\* Token accounts hold naturals, only splitters' accounts are closed, and only
\* the two programs process_sns_proxy compares with use a signature.
THEOREM ExternalTypeCorrect == ExternalSpec => []ExternalTypeOK
<1>1. ExternalInv => ExternalTypeOK
  <2> SUFFICES ASSUME ExternalInv PROVE ExternalTypeOK
    OBVIOUS
  <2>1. GoodTokens(tokens, uses)
    BY DEF ExternalInv
  <2>2. ASSUME NEW o \in Wallets \cup PDAs
        PROVE  Range(uses[o]) \subseteq {SNS_PROGRAM_ID, SNS_NAME_OFFERS_ID}
    <3>1. uses[o] \in Seq({SNS_PROGRAM_ID, SNS_NAME_OFFERS_ID})
      BY <2>1 DEF GoodTokens, UsesOf
    <3> QED
      BY <3>1 DEF Range
  <2> QED
    BY <2>1, <2>2 DEF GoodTokens, ExternalTypeOK, TokensOf, UsesOf, Open
<1> QED
  BY <1>1, ExternalInvariance, PTL

\* Whatever the programs that SwapToken and SnsProxy call do, every invariant of
\* the splitter accounts holds between any two instructions.
THEOREM CallsKeepSplitters == ExternalSpec => []Inv
<1>1. ExternalInv => Inv
  BY SellInvKeepsInv DEF ExternalInv
<1> QED
  BY <1>1, ExternalInvariance, PTL

\* Within a transaction only swaps, and calls that use the signature of a
\* splitter, touch token accounts that are open.
LEMMA InstructionEffects ==
  ASSUME ExternalInv, [ExternalNext]_externalVars, open' = open
  PROVE  \/ \E p \in PDAs : SwapToken(p) /\ uses' = uses
         \/ (\A x \in Account : Open(x) => tokens'[x] = tokens[x]) /\ uses' = uses
         \/ \E p \in PDAs : SnsProxy(p)
<1>1. CASE ExternalBegin \/ ExternalCommit
  BY <1>1 DEF ExternalBegin, ExternalCommit
<1>2. CASE ExternalAbort
  BY <1>2 DEF ExternalAbort, Abort
<1>3. CASE SellInstruction /\ UNCHANGED <<tokens, uses, saved>>
  BY <1>3
<1>4. ASSUME NEW p \in PDAs, SwapToken(p)
      PROVE  \E q \in PDAs : SwapToken(q) /\ uses' = uses
  BY <1>4, SwapTokenEffect
<1>5. ASSUME NEW payer \in Wallets, NEW p \in PDAs, NEW mint \in Mints,
             OpenAccount(payer, <<p, mint>>)
      PROVE  (\A x \in Account : Open(x) => tokens'[x] = tokens[x]) /\ UNCHANGED uses
  <2>1. <<p, mint>> \in Account
    BY DEF Account, Address
  <2> QED
    BY <1>5, <2>1, OpenAccountEffect
<1>6. CASE UNCHANGED externalVars
  BY <1>6 DEF externalVars
<1> QED
  BY <1>1, <1>2, <1>3, <1>4, <1>5, <1>6 DEF ExternalNext

\* Without the signature of a splitter tokens leave it in a swap only.
LEMMA LeavesInSwap ==
  ASSUME ExternalInv, [ExternalNext]_externalVars,
         NEW p \in PDAs, NEW mint \in Mints, Leaves(p, mint), uses'[p] = uses[p]
  PROVE  \E q \in PDAs, sold \in Mints :
           /\ DelegateOf[sold] \in SwapPrograms
           /\ Sells(q, sold)
           /\ \/ p = q /\ mint \in NativeMints
              \/ DelegateOf[mint] = DelegateOf[sold]
<1> DEFINE x == <<p, mint>>
<1>1. /\ x \in Account /\ x[1] = p /\ x[2] = mint /\ x[1] \notin SwapPrograms
      /\ open' = open /\ Open(x)
      /\ tokens'[x] = NoData \/ tokens'[x] < tokens[x]
  BY ExternalTypes DEF Account, Address, Leaves
<1> HIDE DEF x
<1>2. tokens[x] \in Nat /\ tokens[x] # NoData
  BY <1>1 DEF ExternalInv, GoodTokens, TokensOf, Open
<1>3. PICK q \in PDAs : SwapToken(q)
  <2>1. ASSUME NEW q \in PDAs, SnsProxy(q) PROVE FALSE
    <3>1. uses'[q] # uses[q] /\ OnlyFrom(q)
      BY <2>1, SnsProxyEffect
    <3>2. tokens'[x] \in Nat /\ tokens'[x] >= tokens[x]
      BY <1>1, <3>1 DEF OnlyFrom
    <3> QED
      BY <1>1, <1>2, <3>2, ExternalTypes
  <2> QED
    BY <1>1, <1>2, <2>1, InstructionEffects
<1>4. PICK sold \in Mints : DelegateOf[sold] \in SwapPrograms /\ SwapEffect(q, sold)
  BY <1>3, SwapTokenEffect
<1>5. \/ p = q /\ mint \in NativeMints
      \/ DelegateOf[mint] = DelegateOf[sold]
  <2>1. CASE tokens'[x] = NoData
    BY <1>1, <1>4, <2>1, ExternalTypes DEF SwapEffect
  <2>2. CASE tokens'[x] \in Nat
    BY <1>1, <1>2, <1>4, <2>2, ExternalTypes DEF SwapEffect
  <2> QED
    BY <1>1, <1>4, <2>1, <2>2 DEF SwapEffect
<1> QED
  BY <1>4, <1>5 DEF SwapEffect

\* Tokens the admin keeps leave with the signature of the splitter only: no
\* swap of another mint takes them along.
THEOREM KeptTokensAlwaysStay == ExternalSpec => KeptTokensStay
<1>1. ASSUME ExternalInv, [ExternalNext]_externalVars,
             NEW p \in PDAs, NEW mint \in Mints \ NativeMints,
             DelegateOf[mint] = NoData, Leaves(p, mint)
      PROVE  uses'[p] # uses[p]
  BY <1>1, LeavesInSwap, ExternalTypes
<1>2. ExternalInv /\ [ExternalNext]_externalVars =>
        [\A p \in PDAs, mint \in Mints \ NativeMints :
           /\ ConfigInitialized(p) /\ is_whitelisted(config[p], mint)
           /\ DelegateOf[mint] = NoData
           /\ Leaves(p, mint)
           => uses'[p] # uses[p]]_externalVars
  BY <1>1
<1> QED
  BY <1>2, ExternalInvariance, PTL DEF ExternalSpec, KeptTokensStay

\* What leaves splitters without a signature is sold under the configuration
\* last asked for.
THEOREM AlwaysSoldUnderLastConfig == ExternalSpec => SoldUnderLastConfig
<1>1. ExternalInv /\ [ExternalNext]_externalVars =>
        [\A p \in PDAs, mint \in Mints : Leaves(p, mint) /\ uses'[p] = uses[p] =>
           \E q \in PDAs, sold \in Mints :
             /\ Sells(q, sold)
             /\ \/ p = q /\ mint \in NativeMints
                \/ DelegateOf[mint] = DelegateOf[sold]]_externalVars
  BY LeavesInSwap
<1> QED
  BY <1>1, ExternalInvariance, PTL DEF ExternalSpec, SoldUnderLastConfig

\* A swap closes wrapped SOL only, and the splitter has all of it.
THEOREM AlwaysClosesOnlyWrapped == ExternalSpec => ClosesOnlyWrapped
<1>1. ASSUME ExternalInv, [ExternalNext]_externalVars, NEW x \in Account,
             open' = open, uses' = uses, Open(x), tokens'[x] = NoData
      PROVE  /\ x[1] \in PDAs /\ x[2] \in NativeMints
             /\ lamports'[x[1]] > lamports[x[1]] + Reserve(tokens, x)
  <2>1. PICK p \in PDAs : SwapToken(p)
    BY <1>1, InstructionEffects, SnsProxyEffect DEF Open
  <2>2. PICK mint \in Mints : SwapEffect(p, mint)
    BY <2>1, <1>1, SwapTokenEffect
  <2> QED
    BY <1>1, <2>2, ExternalTypes DEF SwapEffect
<1>2. ExternalInv /\ [ExternalNext]_externalVars =>
        [\A x \in Account :
           /\ open' = open /\ uses' = uses
           /\ Open(x) /\ tokens'[x] = NoData
           => /\ x[1] \in PDAs /\ x[2] \in NativeMints
              /\ lamports'[x[1]] > lamports[x[1]] + Reserve(tokens, x)]_externalVars
  BY <1>1
<1> QED
  BY <1>2, ExternalInvariance, PTL DEF ExternalSpec, ClosesOnlyWrapped

\* The signature of a splitter is used while its own admin is a key that signs.
THEOREM SignatureAlwaysFollowsAdmin == ExternalSpec => SignatureFollowsAdmin
<1>1. ASSUME ExternalInv, [ExternalNext]_externalVars,
             NEW o \in Wallets \cup PDAs, open' = open, uses'[o] # uses[o]
      PROVE  /\ o \in PDAs /\ Initialized(o)
             /\ ~is_admin_revoked(splitter[o]) /\ splitter[o].admin \in Wallets
  <2>1. PICK p \in PDAs : SnsProxy(p)
    BY <1>1, InstructionEffects
  <2> QED
    BY <1>1, <2>1, SnsProxyEffect
<1>2. ExternalInv /\ [ExternalNext]_externalVars =>
        [\A o \in Wallets \cup PDAs : open' = open /\ uses'[o] # uses[o] =>
           /\ o \in PDAs /\ Initialized(o)
           /\ ~is_admin_revoked(splitter[o]) /\ splitter[o].admin \in Wallets]_externalVars
  BY <1>1
<1> QED
  BY <1>2, ExternalInvariance, PTL DEF ExternalSpec, SignatureFollowsAdmin

(***************************************************************************)
(* The supply is conserved.                                                *)
(***************************************************************************)

\* A swap moves wrapped SOL between token accounts, and all of the account it
\* closes to the splitter.
LEMMA SwapTokenConserves ==
  ASSUME ExternalInv, NEW p \in PDAs, SwapToken(p)
  PROVE  Sol(lamports', configLamports', tokens') = Sol(lamports, configLamports, tokens)
<1>1. PICK program \in SwapPrograms, mint \in Mints, dest_mint \in Mints, dest \in Account :
        process_swap_token(p, program, mint, dest, dest_mint)
  BY DEF SwapToken
<1>2. Open(dest) /\ UNCHANGED configLamports
  BY <1>1 DEF process_swap_token
<1>3. PICK after \in CallOutcomes(program, SwapSigners(p)) :
        /\ Traded(<<p, mint>>, dest, after)
        /\ \/ dest_mint \in NativeMints /\ Unwrap(p, dest, after)
           \/ dest_mint \notin NativeMints /\ tokens' = after /\ UNCHANGED lamports
  BY <1>1 DEF process_swap_token
<1>4. /\ tokens \in TokensOf /\ lamports \in [Address -> Nat]
      /\ configLamports \in [PDAs -> Nat] /\ p \in Address
  BY DEF ExternalInv, GoodTokens, SellInv, GoodLedger, GoodSplitters, Address
<1>5. Reach(after, program, SwapSigners(p)) /\ Held(after) = Held(tokens)
  BY <1>4, CallOutcomesReach, CallOutcomesHold
<1>6. after \in TokensOf /\ after[dest] \in Nat /\ tokens[dest] \in Nat
  BY <1>2, <1>4, <1>5 DEF Reach, TokensOf, Open
<1>7. CASE Unwrap(p, dest, after)
  <2>1. dest[2] \in NativeMints
    BY <1>3, <1>6, <1>7 DEF Traded, Unwrap
  <2>2. /\ tokens' = [after EXCEPT ![dest] = NoData]
        /\ lamports' = [lamports EXCEPT ![p] = @ + RentToken + after[dest]]
    BY <1>7, <2>1 DEF Unwrap
  <2>3. /\ tokens' \in TokensOf /\ lamports' \in [Address -> Nat]
    BY <1>1, SwapTokenEffect
  <2>4. RentToken \in Nat /\ lamports[p] \in Nat /\ NoData \notin Nat
    BY <1>4, ExternalTypes
  <2> DEFINE n == RentToken + after[dest]
  <2>5. n \in Int /\ lamports'[p] = lamports[p] + n
    BY <1>4, <1>6, <2>2, <2>4
  <2>6. Reserve(after, dest) = n /\ Reserve(tokens', dest) = 0
    BY <1>6, <2>1, <2>2, <2>4 DEF Reserve, TokensOf
  <2>7. /\ \A b \in Address : b # p => lamports'[b] = lamports[b]
        /\ \A x \in Account : x # dest => tokens'[x] = after[x]
    BY <1>4, <1>6, <2>2 DEF TokensOf
  <2> HIDE DEF n
  <2>8. Reserve(after, dest) = Reserve(tokens', dest) + n
    BY <2>5, <2>6
  <2>9. Sol(lamports', configLamports, tokens') = Sol(lamports, configLamports, after)
    BY <1>4, <1>6, <2>3, <2>5, <2>7, <2>8, MovedToAccount
  <2> QED
    BY <1>2, <1>5, <2>9 DEF Sol
<1>8. CASE tokens' = after /\ UNCHANGED lamports
  BY <1>2, <1>5, <1>8 DEF Sol
<1> QED
  BY <1>3, <1>7, <1>8

\* Opening a token account takes its rent from the payer.
LEMMA OpenAccountConserves ==
  ASSUME ExternalInv, NEW payer \in Wallets, NEW y \in Account, OpenAccount(payer, y)
  PROVE  Sol(lamports', configLamports', tokens') = Sol(lamports, configLamports, tokens)
<1>1. /\ ~Open(y)
      /\ lamports' = [lamports EXCEPT ![payer] = @ - RentToken]
      /\ tokens' = [tokens EXCEPT ![y] = 0] /\ UNCHANGED configLamports
  BY DEF OpenAccount
<1>2. /\ tokens \in TokensOf /\ lamports \in [Address -> Nat]
      /\ configLamports \in [PDAs -> Nat] /\ payer \in Address
  BY DEF ExternalInv, GoodTokens, SellInv, GoodLedger, GoodSplitters, Address
<1>3. tokens' \in TokensOf /\ lamports' \in [Address -> Nat]
  BY OpenAccountEffect
<1>4. RentToken \in Nat /\ NoData \notin Nat
  BY ExternalTypes
<1> DEFINE n == -RentToken
<1>5. n \in Int /\ lamports'[payer] = lamports[payer] + n
  BY <1>1, <1>2, <1>4
<1>6. Reserve(tokens, y) = 0 /\ Reserve(tokens', y) = RentToken
  BY <1>1, <1>2, <1>4 DEF Reserve, TokensOf, Open
<1>7. /\ \A b \in Address : b # payer => lamports'[b] = lamports[b]
      /\ \A x \in Account : x # y => tokens'[x] = tokens[x]
  BY <1>1, <1>2 DEF TokensOf
<1>8. Reserve(tokens, y) = Reserve(tokens', y) + n
  BY <1>4, <1>6
<1> HIDE DEF n
<1>9. Sol(lamports', configLamports, tokens') = Sol(lamports, configLamports, tokens)
  BY <1>2, <1>3, <1>5, <1>7, <1>8, MovedToAccount
<1> QED
  BY <1>1, <1>9

\* The ledger found by the open transaction holds all SOL too.
SolKept ==
  LET all == Sol(InitialLamports, [p \in PDAs |-> 0], InitialTokens) IN
  /\ Sol(lamports, configLamports, tokens) = all
  /\ open # NoTransaction => Sol(open.lamports, open.configLamports, saved[1]) = all

\* At first nothing is configured and no transaction is open.
LEMMA SolKeptInit == ExternalInit => SolKept
<1> SUFFICES ASSUME ExternalInit PROVE SolKept
  OBVIOUS
<1>1. /\ lamports = InitialLamports /\ configLamports = [p \in PDAs |-> 0]
      /\ tokens = InitialTokens /\ open = NoTransaction
  BY DEF ExternalInit, SellInit, Init
<1> QED
  BY <1>1 DEF SolKept

\* Every step keeps all SOL, present and saved.
LEMMA SolKeptStep ==
  ExternalInv /\ SolKept /\ [ExternalNext]_externalVars => SolKept'
<1> SUFFICES ASSUME ExternalInv, SolKept, [ExternalNext]_externalVars PROVE SolKept'
  OBVIOUS
<1>0. SellInv
  BY DEF ExternalInv
<1>1. ASSUME InTransaction, UNCHANGED saved,
             Sol(lamports', configLamports', tokens') = Sol(lamports, configLamports, tokens)
      PROVE  SolKept'
  BY <1>1 DEF SolKept, InTransaction
<1>2. CASE ExternalBegin
  <2> DEFINE was == [splitter |-> splitter, lamports |-> lamports, config |-> config,
                     configLamports |-> configLamports, asked |-> asked]
  <2>1. /\ open' = was /\ UNCHANGED <<lamports, configLamports, tokens>>
        /\ saved' = <<tokens, uses>>
    BY <1>2 DEF ExternalBegin, Begin, ledger
  <2>2. was.lamports = lamports /\ was.configLamports = configLamports
    OBVIOUS
  <2> HIDE DEF was
  <2> QED
    BY <2>1, <2>2 DEF SolKept
<1>3. CASE ExternalCommit
  BY <1>3 DEF ExternalCommit, Commit, SolKept
<1>4. CASE ExternalAbort
  BY <1>4 DEF ExternalAbort, Abort, SolKept
<1>5. CASE SellInstruction /\ UNCHANGED <<tokens, uses, saved>>
  <2>1. InTransaction
    BY <1>5 DEF SellInstruction, SplitterStep, SetSellConfig, CloseSellConfig, PayConfig
  <2>2. Sol(lamports', configLamports', tokens') = Sol(lamports, configLamports, tokens)
    BY <1>0, <1>5, SellInstructionConserves DEF Sol
  <2> QED
    BY <1>1, <1>5, <2>1, <2>2
<1>6. ASSUME NEW p \in PDAs, SwapToken(p) PROVE SolKept'
  BY <1>1, <1>6, SwapTokenConserves DEF SwapToken
<1>7. ASSUME NEW p \in PDAs, SnsProxy(p) PROVE SolKept'
  BY <1>1, <1>7, SnsProxyEffect
<1>8. ASSUME NEW payer \in Wallets, NEW p \in PDAs, NEW mint \in Mints,
             OpenAccount(payer, <<p, mint>>)
      PROVE  SolKept'
  <2>1. <<p, mint>> \in Account
    BY DEF Account, Address
  <2> QED
    BY <1>1, <1>8, <2>1, OpenAccountConserves DEF OpenAccount
<1>9. CASE UNCHANGED externalVars
  BY <1>9 DEF externalVars, sellVars, ledger, SolKept
<1> QED
  BY <1>2, <1>3, <1>4, <1>5, <1>6, <1>7, <1>8, <1>9 DEF ExternalNext

\* Neither a called program nor the unwrapping of what it pays makes or loses
\* SOL, whatever account is passed as the destination, in transactions that
\* commit or fail.
THEOREM SolAlwaysConserved == ExternalSpec => []SolConserved
<1>1. ExternalInit => SolKept
  BY SolKeptInit
<1>2. SolKept => SolConserved
  <2> SUFFICES ASSUME SolKept PROVE SolConserved
    OBVIOUS
  <2> DEFINE none == [p \in PDAs |-> 0]
  <2>1. SumFunctionOnSet(none, PDAs) = 0
    BY AddressesFinite, SumOfZeros
  <2>2. SumFunction(none) = 0
    BY <2>1 DEF SumFunction
  <2>3. SumFunction(InitialLamports) \in Int
    <3>1. InitialLamports \in [Address -> Int]
      BY InitialTypes
    <3> QED
      BY <3>1, AddressesFinite, SupplyIs
  <2> QED
    BY <2>2, <2>3 DEF SolKept, Sol, Supply, Held, Reserves, SolConserved
<1> QED
  BY <1>1, <1>2, ExternalInvariance, SolKeptStep, PTL DEF ExternalSpec

\* With calls into named programs too, the loop of DistributeSOL overflows
\* nowhere as long as all SOL, what token accounts hold included, is a u64.
THEOREM NothingOverflowsWithCalls ==
  ASSUME NEW Most \in Nat,
         Sol(InitialLamports, [p \in PDAs |-> 0], InitialTokens) <= Most
  PROVE  ExternalSpec =>
           [](\A p \in PDAs : Initialized(p) /\ HasDistributable(p) => LoopFits(p, Most))
<1>1. ASSUME ExternalInv, SolKept, NEW p \in PDAs, Initialized(p), HasDistributable(p)
      PROVE  LoopFits(p, Most)
  <2>1. /\ lamports \in [Address -> Nat] /\ configLamports \in [PDAs -> Nat]
        /\ tokens \in TokensOf
        /\ IsFiniteSet(Address) /\ IsFiniteSet(PDAs) /\ IsFiniteSet(Account)
    BY <1>1, AddressesFinite, AccountsFinite
       DEF ExternalInv, GoodTokens, SellInv, GoodLedger, GoodSplitters
  <2> DEFINE L == SumFunction(lamports)
             C == SumFunction(configLamports)
             H == Held(tokens)
  <2>2. L \in Nat
    <3>1. \A a \in Address : lamports[a] \in Nat
      BY <2>1
    <3>2. SumFunctionOnSet(lamports, Address) \in Nat
      BY <2>1, <3>1, SumOfNaturals
    <3> QED
      BY <2>1, <3>2 DEF SumFunction
  <2>3. C \in Nat
    <3>1. \A q \in PDAs : configLamports[q] \in Nat
      BY <2>1
    <3>2. SumFunctionOnSet(configLamports, PDAs) \in Nat
      BY <2>1, <3>1, SumOfNaturals
    <3> QED
      BY <2>1, <3>2 DEF SumFunction
  <2>4. H \in Nat
    <3> DEFINE f == Reserves(tokens)
    <3>1. ASSUME NEW x \in Account PROVE Reserve(tokens, x) \in Nat
      <4>1. tokens[x] \in Nat \cup {NoData} /\ RentToken \in Nat
        BY <2>1, ExternalTypes DEF TokensOf
      <4> QED
        BY <4>1 DEF Reserve
    <3>2. \A x \in Account : f[x] \in Nat
      BY <3>1 DEF Reserves
    <3>3. f \in [Account -> Int]
      BY <2>1, ReservesType
    <3> HIDE DEF f
    <3>4. SumFunctionOnSet(f, Account) \in Nat
      BY <2>1, <3>2, SumOfNaturals
    <3>5. SumFunction(f) \in Nat
      BY <3>3, <3>4 DEF SumFunction
    <3> QED
      BY <3>5 DEF f, Held
  <2>5. L + C + H <= Most
    BY <1>1 DEF SolKept, Sol, Supply
  <2> HIDE DEF L, C, H
  <2>6. L <= Most
    BY <2>2, <2>3, <2>4, <2>5
  <2> QED
    BY <1>1, <2>6, SellInvKeepsInv, LoopStaysWithin DEF L, ExternalInv
<1>2. ExternalInv /\ SolKept =>
        \A p \in PDAs : Initialized(p) /\ HasDistributable(p) => LoopFits(p, Most)
  BY <1>1
<1>3. ExternalInit => SolKept
  BY SolKeptInit
<1> QED
  BY <1>2, <1>3, ExternalInvariance, SolKeptStep, PTL DEF ExternalSpec

=============================================================================
