--------------------------- MODULE ExternalCalls ---------------------------
(***************************************************************************)
(* SwapToken and SnsProxy, the two instructions that call a program the    *)
(* caller names, as instructions of the transactions of module SellConfig. *)
(*                                                                         *)
(* A called program may do whatever its own authority and the signatures   *)
(* it is handed allow; the handlers choose which signatures those are, and *)
(* SwapToken looks at two balances before and after.  Nobody but this      *)
(* program can take the lamports or change the data of a splitter, and no  *)
(* called program may call back into it.  Token accounts are associated    *)
(* accounts, one for each owner and mint.                                  *)
(***************************************************************************)
EXTENDS SellConfig

CONSTANTS
  NativeMints,        \* the mints of wrapped SOL
  DelegateOf,         \* the permanent delegate of a mint, or NoData
  SNS_PROGRAM_ID,
  SNS_NAME_OFFERS_ID,
  RentToken,          \* rent.minimum_balance of a token account
  InitialTokens,      \* token amounts before the first instruction
  MaxUses             \* bound on the uses of a signature

VARIABLES
  tokens,    \* the amount in every token account, NoData when it is not open
  uses,      \* history: the programs that have used the signature of a key
  saved      \* what the open transaction found of both

externalVars == <<sellVars, tokens, uses, saved>>

Account == (Address \cup SwapPrograms) \X Mints

ASSUME ExternalTypes == /\ NativeMints \subseteq Mints
                        /\ DelegateOf \in [Mints -> SwapPrograms \cup {NoData}]
                        /\ RentToken \in Nat \ {0} /\ MaxUses \in Nat
                        /\ InitialTokens \in [Account -> Nat \cup {NoData}]
                        /\ SwapPrograms \cap Address = {}
                        /\ NoData \notin Nat /\ NoData \notin SwapPrograms
\* Programs and mints are addresses.
ASSUME AddressesAreFinite == IsFiniteSet(SwapPrograms) /\ IsFiniteSet(Mints)

(***************************************************************************)
(* Called programs.                                                        *)
(***************************************************************************)

Open(x) == tokens[x] # NoData

\* What the token programs let a program take from, with these signatures.
Movable(program, signers) ==
  {x \in Account : /\ Open(x) /\ Open(<<program, x[2]>>)
                   /\ x[1] \in signers \cup {program} \/ DelegateOf[x[2]] = program}

\* What a token account holds in lamports: its rent, and wrapped SOL.
Reserve(t, x) ==
  IF t[x] = NoData THEN 0 ELSE RentToken + (IF x[2] \in NativeMints THEN t[x] ELSE 0)

\* Out of one account, then into the other, which may be the same.
Moved(t, from, to, n) == [[t EXCEPT ![from] = @ - n] EXCEPT ![to] = @ + n]

\* An exchange takes into its accounts and pays out of them.
Takes(t, program, signers) ==
  UNION {{Moved(t, x, <<program, x[2]>>, n) : n \in 1..t[x]} :
           x \in Movable(program, signers)}

Gives(t, program) ==
  UNION {{Moved(t, <<program, y[2]>>, y, n) : n \in 1..t[<<program, y[2]>>]} :
           y \in {y \in Account : Open(y) /\ Open(<<program, y[2]>>)}}

\* The balances it may leave: it takes at one or two places, and pays at one.
CallOutcomes(program, signers) ==
  LET once == Takes(tokens, program, signers) IN
  UNION {Gives(t, program) :
           t \in once \cup UNION {Takes(u, program, signers) : u \in once}}

\* What a program that is handed the signature of o can do with the tokens of
\* o: leave them, transfer some, or close an account that is empty or wrapped
\* SOL.  A call that does several of these is several calls.
TransfersTokens(o) ==
  /\ \E mint \in Mints, to \in Address \cup SwapPrograms :
       /\ Open(<<o, mint>>) /\ Open(<<to, mint>>)
       /\ \E n \in 1..tokens[<<o, mint>>] :
            tokens' = Moved(tokens, <<o, mint>>, <<to, mint>>, n)
  /\ UNCHANGED lamports

ClosesAccount(o) ==
  \E mint \in Mints, to \in Address :
    /\ Open(<<o, mint>>)
    /\ mint \in NativeMints \/ tokens[<<o, mint>>] = 0
    /\ tokens' = [tokens EXCEPT ![<<o, mint>>] = NoData]
    /\ lamports' = [lamports EXCEPT ![to] = @ + Reserve(tokens, <<o, mint>>)]

ActsFor(program, o) ==
  /\ Len(uses[o]) < MaxUses
  /\ uses' = [uses EXCEPT ![o] = Append(@, program)]
  /\ UNCHANGED <<tokens, lamports>> \/ TransfersTokens(o) \/ ClosesAccount(o)

(***************************************************************************)
(* Handlers.                                                               *)
(***************************************************************************)

is_whitelisted(c, mint) == mint \in Range(c.whitelisted_mints)

is_approved_program(c, program) == program \in Range(c.approved_programs)

\* Fault: the splitter is marked as a signer and nothing else changes.
SwapSigners_Splitter(p) == {p}

\* Every account of the call into an exchange is marked as no signer, so the
\* signature the program could give is not given.
SwapSigners(p) == {}

\* Fault: every signature of the transaction is passed on.
ProxySigners_Transaction(p, forwarded) == forwarded \cap ({p} \cup Wallets)

\* Of the accounts forwarded to a name service the splitter signs, no other.
ProxySigners(p, forwarded) == forwarded \cap {p}

\* Fault: what the swap brought in is paid out, the rest of the account lost.
Unwrap_Received(p, dest, after) ==
  /\ dest[1] = p
  /\ dest[2] \in NativeMints \/ after[dest] = 0
  /\ tokens' = [after EXCEPT ![dest] = NoData]
  /\ lamports' = [lamports EXCEPT ![p] = @ + RentToken + after[dest] - tokens[dest]]

\* close_account: the splitter's account, wrapped SOL or empty; all of its
\* lamports go to the splitter.
Unwrap(p, dest, after) ==
  /\ dest[1] = p
  /\ dest[2] \in NativeMints \/ after[dest] = 0
  /\ tokens' = [after EXCEPT ![dest] = NoData]
  /\ lamports' = [lamports EXCEPT
                    ![p] = @ + RentToken
                             + (IF dest[2] \in NativeMints THEN after[dest] ELSE 0)]

\* Fault: the destination's balance is not compared.
Traded_SourceOnly(source, dest, after) == after[source] < tokens[source]

\* Source decreased, destination increased.
Traded(source, dest, after) ==
  after[source] < tokens[source] /\ after[dest] > tokens[dest]

\* The owner and the mint of the source are compared with the splitter and
\* source_mint; those of the destination with nothing.
process_swap_token(p, program, source_mint, dest, dest_mint) ==
  LET source == <<p, source_mint>> IN
  /\ Initialized(p)
  /\ ConfigInitialized(p)
  /\ config[p].splitter = p
  /\ ~is_whitelisted(config[p], source_mint)
  /\ dest_mint \in NativeMints \/ is_whitelisted(config[p], dest_mint)
  /\ is_approved_program(config[p], program)
  /\ Open(source) /\ Open(dest)
  /\ tokens[source] > 0
  /\ \E after \in CallOutcomes(program, SwapSigners(p)) :
       /\ Traded(source, dest, after)
       /\ \/ dest_mint \in NativeMints /\ Unwrap(p, dest, after)
          \/ dest_mint \notin NativeMints /\ tokens' = after /\ UNCHANGED lamports
  /\ UNCHANGED <<splitter, config, configLamports>>

\* The call: what the program can do with the signatures it is handed.
ProxyCall(p, program, forwarded) ==
  /\ \E o \in ProxySigners(p, forwarded) : ActsFor(program, o)
  /\ UNCHANGED <<splitter, config, configLamports>>

\* Fault: the program that is called is not compared with anything.
process_sns_proxy_AnyProgram(p, key, program, forwarded) ==
  AdminSigned(p, key) /\ ProxyCall(p, program, forwarded)

process_sns_proxy(p, key, program, forwarded) ==
  /\ AdminSigned(p, key)
  /\ program \in {SNS_PROGRAM_ID, SNS_NAME_OFFERS_ID}
  /\ ProxyCall(p, program, forwarded)

(***************************************************************************)
(* Instructions and transactions.                                          *)
(***************************************************************************)

SwapToken(p) ==
  \E program \in SwapPrograms, source_mint, dest_mint \in Mints, dest \in Account :
    /\ InTransaction
    /\ process_swap_token(p, program, source_mint, dest, dest_mint)
    /\ UNCHANGED <<asked, uses, saved>>

SnsProxy(p) ==
  \E key \in Wallets,
     program \in SwapPrograms \cup {SNS_PROGRAM_ID, SNS_NAME_OFFERS_ID},
     forwarded \in SUBSET (Wallets \cup PDAs) :
    /\ InTransaction
    /\ process_sns_proxy(p, key, program, forwarded)
    /\ UNCHANGED <<asked, saved>>

\* Somebody opens a token account for a splitter.
OpenAccount(payer, x) ==
  /\ InTransaction
  /\ ~Open(x)
  /\ lamports[payer] >= RentToken
  /\ lamports' = [lamports EXCEPT ![payer] = @ - RentToken]
  /\ tokens' = [tokens EXCEPT ![x] = 0]
  /\ UNCHANGED <<splitter, config, configLamports, asked, uses, saved>>

ExternalBegin == Begin /\ saved' = <<tokens, uses>> /\ UNCHANGED <<tokens, uses>>

ExternalCommit == Commit /\ saved' = NoTransaction /\ UNCHANGED <<tokens, uses>>

ExternalAbort == /\ Abort
                 /\ tokens' = saved[1] /\ uses' = saved[2]
                 /\ saved' = NoTransaction

ExternalInit == /\ SellInit
                /\ tokens = InitialTokens
                /\ uses = [o \in Wallets \cup PDAs |-> << >>]
                /\ saved = NoTransaction

ExternalNext ==
  \/ ExternalBegin \/ ExternalCommit \/ ExternalAbort
  \/ SellInstruction /\ UNCHANGED <<tokens, uses, saved>>
  \/ \E p \in PDAs : SwapToken(p) \/ SnsProxy(p)
  \/ \E payer \in Wallets, p \in PDAs, mint \in Mints : OpenAccount(payer, <<p, mint>>)

ExternalSpec == ExternalInit /\ [][ExternalNext]_externalVars

(***************************************************************************)
(* Properties.                                                             *)
(***************************************************************************)

\* Token accounts hold naturals, only splitters' accounts are ever closed, and
\* no program but the two that process_sns_proxy compares with uses the
\* signature of anybody.
ExternalTypeOK ==
  /\ tokens \in [Account -> Nat \cup {NoData}]
  /\ \A x \in Account : InitialTokens[x] # NoData /\ ~Open(x) => x[1] \in PDAs
  /\ DOMAIN uses = Wallets \cup PDAs
  /\ \A o \in Wallets \cup PDAs :
       Range(uses[o]) \subseteq {SNS_PROGRAM_ID, SNS_NAME_OFFERS_ID}

\* Calls and unwrapping neither make nor lose SOL: all of an account that is
\* closed, the balance from before a swap and the rent included, is somewhere.
SolConserved ==
  SumFunction(lamports) + SumFunction(configLamports)
    + SumFunction([x \in Account |-> Reserve(tokens, x)]) =
  SumFunction(InitialLamports) + SumFunction([x \in Account |-> Reserve(InitialTokens, x)])

\* Tokens of mint leave p in an instruction.
Leaves(p, mint) ==
  /\ open' = open
  /\ Open(<<p, mint>>)
  /\ tokens'[<<p, mint>>] = NoData \/ tokens'[<<p, mint>>] < tokens[<<p, mint>>]

\* Tokens the admin decided to keep stay, unless the admin has the splitter
\* sign: a swap of another mint takes none along, although only two balances
\* are compared.  Wrapped SOL is unwrapped, and a mint's own permanent delegate
\* needs nobody's leave.
KeptTokensStay ==
  [][\A p \in PDAs, mint \in Mints \ NativeMints :
       /\ ConfigInitialized(p) /\ is_whitelisted(config[p], mint)
       /\ DelegateOf[mint] = NoData
       /\ Leaves(p, mint)
       => uses'[p] # uses[p]]_externalVars

\* What leaves splitters without a signature is for sale: a splitter sells under
\* the configuration its admin last asked for, also within the transaction that
\* closes or replaces it; the mint it sells is not kept, the exchange is one
\* it approves, and what leaves is that mint, another one of which
\* the exchange is the delegate, or wrapped SOL the seller has unwrapped.
Sells(q, mint) ==
  /\ Leaves(q, mint)
  /\ asked[q] # NoData
  /\ ~is_whitelisted(asked[q], mint)
  /\ is_approved_program(asked[q], DelegateOf[mint])

SoldUnderLastConfig ==
  [][\A p \in PDAs, mint \in Mints : Leaves(p, mint) /\ uses'[p] = uses[p] =>
       \E q \in PDAs, sold \in Mints :
         /\ Sells(q, sold)
         /\ \/ p = q /\ mint \in NativeMints
            \/ DelegateOf[mint] = DelegateOf[sold]]_externalVars

\* Whatever account is passed to a swap as the destination and whatever mint
\* is named for it, the account it closes held wrapped SOL, and the splitter
\* has more of it than the account held before the swap.
ClosesOnlyWrapped ==
  [][\A x \in Account :
       /\ open' = open /\ uses' = uses
       /\ Open(x) /\ tokens'[x] = NoData
       => /\ x[1] \in PDAs /\ x[2] \in NativeMints
          /\ lamports'[x[1]] > lamports[x[1]] + Reserve(tokens, x)]_externalVars

\* The signature of a splitter is used while the admin of that very splitter is
\* a key that can sign, never again once it is revoked; the signature of
\* another party to the transaction, or of another splitter, is not passed on.
SignatureFollowsAdmin ==
  [][\A o \in Wallets \cup PDAs : open' = open /\ uses'[o] # uses[o] =>
       /\ o \in PDAs /\ Initialized(o)
       /\ ~is_admin_revoked(splitter[o]) /\ splitter[o].admin \in Wallets]_externalVars

\* "SNS Name Service program (must be namesLPneVptA9Z5rqUDD9tMTWEJwofgaYwp8cawRkX)"
\* (lib.rs): no other program ever uses the signature of a splitter.
OnlyNameService == \A p \in PDAs : Range(uses[p]) \subseteq {SNS_PROGRAM_ID}

\* "CPI to the DEX via invoke_signed (splitter PDA signs as authority)"
\* (README.md): tokens that are not kept can be sold to an approved exchange
\* that has SOL to pay for them.
SwapAvailable ==
  \A p \in PDAs, program \in SwapPrograms, mint \in Mints, native \in NativeMints :
    /\ open # NoTransaction /\ mint # native
    /\ Initialized(p) /\ ConfigInitialized(p)
    /\ ~is_whitelisted(config[p], mint)
    /\ is_approved_program(config[p], program)
    /\ Open(<<p, mint>>) /\ tokens[<<p, mint>>] > 0 /\ Open(<<program, mint>>)
    /\ Open(<<p, native>>)
    /\ Open(<<program, native>>) /\ tokens[<<program, native>>] > 0
    => ENABLED SwapToken(p)

\* "Splitter's destination token account (wSOL or whitelisted)" (lib.rs): for
\* the tokens that leave a splitter without its signature it has SOL or tokens
\* it keeps.
SwapPaysSplitter ==
  [][\A p \in PDAs, mint \in Mints \ NativeMints : Leaves(p, mint) /\ uses'[p] = uses[p] =>
       \/ lamports'[p] > lamports[p]
       \/ \E kept \in Range(config[p].whitelisted_mints) :
            /\ Open(<<p, kept>>)
            /\ tokens'[<<p, kept>>] # NoData
            /\ tokens'[<<p, kept>>] > tokens[<<p, kept>>]]_externalVars

=============================================================================
