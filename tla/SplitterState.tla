---------------------------- MODULE SplitterState ----------------------------
(***************************************************************************)
(* The account data of ChiefSplitter and the pure operations on it         *)
(* (state.rs), with the arithmetic of a distribution.                      *)
(*                                                                         *)
(* A splitter account is a record; num_recipients and the fixed array of   *)
(* slots are one sequence whose length is num_recipients.  Discriminator   *)
(* and bump carry no choice: an account either holds NoData or a splitter. *)
(***************************************************************************)
EXTENDS Integers, Sequences, FiniteSets, Sums

CONSTANTS
  Wallets,          \* keys somebody can sign with
  Nonces,           \* nonces a creator may use
  Default,          \* Pubkey::default(), also the address of the system program
  NoData,           \* the data of an account that does not exist
  Bytes,            \* byte values of a name
  TOTAL_SHARES,     \* 10000 basis points
  MAX_RECIPIENTS,   \* 10
  MAX_NAME_LEN      \* 64

\* derive_pda: one address per creator and nonce, different from every key.
SplitterPDA(creator, nonce) == <<creator, nonce>>
PDAs == {SplitterPDA(c, n) : c \in Wallets, n \in Nonces}
Address == Wallets \cup PDAs \cup {Default}

ASSUME AddressesDiffer == Wallets \cap PDAs = {} /\ Default \notin Wallets \cup PDAs
\* A key is 32 bytes and a nonce a u64.
ASSUME KeysAreFinite == IsFiniteSet(Wallets) /\ IsFiniteSet(Nonces)
ASSUME LimitsAreNat == /\ TOTAL_SHARES \in Nat \ {0}
                       /\ MAX_RECIPIENTS \in Nat \ {0}
                       /\ MAX_NAME_LEN \in Nat
                       /\ Bytes \subseteq Nat /\ 0 \in Bytes

(***************************************************************************)
(* Recipients.                                                             *)
(***************************************************************************)

Recipient == [address : Address, share : Nat, locked_share : Nat]

\* What SetSplitterDistribution receives: (address, share) pairs.
Entry == [address : Address, share : Nat]

\* The slot of a recipient or of an entry, with a floor.
WithLock(r, lock) ==
  [address |-> r.address, share |-> r.share, locked_share |-> lock]

Shares(rs) == [i \in 1..Len(rs) |-> rs[i].share]

Listed(rs) == {rs[i].address : i \in 1..Len(rs)}

\* The slot every loop over the recipients stops at when it looks for a.
FirstSlot(rs, a) ==
  CHOOSE i \in 1..Len(rs) : /\ rs[i].address = a
                            /\ \A j \in 1..(i-1) : rs[j].address # a

\* The lock a carries into the next configuration; 0 when a is not listed.
LockOf(rs, a) ==
  IF a \in Listed(rs) THEN rs[FirstSlot(rs, a)].locked_share ELSE 0

\* Faults: no limit on the number of slots; less than 100% is accepted.
ValidList_AnyLength(rs) == /\ Total(Shares(rs)) = TOTAL_SHARES
                           /\ \A i \in 1..Len(rs) : rs[i].share # 0
ValidList_AtMostTotal(rs) == /\ Len(rs) <= MAX_RECIPIENTS
                             /\ Total(Shares(rs)) <= TOTAL_SHARES
                             /\ \A i \in 1..Len(rs) : rs[i].share # 0

\* What SetSplitterDistribution asks of the submitted list by itself.
ValidList(rs) == /\ Len(rs) <= MAX_RECIPIENTS
                 /\ Total(Shares(rs)) = TOTAL_SHARES
                 /\ \A i \in 1..Len(rs) : rs[i].share # 0

\* Fault: floors are not enforced.
RespectsLocks_Never(old, rs) == TRUE

\* Fault: the new list is compared with the old one slot by slot.
RespectsLocks_BySlot(old, rs) ==
  \A i \in 1..Len(rs) :
    i <= Len(old) /\ old[i].address = rs[i].address => rs[i].share >= old[i].locked_share

\* A locked recipient keeps at least its floor, in every slot that names it.
RespectsLocks(old, rs) ==
  \A i \in 1..Len(rs), j \in 1..Len(old) :
    old[j].address = rs[i].address => rs[i].share >= old[j].locked_share

\* Fault: the floors are not carried over.
StoredList_ForgetsLocks(old, rs) == [i \in 1..Len(rs) |-> WithLock(rs[i], 0)]

\* The slots written for the submitted list.
StoredList(old, rs) ==
  [i \in 1..Len(rs) |-> WithLock(rs[i], LockOf(old, rs[i].address))]

\* Fault: a floor may be lowered.
Lockable_AnyWay(r, min_share) == min_share <= r.share

\* What LockRecipient asks of the slot: the floor is within the share and rises.
Lockable(r, min_share) == min_share <= r.share /\ min_share > r.locked_share

(***************************************************************************)
(* Splitter accounts.                                                      *)
(***************************************************************************)

Splitter == [creator : Wallets, nonce : Nonces, admin : Address,
             recipients : Seq(Recipient),
             name : [1..MAX_NAME_LEN -> Bytes], name_len : 0..MAX_NAME_LEN]

ASSUME NoDataIsNoSplitter == NoData \notin Splitter

is_admin_revoked(s) == s.admin = Default

\* Fault: the rest of the field is not cleared.
set_name_KeepsRest(s, name) ==
  LET len == IF Len(name) <= MAX_NAME_LEN THEN Len(name) ELSE MAX_NAME_LEN
  IN  [s EXCEPT !.name = [i \in 1..MAX_NAME_LEN |-> IF i <= len THEN name[i] ELSE s.name[i]],
                !.name_len = len]

\* set_name: the bytes kept of the name, zeros to the end of the field.
set_name(s, name) ==
  LET len == IF Len(name) <= MAX_NAME_LEN THEN Len(name) ELSE MAX_NAME_LEN
  IN  [s EXCEPT !.name = [i \in 1..MAX_NAME_LEN |-> IF i <= len THEN name[i] ELSE 0],
                !.name_len = len]

\* Splitter::new: everything to the creator until the admin says otherwise.
NewSplitter(creator, nonce, name) ==
  set_name([creator |-> creator, nonce |-> nonce, admin |-> creator,
            recipients |-> <<[address |-> creator, share |-> TOTAL_SHARES,
                              locked_share |-> 0]>>,
            name |-> [i \in 1..MAX_NAME_LEN |-> 0], name_len |-> 0], name)

(***************************************************************************)
(* The arithmetic of DistributeSOL and DistributeToken.                    *)
(***************************************************************************)

\* Faults: divides before it multiplies; rounds up.
Payout_DividesFirst(distributable, share) == (distributable \div TOTAL_SHARES) * share
Payout_RoundsUp(distributable, share) ==
  (distributable * share + TOTAL_SHARES - 1) \div TOTAL_SHARES

Payout(distributable, share) == (distributable * share) \div TOTAL_SHARES

\* What each slot is due out of distributable, in slot order.
Payouts(rs, distributable) ==
  [i \in 1..Len(rs) |-> Payout(distributable, rs[i].share)]

\* What the slots that name a are due together.
PaidTo(rs, distributable, a) ==
  Total([i \in 1..Len(rs) |->
          IF rs[i].address = a THEN Payout(distributable, rs[i].share) ELSE 0])

\* The share of a over all the slots that name it.
ShareOf(rs, a) ==
  Total([i \in 1..Len(rs) |-> IF rs[i].address = a THEN rs[i].share ELSE 0])

\* The events of a distribution, in slot order: one for every slot that is paid
\* something, with the recipient of the slot.  DistributeToken names the same
\* recipients, whatever accounts it is given.
Events(rs, distributable) ==
  [i \in {j \in 1..Len(rs) : Payout(distributable, rs[j].share) > 0} |->
     [recipient |-> rs[i].address, amount |-> Payout(distributable, rs[i].share)]]

\* What an observer who adds up the events of a distribution finds a was paid.
Reported(rs, distributable, a) ==
  LET es == Events(rs, distributable) IN
  Total([i \in 1..Len(rs) |->
          IF i \in DOMAIN es /\ es[i].recipient = a THEN es[i].amount ELSE 0])

=============================================================================
