----------------------------- MODULE WalletStore -----------------------------
(***************************************************************************)
(* The wallets table as the wallet service sees it through                 *)
(* wallet.SQLRepository over db.MockClient: a map from user to balance in  *)
(* memory, and the JSON file the map is written to after every update.     *)
(*                                                                         *)
(* MockClient takes its mutex around a whole Exec or QueryRow, so each     *)
(* operator below is one atomic step of the goroutine that calls it.  The  *)
(* order inside Exec matters and is kept: the map is updated first and the *)
(* file is written afterwards, so an Exec that returns an error because    *)
(* the file could not be written has already changed the balance.          *)
(***************************************************************************)
EXTENDS Integers

CONSTANTS
  Users,           \* user ids
  InitialWallets,  \* contents of wallets.json at start-up
  MaxInt,          \* largest value of the balances' integer type
  MaxIOFailures    \* bound: how many writes of the file may fail

\* The balances' type: two's complement, of the width of int64 in the code.
Balances == (-MaxInt - 1) .. MaxInt

ASSUME WalletStoreAssumption ==
  /\ MaxInt \in Nat \ {0}
  /\ MaxIOFailures \in Nat
  /\ InitialWallets \in [Users -> Balances]

VARIABLES
  wallets,      \* MockClient.wallets; an absent user counts as balance 0
  walletsFile,  \* what wallets.json holds
  ioFailures    \* failed writes so far

walletVars == <<wallets, walletsFile, ioFailures>>

WalletTypeOK ==
  /\ wallets \in [Users -> Balances]
  /\ walletsFile \in [Users -> Balances]
  /\ ioFailures \in 0 .. MaxIOFailures

\* NewMockClient with WithWalletsJSONFile: the map is what the file holds.
WalletInit ==
  /\ wallets = InitialWallets
  /\ walletsFile = InitialWallets
  /\ ioFailures = 0

\* Mutant: the balances' type is as wide as it takes.
AddUnbounded(x, y) == x + y

\* int64 addition of a balance and a positive amount: it wraps.
AddInt64(x, y) == IF x + y > MaxInt THEN x + y - 2 * (MaxInt + 1) ELSE x + y

\* Mutant: a failed write is not reported.
PersistErrorDropped(ok) ==
  /\ ok
  /\ \/ /\ walletsFile' = wallets'
        /\ UNCHANGED ioFailures
     \/ /\ ioFailures < MaxIOFailures
        /\ ioFailures' = ioFailures + 1
        /\ UNCHANGED walletsFile

\* persistWalletsLocked: write a temporary file and rename it over the old
\* one.  A failure of either leaves the old file, and the caller gets
\* ErrInternal.
PersistWallets(ok) ==
  \/ /\ ok
     /\ walletsFile' = wallets'
     /\ UNCHANGED ioFailures
  \/ /\ ~ok
     /\ ioFailures < MaxIOFailures
     /\ ioFailures' = ioFailures + 1
     /\ UNCHANGED walletsFile

\* SELECT balance; SQLRepository.GetBalance turns "not found" into 0.
GetBalance(u) == wallets[u]

\* The upsert: set the balance, then write the file.
SetBalance(u, balance, ok) ==
  /\ wallets' = [wallets EXCEPT ![u] = balance]
  /\ PersistWallets(ok)

\* The WHERE clause of the conditional update.
SufficientFunds(u, amount) == wallets[u] >= amount

\* The conditional update, when the WHERE clause holds.
DebitBalance(u, amount, ok) ==
  /\ SufficientFunds(u, amount)
  /\ wallets' = [wallets EXCEPT ![u] = @ - amount]
  /\ PersistWallets(ok)

=============================================================================
