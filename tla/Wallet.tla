-------------------------------- MODULE Wallet --------------------------------
(***************************************************************************)
(* internal/wallet: the service, called at the same time by the handlers   *)
(* of POST /wallet/credit and by the workers of the bus.  Payments of one  *)
(* user have different partition keys, so nothing orders the calls for a   *)
(* wallet but the mutex of db.MockClient.  Debit is one conditional        *)
(* update; Credit and Refund read the balance and then set it, and other   *)
(* calls come between.                                                     *)
(*                                                                         *)
(* The process may be killed and started again: the table is then what the *)
(* file holds, and the calls in progress are gone.  A kill inside an Exec  *)
(* leaves what a kill before it leaves, for the file is renamed into place *)
(* and the map dies with the process.                                      *)
(***************************************************************************)
EXTENDS WalletStore, FiniteSets

CONSTANTS
  Clients,      \* goroutines that call the service
  Amounts,      \* amounts the requests carry, past validation
  MaxRestarts   \* bound: how often the process is started again

ASSUME WalletAssumption ==
  /\ Amounts \subseteq 1 .. MaxInt
  /\ MaxRestarts \in Nat
  /\ \A u \in Users : InitialWallets[u] >= 0

VARIABLES
  op,        \* the Credit or Refund each client is in, between its two queries
  restarts,
  \* History, for the properties:
  ledger,    \* the balance each user should have, until an update is lost
  stale,     \* clients whose balance has changed since they read it
  lost,      \* users an update was lost for: set from a stale balance
  wrapped,   \* users whose balance has passed MaxInt
  unsaved    \* users with an update the file does not hold, reported as an error

historyVars == <<ledger, stale, lost, wrapped, unsaved>>
vars == <<walletVars, op, restarts, historyVars>>

\* Nothing to do; otherwise the request and the balance read for it.
Idle == [user |-> "none"]
Increase == [user : Users, amount : Amounts, current : Balances]

Init ==
  /\ WalletInit
  /\ op = [c \in Clients |-> Idle]
  /\ restarts = 0
  /\ ledger = InitialWallets
  /\ stale = {}
  /\ lost = {}
  /\ wrapped = {}
  /\ unsaved = {}

-----------------------------------------------------------------------------
(* What an Exec on the row of u leaves behind. *)

\* The clients that hold a balance of u, apart from c.
Readers(u, c) == {d \in Clients \ {c} : op[d] # Idle /\ op[d].user = u}

\* The account of u is kept until an update is lost.
Counted(u, balance) ==
  ledger' = IF u \in lost' THEN ledger ELSE [ledger EXCEPT ![u] = balance]

\* A successful write of the file saves every user's balance.
Recorded(u, ok) == unsaved' = IF ok THEN {} ELSE unsaved \union {u}

-----------------------------------------------------------------------------
(* Service.Credit and Service.Refund: GetBalance, then SetBalance. *)

ReadBalance(c, u, amount) ==
  /\ op[c] = Idle
  /\ op' = [op EXCEPT ![c] = [user |-> u, amount |-> amount, current |-> GetBalance(u)]]
  /\ UNCHANGED <<walletVars, restarts, historyVars>>

\* Mutant: the amount replaces the balance.
SetAmount(c, ok) ==
  LET u == op[c].user
      amount == op[c].amount
  IN /\ op[c] # Idle
     /\ SetBalance(u, amount, ok)
     /\ op' = [op EXCEPT ![c] = Idle]
     /\ stale' = (stale \ {c}) \union Readers(u, c)
     /\ lost' = IF c \in stale THEN lost \union {u} ELSE lost
     /\ Counted(u, AddInt64(ledger[u], amount))
     /\ wrapped' = IF op[c].current + amount > MaxInt THEN wrapped \union {u} ELSE wrapped
     /\ Recorded(u, ok)
     /\ UNCHANGED restarts

SetIncreased(c, ok) ==
  LET u == op[c].user
      amount == op[c].amount
  IN /\ op[c] # Idle
     /\ SetBalance(u, AddInt64(op[c].current, amount), ok)
     /\ op' = [op EXCEPT ![c] = Idle]
     /\ stale' = (stale \ {c}) \union Readers(u, c)
     /\ lost' = IF c \in stale THEN lost \union {u} ELSE lost
     /\ Counted(u, AddInt64(ledger[u], amount))
     /\ wrapped' = IF op[c].current + amount > MaxInt THEN wrapped \union {u} ELSE wrapped
     /\ Recorded(u, ok)
     /\ UNCHANGED restarts

-----------------------------------------------------------------------------
(* Service.Debit: one conditional update, refused when the funds are short,
   which changes nothing. *)

\* Mutant: the balance is not compared.
DebitUnchecked(c, u, amount, ok) ==
  /\ op[c] = Idle
  /\ wallets[u] - amount \in Balances
  /\ wallets' = [wallets EXCEPT ![u] = @ - amount]
  /\ PersistWallets(ok)
  /\ stale' = stale \union Readers(u, c)
  /\ UNCHANGED <<op, restarts, lost, wrapped>>
  /\ Counted(u, ledger[u] - amount)
  /\ Recorded(u, ok)

Debit(c, u, amount, ok) ==
  /\ op[c] = Idle
  /\ DebitBalance(u, amount, ok)
  /\ stale' = stale \union Readers(u, c)
  /\ UNCHANGED <<op, restarts, lost, wrapped>>
  /\ Counted(u, ledger[u] - amount)
  /\ Recorded(u, ok)

-----------------------------------------------------------------------------
(* A new process, from the file.  What the file holds is the balance from
   now on. *)

Restart ==
  /\ restarts < MaxRestarts
  /\ restarts' = restarts + 1
  /\ wallets' = walletsFile
  /\ op' = [c \in Clients |-> Idle]
  /\ ledger' = walletsFile
  /\ stale' = {}
  /\ lost' = {}
  /\ unsaved' = {}
  /\ UNCHANGED <<walletsFile, ioFailures, wrapped>>

Next ==
  \/ \E c \in Clients :
       \/ \E u \in Users, amount \in Amounts :
            \/ ReadBalance(c, u, amount)
            \/ \E ok \in BOOLEAN : Debit(c, u, amount, ok)
       \/ \E ok \in BOOLEAN : SetIncreased(c, ok)
  \/ Restart

Spec == Init /\ [][Next]_vars

-----------------------------------------------------------------------------
(* Properties. *)

\* The type of the state.
TypeOK ==
  /\ WalletTypeOK
  /\ op \in [Clients -> {Idle} \union Increase]
  /\ restarts \in 0 .. MaxRestarts
  /\ ledger \in [Users -> Int]
  /\ stale \in SUBSET Clients
  /\ lost \in SUBSET Users
  /\ wrapped \in SUBSET Users
  /\ unsaved \in SUBSET Users

\* Balances are exact, whatever the interleaving of Credit, Refund and Debit,
\* but for the users an increase was set for from a balance that had changed
\* since it was read.
LedgerExact == \A u \in Users \ lost : wallets[u] = ledger[u]

\* No interleaving of debits with increases overdraws a wallet, lost updates
\* included: a negative balance can only come from an addition that wrapped.
NoOverdraft == \A u \in Users \ wrapped : wallets[u] >= 0

\* What a restart forgets has been reported to its caller as an error: a balance
\* differs from the file only while a failed write of that user is not followed
\* by a successful one of anybody's.
ForgetsOnlyErrors == \A u \in Users \ unsaved : walletsFile[u] = wallets[u]

-----------------------------------------------------------------------------
(* The inductive invariant of WalletProofs. *)

\* A balance that has been read is still the wallet's, unless it is stale.
ReadingsFresh ==
  \A c \in Clients \ stale : op[c] # Idle => op[c].current = wallets[op[c].user]

\* Neither what has been read nor what the file holds is negative.
NothingNegative ==
  /\ \A c \in Clients :
       op[c] # Idle /\ op[c].user \notin wrapped => op[c].current >= 0
  /\ \A u \in Users \ wrapped : walletsFile[u] >= 0

WalletInv ==
  /\ TypeOK
  /\ LedgerExact /\ ReadingsFresh
  /\ NoOverdraft /\ NothingNegative
  /\ ForgetsOnlyErrors

=============================================================================
