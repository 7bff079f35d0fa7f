----------------------------- MODULE WalletProofs -----------------------------
(***************************************************************************)
(* Proofs about Wallet, for any users, goroutines, amounts and width of    *)
(* the balances.  WalletInv is the inductive invariant: a wallet is as the *)
(* account says because a balance read and not stale is still the          *)
(* wallet's, and not negative because nothing that was read is.            *)
(***************************************************************************)
EXTENDS Wallet, TLAPS

\* Balances are closed under the additions of positive amounts, which give a
\* positive balance unless they wrap.
LEMMA AddFacts ==
  ASSUME NEW x \in Balances, NEW amount \in Amounts
  PROVE  /\ AddInt64(x, amount) \in Balances
         /\ x >= 0 /\ ~(x + amount > MaxInt) => AddInt64(x, amount) >= 0
  BY WalletStoreAssumption, WalletAssumption DEF AddInt64, Balances

\* A debit that is covered leaves a balance that is not negative.
LEMMA DebitFacts ==
  ASSUME NEW x \in Balances, NEW amount \in Amounts, x >= amount
  PROVE  x - amount \in Balances /\ x - amount >= 0
  BY WalletStoreAssumption, WalletAssumption DEF Balances

\* A client that is not idle holds a request.
LEMMA BusyFacts ==
  ASSUME TypeOK, NEW c \in Clients, op[c] # Idle
  PROVE  /\ op[c] \in Increase
         /\ op[c].user \in Users /\ op[c].amount \in Amounts /\ op[c].current \in Balances
  BY DEF TypeOK, Increase

\* The tables, the file and the counter of failures after an Exec that set the
\* balance of u.
LEMMA ExecFacts ==
  ASSUME WalletTypeOK, NEW u \in Users, NEW balance \in Balances, NEW ok \in BOOLEAN,
         wallets' = [wallets EXCEPT ![u] = balance], PersistWallets(ok)
  PROVE  /\ WalletTypeOK'
         /\ wallets'[u] = balance
         /\ \A v \in Users \ {u} : wallets'[v] = wallets[v]
         /\ walletsFile' = wallets' \/ (walletsFile' = walletsFile /\ ~ok)
<1>1. wallets' \in [Users -> Balances]
  BY DEF WalletTypeOK
<1>2. walletsFile' = wallets' \/ (walletsFile' = walletsFile /\ ~ok)
  BY DEF PersistWallets
<1>3. ioFailures' \in 0 .. MaxIOFailures
  BY WalletStoreAssumption DEF PersistWallets, WalletTypeOK
<1> QED
  BY <1>1, <1>2, <1>3 DEF WalletTypeOK

\* Init gives the invariant.
LEMMA InitInv == Init => WalletInv
<1> SUFFICES ASSUME Init PROVE WalletInv
  OBVIOUS
<1>1. wallets = InitialWallets /\ walletsFile = InitialWallets /\ ledger = InitialWallets
  BY DEF Init, WalletInit
<1>2. \A c \in Clients : op[c] = Idle
  BY DEF Init
<1>3. TypeOK
  <2>1. WalletTypeOK
    BY WalletStoreAssumption DEF Init, WalletInit, WalletTypeOK
  <2>2. ledger \in [Users -> Int]
    BY <1>1, WalletStoreAssumption DEF Balances
  <2>3. op \in [Clients -> {Idle} \union Increase] /\ restarts \in 0 .. MaxRestarts
    BY WalletAssumption DEF Init
  <2>4. stale = {} /\ lost = {} /\ wrapped = {} /\ unsaved = {}
    BY DEF Init
  <2> QED
    BY <2>1, <2>2, <2>3, <2>4 DEF TypeOK
<1>4. LedgerExact /\ NoOverdraft /\ ForgetsOnlyErrors
  BY <1>1, WalletAssumption DEF LedgerExact, NoOverdraft, ForgetsOnlyErrors
<1>5. ReadingsFresh /\ NothingNegative
  BY <1>1, <1>2, WalletAssumption DEF ReadingsFresh, NothingNegative
<1> QED
  BY <1>3, <1>4, <1>5 DEF WalletInv

\* Reading a balance preserves the invariant.
LEMMA ReadInv ==
  ASSUME WalletInv, NEW c \in Clients, NEW u \in Users, NEW amount \in Amounts,
         ReadBalance(c, u, amount)
  PROVE  WalletInv'
<1> DEFINE request == [user |-> u, amount |-> amount, current |-> wallets[u]]
<1>1. /\ op' = [op EXCEPT ![c] = request]
      /\ UNCHANGED <<walletVars, restarts, historyVars>>
  BY DEF ReadBalance, GetBalance
<1>2. request \in Increase
  BY DEF WalletInv, TypeOK, WalletTypeOK, Increase
<1>3. request.user = u /\ request.current = wallets[u]
  OBVIOUS
<1> HIDE DEF request
<1>4. TypeOK'
  BY <1>1, <1>2 DEF WalletInv, TypeOK, WalletTypeOK, walletVars, historyVars
<1>5. LedgerExact' /\ NoOverdraft' /\ ForgetsOnlyErrors'
  BY <1>1 DEF WalletInv, LedgerExact, NoOverdraft, ForgetsOnlyErrors, walletVars, historyVars
<1>6. /\ op'[c] = request
      /\ \A d \in Clients \ {c} : op'[d] = op[d]
  BY <1>1 DEF WalletInv, TypeOK
<1>7. ReadingsFresh'
  BY <1>1, <1>3, <1>6 DEF WalletInv, ReadingsFresh, walletVars, historyVars
<1>8. NothingNegative'
  BY <1>1, <1>3, <1>6
     DEF WalletInv, NoOverdraft, NothingNegative, walletVars, historyVars
<1> QED
  BY <1>4, <1>5, <1>7, <1>8 DEF WalletInv

\* Setting the increased balance preserves the invariant: the balance that was
\* read is the wallet's, or the update is counted as lost.
LEMMA SetInv ==
  ASSUME WalletInv, NEW c \in Clients, NEW ok \in BOOLEAN, SetIncreased(c, ok)
  PROVE  WalletInv'
<1> DEFINE u == op[c].user
           amount == op[c].amount
           balance == AddInt64(op[c].current, amount)
<1>1. /\ op[c] # Idle
      /\ wallets' = [wallets EXCEPT ![u] = balance]
      /\ PersistWallets(ok)
      /\ op' = [op EXCEPT ![c] = Idle]
      /\ stale' = (stale \ {c}) \union Readers(u, c)
      /\ lost' = IF c \in stale THEN lost \union {u} ELSE lost
      /\ Counted(u, AddInt64(ledger[u], amount))
      /\ wrapped' = IF op[c].current + amount > MaxInt THEN wrapped \union {u} ELSE wrapped
      /\ Recorded(u, ok)
      /\ restarts' = restarts
  BY DEF SetIncreased, SetBalance
<1>2. /\ u \in Users /\ amount \in Amounts /\ op[c].current \in Balances
  BY <1>1, BusyFacts DEF WalletInv
<1>3. balance \in Balances
  BY <1>2, AddFacts
<1>4. u \notin wrapped' => balance >= 0
  <2> SUFFICES ASSUME u \notin wrapped' PROVE balance >= 0
    OBVIOUS
  <2>1. u \notin wrapped /\ ~(op[c].current + amount > MaxInt)
    BY <1>1
  <2>2. op[c].current >= 0
    BY <1>1, <2>1 DEF WalletInv, NothingNegative
  <2> QED
    BY <1>2, <2>1, <2>2, AddFacts
<1>5. c \notin stale => op[c].current = wallets[u]
  BY <1>1 DEF WalletInv, ReadingsFresh
<1>6. wrapped \subseteq wrapped' /\ lost \subseteq lost' /\ Readers(u, c) \subseteq stale'
  BY <1>1
<1> HIDE DEF balance
<1>7. /\ WalletTypeOK'
      /\ wallets'[u] = balance
      /\ \A v \in Users \ {u} : wallets'[v] = wallets[v]
      /\ walletsFile' = wallets' \/ (walletsFile' = walletsFile /\ ~ok)
  BY <1>1, <1>2, <1>3, ExecFacts DEF WalletInv, TypeOK
<1>8. /\ op'[c] = Idle
      /\ \A d \in Clients \ {c} : op'[d] = op[d]
      /\ op' \in [Clients -> {Idle} \union Increase]
  BY <1>1 DEF WalletInv, TypeOK
<1>9. TypeOK'
  <2>1. ledger' \in [Users -> Int]
    <3>1. AddInt64(ledger[u], amount) \in Int
      <4> HIDE DEF u, amount
      <4>1. ledger[u] \in Int
        BY <1>2 DEF WalletInv, TypeOK
      <4>2. amount \in Int /\ MaxInt \in Int
        BY <1>2, WalletAssumption, WalletStoreAssumption
      <4> QED
        BY <4>1, <4>2 DEF AddInt64
    <3> QED
      BY <1>1, <1>2, <3>1 DEF WalletInv, TypeOK, Counted
  <2>2. /\ stale' \in SUBSET Clients /\ lost' \in SUBSET Users
        /\ wrapped' \in SUBSET Users /\ unsaved' \in SUBSET Users
    BY <1>1, <1>2 DEF WalletInv, TypeOK, Readers, Recorded
  <2> QED
    BY <1>1, <1>7, <1>8, <2>1, <2>2 DEF WalletInv, TypeOK
<1>10. LedgerExact'
  <2> SUFFICES ASSUME NEW v \in Users, v \notin lost' PROVE wallets'[v] = ledger'[v]
    BY DEF LedgerExact
  <2>1. v \notin lost /\ wallets[v] = ledger[v]
    BY <1>6 DEF WalletInv, LedgerExact
  <2>2. CASE v = u
    <3>1. c \notin stale /\ balance = AddInt64(wallets[u], amount)
      BY <1>1, <1>5, <2>2 DEF balance
    <3>2. ledger' = [ledger EXCEPT ![u] = AddInt64(ledger[u], amount)]
      BY <1>1, <2>2 DEF Counted
    <3> QED
      BY <1>7, <2>1, <2>2, <3>1, <3>2 DEF WalletInv, TypeOK
  <2>3. CASE v # u
    <3>1. ledger'[v] = ledger[v]
      BY <1>1, <2>3 DEF Counted, WalletInv, TypeOK
    <3> QED
      BY <1>7, <2>1, <2>3, <3>1
  <2> QED
    BY <2>2, <2>3
<1>11. ReadingsFresh'
  <2> SUFFICES ASSUME NEW d \in Clients, d \notin stale', op'[d] # Idle
               PROVE  op'[d].current = wallets'[op'[d].user]
    BY DEF ReadingsFresh
  <2>1. d # c /\ op'[d] = op[d] /\ d \notin stale /\ d \notin Readers(u, c)
    BY <1>1, <1>6, <1>8
  <2>2. op[d] # Idle /\ op[d].user # u
    BY <2>1 DEF Readers
  <2>3. op[d].user \in Users
    BY <2>2, BusyFacts DEF WalletInv
  <2> QED
    BY <1>7, <2>1, <2>2, <2>3 DEF WalletInv, ReadingsFresh
<1>12. NoOverdraft'
  BY <1>4, <1>6, <1>7 DEF WalletInv, NoOverdraft
<1>13. NothingNegative'
  <2>1. \A d \in Clients :
          op'[d] # Idle /\ op'[d].user \notin wrapped' => op'[d].current >= 0
    BY <1>6, <1>8 DEF WalletInv, NothingNegative
  <2>2. \A v \in Users \ wrapped' : walletsFile'[v] >= 0
    BY <1>6, <1>7, <1>12 DEF WalletInv, NothingNegative, NoOverdraft
  <2> QED
    BY <2>1, <2>2 DEF NothingNegative
<1>14. ForgetsOnlyErrors'
  BY <1>1, <1>7 DEF WalletInv, ForgetsOnlyErrors, Recorded
<1> QED
  BY <1>9, <1>10, <1>11, <1>12, <1>13, <1>14 DEF WalletInv

\* A debit preserves the invariant: it is counted, and those who hold a balance
\* of the user become stale.
LEMMA DebitInv ==
  ASSUME WalletInv, NEW c \in Clients, NEW u \in Users, NEW amount \in Amounts,
         NEW ok \in BOOLEAN, Debit(c, u, amount, ok)
  PROVE  WalletInv'
<1> DEFINE balance == wallets[u] - amount
<1>1. /\ op[c] = Idle
      /\ wallets[u] >= amount
      /\ wallets' = [wallets EXCEPT ![u] = balance]
      /\ PersistWallets(ok)
      /\ stale' = stale \union Readers(u, c)
      /\ op' = op /\ restarts' = restarts /\ lost' = lost /\ wrapped' = wrapped
      /\ Counted(u, ledger[u] - amount)
      /\ Recorded(u, ok)
  BY DEF Debit, DebitBalance, SufficientFunds
<1>2. balance \in Balances /\ balance >= 0
  BY <1>1, DebitFacts DEF WalletInv, TypeOK, WalletTypeOK
<1> HIDE DEF balance
<1>3. /\ WalletTypeOK'
      /\ wallets'[u] = balance
      /\ \A v \in Users \ {u} : wallets'[v] = wallets[v]
      /\ walletsFile' = wallets' \/ (walletsFile' = walletsFile /\ ~ok)
  BY <1>1, <1>2, ExecFacts DEF WalletInv, TypeOK
<1>4. TypeOK'
  <2>1. ledger' \in [Users -> Int]
    <3>1. ledger[u] - amount \in Int
      BY WalletAssumption, WalletStoreAssumption DEF WalletInv, TypeOK
    <3> QED
      BY <1>1, <3>1 DEF WalletInv, TypeOK, Counted
  <2>2. stale' \in SUBSET Clients /\ unsaved' \in SUBSET Users
    BY <1>1 DEF WalletInv, TypeOK, Readers, Recorded
  <2> QED
    BY <1>1, <1>3, <2>1, <2>2 DEF WalletInv, TypeOK
<1>5. LedgerExact'
  <2> SUFFICES ASSUME NEW v \in Users, v \notin lost PROVE wallets'[v] = ledger'[v]
    BY <1>1 DEF LedgerExact
  <2>1. wallets[v] = ledger[v]
    BY DEF WalletInv, LedgerExact
  <2>2. CASE v = u
    <3>1. ledger'[u] = ledger[u] - amount
      BY <1>1, <2>2 DEF Counted, WalletInv, TypeOK
    <3> QED
      BY <1>3, <2>1, <2>2, <3>1 DEF balance
  <2>3. CASE v # u
    <3>1. ledger'[v] = ledger[v]
      BY <1>1, <2>3 DEF Counted, WalletInv, TypeOK
    <3> QED
      BY <1>3, <2>1, <2>3, <3>1
  <2> QED
    BY <2>2, <2>3
<1>6. ReadingsFresh'
  <2> SUFFICES ASSUME NEW d \in Clients, d \notin stale', op[d] # Idle
               PROVE  op[d].current = wallets'[op[d].user]
    BY <1>1 DEF ReadingsFresh
  <2>1. d \notin stale /\ d \notin Readers(u, c) /\ d # c
    BY <1>1
  <2>2. op[d].user # u /\ op[d].user \in Users
    BY <2>1, BusyFacts DEF Readers, WalletInv
  <2> QED
    BY <1>3, <2>1, <2>2 DEF WalletInv, ReadingsFresh
<1>7. NoOverdraft'
  BY <1>1, <1>2, <1>3 DEF WalletInv, NoOverdraft
<1>8. NothingNegative'
  BY <1>1, <1>3, <1>7 DEF WalletInv, NothingNegative, NoOverdraft
<1>9. ForgetsOnlyErrors'
  BY <1>1, <1>3 DEF WalletInv, ForgetsOnlyErrors, Recorded
<1> QED
  BY <1>4, <1>5, <1>6, <1>7, <1>8, <1>9 DEF WalletInv

\* A restart preserves the invariant: the account starts again from the file,
\* which is not negative.
LEMMA RestartInv == ASSUME WalletInv, Restart PROVE WalletInv'
<1>1. /\ wallets' = walletsFile /\ walletsFile' = walletsFile /\ ledger' = walletsFile
      /\ ioFailures' = ioFailures /\ wrapped' = wrapped
      /\ stale' = {} /\ lost' = {} /\ unsaved' = {}
      /\ \A c \in Clients : op'[c] = Idle
  BY DEF Restart
<1>2. TypeOK'
  <2>1. WalletTypeOK'
    BY <1>1 DEF WalletInv, TypeOK, WalletTypeOK
  <2>2. ledger' \in [Users -> Int]
    BY <1>1, WalletStoreAssumption DEF WalletInv, TypeOK, WalletTypeOK, Balances
  <2>3. op' \in [Clients -> {Idle} \union Increase] /\ restarts' \in 0 .. MaxRestarts
    BY WalletAssumption DEF Restart, WalletInv, TypeOK
  <2> QED
    BY <1>1, <2>1, <2>2, <2>3 DEF WalletInv, TypeOK
<1>3. LedgerExact' /\ NoOverdraft' /\ ForgetsOnlyErrors'
  BY <1>1 DEF WalletInv, LedgerExact, NoOverdraft, NothingNegative, ForgetsOnlyErrors
<1>4. ReadingsFresh' /\ NothingNegative'
  BY <1>1 DEF WalletInv, ReadingsFresh, NothingNegative
<1> QED
  BY <1>2, <1>3, <1>4 DEF WalletInv

\* Every step preserves the invariant.
LEMMA NextInv == WalletInv /\ [Next]_vars => WalletInv'
<1> SUFFICES ASSUME WalletInv, [Next]_vars PROVE WalletInv'
  OBVIOUS
<1>1. CASE UNCHANGED vars
  BY <1>1 DEF vars, walletVars, historyVars, WalletInv, TypeOK, WalletTypeOK,
     LedgerExact, ReadingsFresh, NoOverdraft, NothingNegative, ForgetsOnlyErrors
<1>2. CASE Next
  BY <1>2, ReadInv, SetInv, DebitInv, RestartInv DEF Next
<1> QED
  BY <1>1, <1>2

\* The invariant holds in every reachable state.
LEMMA Invariance == Spec => []WalletInv
  BY InitInv, NextInv, PTL DEF Spec

\* Balances stay within the width of their type.
THEOREM WalletTypeCorrect == Spec => []TypeOK
<1>1. WalletInv => TypeOK
  BY DEF WalletInv
<1> QED
  BY <1>1, Invariance, PTL

\* Credit, Refund and Debit of any number of goroutines lose nothing of a user
\* unless an increase was set from a balance that had changed since it was read.
THEOREM WalletLedgerExact == Spec => []LedgerExact
<1>1. WalletInv => LedgerExact
  BY DEF WalletInv
<1> QED
  BY <1>1, Invariance, PTL

\* No interleaving, failed write or restart overdraws a wallet: only an addition
\* that wraps does.
THEOREM WalletNeverOverdrawn == Spec => []NoOverdraft
<1>1. WalletInv => NoOverdraft
  BY DEF WalletInv
<1> QED
  BY <1>1, Invariance, PTL

\* A restart forgets only updates whose caller got an error.
THEOREM RestartForgetsOnlyErrors == Spec => []ForgetsOnlyErrors
<1>1. WalletInv => ForgetsOnlyErrors
  BY DEF WalletInv
<1> QED
  BY <1>1, Invariance, PTL

=============================================================================
