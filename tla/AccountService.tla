---------------------------- MODULE AccountService ----------------------------
(***************************************************************************)
(* The accounts: cash and positions, each split in an available and a      *)
(* locked part, and the per-order lock records.  The operations are those  *)
(* of AccountService and Account.  Amounts are integers (the code uses     *)
(* Decimal without rounding here); cost basis and histories are left out.  *)
(* An account that does not exist is an account with nothing in it: every  *)
(* operation of the code starts with get_or_create.                        *)
(***************************************************************************)
EXTENDS Common

CONSTANTS
  InitialCash,    \* what was deposited before the behaviour starts
  InitialShares   \* InitialShares[a, s]: positions from earlier AccountUpdated events

VARIABLES
  cashAvailable,
  cashLocked,
  qtyAvailable,   \* qtyAvailable[a, s]: Position.qty_available
  qtyLocked,
  locks           \* the _order_locks of all accounts, by order id

accountVars == <<cashAvailable, cashLocked, qtyAvailable, qtyLocked, locks>>

Locks == [account : Accounts, side : Sides, symbol : Symbols,
          cash : Int, qty : Int]

ASSUME AccountAssumption ==
  /\ InitialCash \in Nat
  /\ InitialShares \in [Accounts \X Symbols -> Nat]

AccountTypeOK ==
  /\ cashAvailable \in [Accounts -> Int]
  /\ cashLocked \in [Accounts -> Int]
  /\ qtyAvailable \in [Accounts \X Symbols -> Int]
  /\ qtyLocked \in [Accounts \X Symbols -> Int]
  /\ DOMAIN locks \subseteq OrderIds
  /\ locks \in [DOMAIN locks -> Locks]

\* Accounts after a seed or a replay, with no order open.
AccountInit ==
  /\ cashAvailable = [a \in Accounts |-> InitialCash]
  /\ cashLocked = [a \in Accounts |-> 0]
  /\ qtyAvailable = InitialShares
  /\ qtyLocked = [p \in Accounts \X Symbols |-> 0]
  /\ locks = <<>>

HasLock(o) == o \in DOMAIN locks

-----------------------------------------------------------------------------
\* deposit and withdraw.
DepositCash(a, amount) ==
  /\ cashAvailable' = [cashAvailable EXCEPT ![a] = @ + amount]
  /\ UNCHANGED <<cashLocked, qtyAvailable, qtyLocked, locks>>

WithdrawCash(a, amount) ==
  /\ cashAvailable[a] >= amount
  /\ cashAvailable' = [cashAvailable EXCEPT ![a] = @ - amount]
  /\ UNCHANGED <<cashLocked, qtyAvailable, qtyLocked, locks>>

\* Mutant of CanLock: the cost of one share instead of qty shares.
CanLockOneShare(a, s, side, qty, price) ==
  IF side = "BUY"
  THEN price # NoPrice /\ cashAvailable[a] >= price
  ELSE qtyAvailable[<<a, s>>] >= 1

\* lock_funds raises (Insufficient*) exactly when this is false.
CanLock(a, s, side, qty, price) ==
  IF side = "BUY"
  THEN price # NoPrice /\ cashAvailable[a] >= price * qty
  ELSE qtyAvailable[<<a, s>>] >= qty

LockFunds(a, o, s, side, qty, price) ==
  LET cost == IF side = "BUY" THEN price * qty ELSE 0
      shares == IF side = "BUY" THEN 0 ELSE qty
  IN  /\ CanLock(a, s, side, qty, price)
      /\ cashAvailable' = [cashAvailable EXCEPT ![a] = @ - cost]
      /\ cashLocked' = [cashLocked EXCEPT ![a] = @ + cost]
      /\ qtyAvailable' = [qtyAvailable EXCEPT ![<<a, s>>] = @ - shares]
      /\ qtyLocked' = [qtyLocked EXCEPT ![<<a, s>>] = @ + shares]
      /\ locks' = Put(locks, o, [account |-> a, side |-> side, symbol |-> s,
                                     cash |-> cost, qty |-> qty])

\* Mutant of UnlockFunds: the shares of a SELL are not given back.
UnlockFundsCashOnly(o) ==
  IF ~HasLock(o) THEN UNCHANGED accountVars
  ELSE LET lock == locks[o]
           shares == IF lock.side = "BUY" THEN 0 ELSE lock.qty
           cash == IF lock.side = "BUY" THEN lock.cash ELSE 0
       IN  /\ cashLocked' = [cashLocked EXCEPT ![lock.account] = @ - cash]
           /\ cashAvailable' = [cashAvailable EXCEPT ![lock.account] = @ + cash]
           /\ qtyLocked' = [qtyLocked EXCEPT ![<<lock.account, lock.symbol>>] = @ - shares]
           /\ locks' = Drop(locks, o)
           /\ UNCHANGED qtyAvailable

\* unlock_funds: gives back what the lock record says, nothing without one.
UnlockFunds(o) ==
  IF ~HasLock(o) THEN UNCHANGED accountVars
  ELSE LET lock == locks[o]
           shares == IF lock.side = "BUY" THEN 0 ELSE lock.qty
           cash == IF lock.side = "BUY" THEN lock.cash ELSE 0
       IN  /\ cashLocked' = [cashLocked EXCEPT ![lock.account] = @ - cash]
           /\ cashAvailable' = [cashAvailable EXCEPT ![lock.account] = @ + cash]
           /\ qtyLocked' = [qtyLocked EXCEPT ![<<lock.account, lock.symbol>>] = @ - shares]
           /\ qtyAvailable' = [qtyAvailable EXCEPT ![<<lock.account, lock.symbol>>] = @ + shares]
           /\ locks' = Drop(locks, o)

\* Mutants of ReduceLock: the record is never reduced; it is dropped as soon
\* as one of its parts is used up.
ReduceLockNever(f, o, cash, qty) == f

ReduceLockDroppingEarly(f, o, cash, qty) ==
  IF o \notin DOMAIN f THEN f
  ELSE IF f[o].cash - cash <= 0 \/ f[o].qty - qty <= 0 THEN Drop(f, o)
  ELSE [f EXCEPT ![o].cash = @ - cash, ![o].qty = @ - qty]

\* _reduce_order_lock: the record is dropped only when neither part is left.
ReduceLock(f, o, cash, qty) ==
  IF o \notin DOMAIN f THEN f
  ELSE IF f[o].cash - cash <= 0 /\ f[o].qty - qty <= 0 THEN Drop(f, o)
  ELSE [f EXCEPT ![o].cash = @ - cash, ![o].qty = @ - qty]

\* Mutant of SettleTrade: the seller is paid for one share.
SettleTradeOneShare(buyer, seller, buy, sell, s, price, qty) ==
  LET cost == price * qty
  IN  /\ cashLocked' = [cashLocked EXCEPT ![buyer] = @ - cost]
      /\ cashAvailable' = [cashAvailable EXCEPT ![seller] = @ + price]
      /\ qtyLocked' = [qtyLocked EXCEPT ![<<seller, s>>] = @ - qty]
      /\ qtyAvailable' = [qtyAvailable EXCEPT ![<<buyer, s>>] = @ + qty]
      /\ locks' = ReduceLock(ReduceLock(locks, buy, cost, 0), sell, 0, qty)

\* settle_trade: the buyer's locked cash becomes the seller's available cash,
\* the seller's locked shares the buyer's available shares.
SettleTrade(buyer, seller, buy, sell, s, price, qty) ==
  LET cost == price * qty
  IN  /\ cashLocked' = [cashLocked EXCEPT ![buyer] = @ - cost]
      /\ cashAvailable' = [cashAvailable EXCEPT ![seller] = @ + cost]
      /\ qtyLocked' = [qtyLocked EXCEPT ![<<seller, s>>] = @ - qty]
      /\ qtyAvailable' = [qtyAvailable EXCEPT ![<<buyer, s>>] = @ + qty]
      /\ locks' = ReduceLock(ReduceLock(locks, buy, cost, 0), sell, 0, qty)

\* Mutant of SettleMarketTrade: the lock stays.
SettleMarketTradeKeepingLock(a, o, s, side, price, qty) ==
  LET cost == price * qty
      surplus == IF HasLock(o) THEN locks[o].cash - cost ELSE 0
      excess == IF surplus > 0 THEN surplus ELSE 0
  IN  /\ IF side = "BUY"
         THEN /\ cashLocked' = [cashLocked EXCEPT ![a] = @ - cost - excess]
              /\ cashAvailable' = [cashAvailable EXCEPT ![a] = @ + excess]
              /\ qtyAvailable' = [qtyAvailable EXCEPT ![<<a, s>>] = @ + qty]
              /\ UNCHANGED qtyLocked
         ELSE /\ cashAvailable' = [cashAvailable EXCEPT ![a] = @ + cost]
              /\ qtyLocked' = [qtyLocked EXCEPT ![<<a, s>>] = @ - qty]
              /\ UNCHANGED <<cashLocked, qtyAvailable>>
      /\ UNCHANGED locks

\* settle_market_trade: the counterparty is the market.  A buyer gets back
\* what the lock holds beyond the cost, and the lock record goes.
SettleMarketTrade(a, o, s, side, price, qty) ==
  LET cost == price * qty
      surplus == IF HasLock(o) THEN locks[o].cash - cost ELSE 0
      excess == IF surplus > 0 THEN surplus ELSE 0
  IN  /\ IF side = "BUY"
         THEN /\ cashLocked' = [cashLocked EXCEPT ![a] = @ - cost - excess]
              /\ cashAvailable' = [cashAvailable EXCEPT ![a] = @ + excess]
              /\ qtyAvailable' = [qtyAvailable EXCEPT ![<<a, s>>] = @ + qty]
              /\ UNCHANGED qtyLocked
         ELSE /\ cashAvailable' = [cashAvailable EXCEPT ![a] = @ + cost]
              /\ qtyLocked' = [qtyLocked EXCEPT ![<<a, s>>] = @ - qty]
              /\ UNCHANGED <<cashLocked, qtyAvailable>>
      /\ locks' = Drop(locks, o)

\* Mutant of DeleteAccount: the locks of all accounts are cleared.
DeleteAccountAllLocks(a) ==
  /\ cashAvailable' = [cashAvailable EXCEPT ![a] = 0]
  /\ cashLocked' = [cashLocked EXCEPT ![a] = 0]
  /\ qtyAvailable' = [p \in Accounts \X Symbols |-> IF p[1] = a THEN 0 ELSE qtyAvailable[p]]
  /\ qtyLocked' = [p \in Accounts \X Symbols |-> IF p[1] = a THEN 0 ELSE qtyLocked[p]]
  /\ locks' = <<>>

\* delete_account: cash, positions and locks are gone; the next get_or_create
\* starts from nothing.
DeleteAccount(a) ==
  /\ cashAvailable' = [cashAvailable EXCEPT ![a] = 0]
  /\ cashLocked' = [cashLocked EXCEPT ![a] = 0]
  /\ qtyAvailable' = [p \in Accounts \X Symbols |-> IF p[1] = a THEN 0 ELSE qtyAvailable[p]]
  /\ qtyLocked' = [p \in Accounts \X Symbols |-> IF p[1] = a THEN 0 ELSE qtyLocked[p]]
  /\ locks' = Restrict(locks, { o \in DOMAIN locks : locks[o].account # a })
=============================================================================
