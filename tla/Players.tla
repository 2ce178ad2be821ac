------------------------------- MODULE Players -------------------------------
(***************************************************************************)
(* The handlers that act on users and on what their accounts tell them.    *)
(* Each runs to its end, or to the exception of a failed save, before the  *)
(* next one starts.  How an account comes back with a start is Recovery's  *)
(* subject; here it is as it was.                                          *)
(***************************************************************************)
EXTENDS UserDirectory, Portfolio

CONSTANTS
  Prices, Qtys, \* of trades
  LastPrices,   \* of the market
  Amounts,      \* of deposits and withdrawals
  MaxUsers,     \* bound: how many there are at once
  MaxLots,      \* bound on the trade histories together
  MaxFlows      \* bound on its deposits and withdrawals

\* An account has the id of its user; its positions are a dictionary; quantities and
\* amounts are positive (schemas.py).
ASSUME PlayersAssumption ==
  /\ Accounts = Ids
  /\ IsFiniteSet(Symbols)
  /\ Prices \subseteq Nat /\ LastPrices \subseteq Nat
  /\ Qtys \subseteq Nat \ {0} /\ Amounts \subseteq Nat \ {0}

playersVars == <<directoryVars, portfolioVars>>

Init == DirectoryInit /\ PortfolioInit

-----------------------------------------------------------------------------
(* Users *)

\* create_user
CreateUser(id, name, ending) ==
  /\ up /\ Len(users) < MaxUsers
  /\ Add(id, name, ending)
  /\ UNCHANGED portfolioVars

\* update_user with a name
RenameUser(id, name, ending) ==
  /\ up
  /\ Rename(id, name, ending)
  /\ UNCHANGED portfolioVars

\* update_user without, admin_reset_password, change_password
ChangeUser(id, profile, ending) ==
  /\ up
  /\ ChangeProfile(id, profile, ending)
  /\ UNCHANGED portfolioVars

\* delete_user: the directory first, and then, if it was saved, the account.
DeleteUser(id, ending) ==
  /\ up
  /\ Delete(id, ending)
  /\ IF ending = "saved" THEN DeleteAccount(id) ELSE UNCHANGED portfolioVars

StartProcess(id, ending) ==
  /\ portfolio[id] = NewAccount
  /\ Start(id, ending)
  /\ UNCHANGED portfolioVars

ProcessDies == Die /\ UNCHANGED portfolioVars

-----------------------------------------------------------------------------
(* Their money *)

MayAct(id) == up /\ id \in IdsOf(users) /\ User(id).profile = "active"

\* deposit, withdraw
MovesCash(a, amount) ==
  /\ MayAct(a)
  /\ Len(portfolio[a].flows) < MaxFlows
  /\ CashMoves(a, amount)
  /\ UNCHANGED directoryVars

Lots == MapThenSumSet(LAMBDA a : Len(portfolio[a].lots), Ids)

TradesBetween(buyer, seller, s, price, qty) ==
  /\ up /\ Lots + 1 < MaxLots
  /\ SettleTrade(buyer, seller, s, price, qty)
  /\ UNCHANGED directoryVars

TradesWithMarket(a, side, s, price, qty) ==
  /\ up /\ Lots < MaxLots
  /\ SettleMarketTrade(a, side, s, price, qty)
  /\ UNCHANGED directoryVars

PriceMoves(s, price) ==
  /\ up
  /\ lastPrice' = [lastPrice EXCEPT ![s] = price]
  /\ UNCHANGED <<directoryVars, portfolio>>

-----------------------------------------------------------------------------
UserNext ==
  \/ \E id \in Ids, ending \in Endings :
       \/ \E name \in Names : CreateUser(id, name, ending) \/ RenameUser(id, name, ending)
       \/ \E profile \in Profiles : ChangeUser(id, profile, ending)
       \/ DeleteUser(id, ending)
       \/ StartProcess(id, ending)
  \/ ProcessDies

MoneyNext ==
  \/ \E a \in Ids, amount \in Amounts : MovesCash(a, amount) \/ MovesCash(a, -amount)
  \/ \E a, b \in Ids, s \in Symbols, price \in Prices, qty \in Qtys :
       \/ TradesBetween(a, b, s, price, qty)
       \/ \E side \in {"BUY", "SELL"} : TradesWithMarket(a, side, s, price, qty)
  \/ \E s \in Symbols, price \in LastPrices : PriceMoves(s, price)

Next == UserNext \/ MoneyNext

Spec == Init /\ [][Next]_playersVars

-----------------------------------------------------------------------------
\* Every user is there after a restart as the last process knew them, in the same
\* order, unless its last save failed or was cut short: every change of a user is
\* saved with all the others.  An administrator may be added.
UsersSurvive ==
  [][ ~up /\ up' /\ ~unsaved =>
        \/ users' = users
        \/ users' = Append(users, Last(users')) /\ Last(users').name = "admin" ]_playersVars

\* A name finds only a user who has had it since the process started, and a user
\* whose name was never changed, and never anybody else's, is found by it.  The
\* index is not kept in step with renames (user_model.py:69), so more cannot be
\* said while the process runs.
NamesResolve ==
  up =>
    /\ \A n \in Names : GetByUsername(n) # NoUser => n \in held[GetByUsername(n)]
    /\ \A u \in Range(users) :
         (\A id \in DOMAIN held : u.name \in held[id] <=> id = u.id) /\ held[u.id] = {u.name}
           => GetByUsername(u.name) = u.id

\* The prices of the shares of s that lots of this side moved, one by one.
ShareByShare(lots, side, s) ==
  FlattenSeq([i \in DOMAIN lots |->
                IF lots[i].side = side /\ lots[i].symbol = s
                THEN [k \in 1..lots[i].qty |-> lots[i].price] ELSE <<>>])

\* The profit on the leaderboard is what was realized, first in first out, plus
\* what the shares still held have gained, minus what was withdrawn:
\* _compute_realized_pnl, the settlements and compute_leaderboard reach it by
\* three ways.  (Withdrawals count as losses: account.py:510 subtracts deposits
\* only.)
LeaderboardAddsUp ==
  \A a \in Ids :
    LET lots == portfolio[a].lots
        Gain(s) ==
          LET bought == ShareByShare(lots, "BUY", s)
              sold == Len(ShareByShare(lots, "SELL", s))
          IN  SumSeq([k \in 1 .. Len(bought) - sold |-> lastPrice[s] - bought[sold + k]])
        flows == portfolio[a].flows
        withdrawn == SumSeq([i \in DOMAIN flows |-> IF flows[i] < 0 THEN flows[i] ELSE 0])
    IN  Deposits(a) > 0 =>
          Profit(a) = RealizedProfit(lots) + MapThenSumSet(Gain, Symbols) + withdrawn

\* The lots since the position was last flat.
SinceFlat(lots, s) ==
  LET Moved(side, i) == Len(ShareByShare(SubSeq(lots, 1, i), side, s))
      flat == Max({i \in 0..Len(lots) : Moved("BUY", i) = Moved("SELL", i)})
  IN  SubSeq(lots, flat + 1, Len(lots))

\* The average cost of a position lies between the lowest and the highest price
\* paid since it was last flat, whatever was sold since then and at what price,
\* and a flat position has cost nothing.
CostBasisInRange ==
  \A a \in Ids, s \in Symbols :
    LET shares == portfolio[a].held[s]
        cost == portfolio[a].cost[s]
        paid == Range(ShareByShare(SinceFlat(portfolio[a].lots, s), "BUY", s))
    IN  IF shares = 0 THEN cost.n = 0
        ELSE /\ Min(paid) * shares * cost.d <= cost.n
             /\ cost.n <= Max(paid) * shares * cost.d
=============================================================================
