------------------------------ MODULE Portfolio ------------------------------
(***************************************************************************)
(* What an account tells its owner: cost basis, trade history, cash        *)
(* transactions, and the two analyses computed from them, the FIFO profit  *)
(* of trading_analysis.py and the profit of the leaderboard.  Whether cash *)
(* or shares are locked (AccountService) makes no difference to them.      *)
(***************************************************************************)
EXTENDS Integers, SequencesExt, FiniteSetsExt

CONSTANTS
  Accounts,
  Symbols

VARIABLES
  portfolio,    \* per account: [cash, held, cost, lots, flows]
  lastPrice     \* market_data_cache: the last trade price per symbol, 0 if none

portfolioVars == <<portfolio, lastPrice>>

\* cost is the exact quotient of two integers.
Free == [n |-> 0, d |-> 1]

\* What get_or_create makes; an account that does not exist is such a one.
NewAccount ==
  [cash |-> 0, held |-> [s \in Symbols |-> 0], cost |-> [s \in Symbols |-> Free],
   lots |-> <<>>, flows |-> <<>>]

-----------------------------------------------------------------------------
(* Cash and settlement *)

\* delete_account
DeleteAccount(a) == portfolio' = [portfolio EXCEPT ![a] = NewAccount] /\ UNCHANGED lastPrice

\* A positive amount is deposited, a negative one withdrawn.
CashMoves(a, amount) ==
  /\ portfolio[a].cash + amount >= 0
  /\ portfolio' = [portfolio EXCEPT ![a].cash = @ + amount, ![a].flows = Append(@, amount)]
  /\ UNCHANGED lastPrice

Lot(side, s, price, qty) == [side |-> side, symbol |-> s, price |-> price, qty |-> qty]

\* The buyer's side of a settlement.
Bought(account, s, price, qty) ==
  [account EXCEPT
     !.cash = @ - price * qty,
     !.held[s] = @ + qty,
     !.cost[s] = [n |-> @.n + price * qty * @.d, d |-> @.d],
     !.lots = Append(@, Lot("BUY", s, price, qty))]

\* Mutant of Sold: the proceeds are taken off the cost basis.
SoldAtPrice(account, s, price, qty) ==
  [account EXCEPT
     !.cash = @ + price * qty,
     !.held[s] = @ - qty,
     !.cost[s] = [n |-> @.n - price * qty * @.d, d |-> @.d],
     !.lots = Append(@, Lot("SELL", s, price, qty))]

\* The seller's side: the cost basis shrinks in proportion.
Sold(account, s, price, qty) ==
  LET left == account.held[s] - qty
  IN  [account EXCEPT
         !.cash = @ + price * qty,
         !.held[s] = left,
         !.cost[s] = IF left > 0 THEN [n |-> @.n * left, d |-> @.d * account.held[s]] ELSE Free,
         !.lots = Append(@, Lot("SELL", s, price, qty))]

\* settle_trade, for the order locks it is called with; buyer and seller may be
\* one account.
SettleTrade(buyer, seller, s, price, qty) ==
  /\ portfolio[buyer].cash >= price * qty /\ portfolio[seller].held[s] >= qty
  /\ LET paid == [portfolio EXCEPT ![buyer] = Bought(@, s, price, qty)]
     IN  portfolio' = [paid EXCEPT ![seller] = Sold(@, s, price, qty)]
  /\ UNCHANGED lastPrice

\* settle_market_trade
SettleMarketTrade(a, side, s, price, qty) ==
  /\ \/ side = "BUY" /\ portfolio[a].cash >= price * qty
        /\ portfolio' = [portfolio EXCEPT ![a] = Bought(@, s, price, qty)]
     \/ side = "SELL" /\ portfolio[a].held[s] >= qty
        /\ portfolio' = [portfolio EXCEPT ![a] = Sold(@, s, price, qty)]
  /\ UNCHANGED lastPrice

-----------------------------------------------------------------------------
(* _compute_realized_pnl *)

\* A SELL lot against the queue of its symbol: what is left of each BUY lot, in
\* order, until the lot is used up.
Consume(queue, lot) ==
  LET Take(acc, buy) ==
        LET matched == IF acc.left < buy.qty THEN acc.left ELSE buy.qty
            rest == buy.qty - matched
        IN  [left |-> acc.left - matched,
             profit |-> acc.profit + matched * (lot.price - buy.price),
             queue |-> IF rest = 0 THEN acc.queue
                       ELSE Append(acc.queue, [buy EXCEPT !.qty = rest])]
  IN  FoldLeft(Take, [left |-> lot.qty, profit |-> 0, queue |-> <<>>], queue)

\* Mutant of RealizedProfit: one queue for all symbols.
RealizedProfitOneQueue(lots) ==
  LET Step(acc, lot) ==
        IF lot.side = "BUY"
        THEN [acc EXCEPT !.queue = Append(@, [qty |-> lot.qty, price |-> lot.price])]
        ELSE LET result == Consume(acc.queue, lot)
             IN  [queue |-> result.queue, profit |-> acc.profit + result.profit]
  IN  FoldLeft(Step, [queue |-> <<>>, profit |-> 0], lots).profit

RealizedProfit(lots) ==
  LET Step(acc, lot) ==
        IF lot.side = "BUY"
        THEN [acc EXCEPT !.queues[lot.symbol] =
                           Append(@, [qty |-> lot.qty, price |-> lot.price])]
        ELSE LET result == Consume(acc.queues[lot.symbol], lot)
             IN  [queues |-> [acc.queues EXCEPT ![lot.symbol] = result.queue],
                  profit |-> acc.profit + result.profit]
  IN  FoldLeft(Step, [queues |-> [s \in Symbols |-> <<>>], profit |-> 0], lots).profit

-----------------------------------------------------------------------------
(* compute_leaderboard *)

TotalAssets(a) ==
  portfolio[a].cash
    + MapThenSumSet(LAMBDA s : lastPrice[s] * portfolio[a].held[s], Symbols)

SumSeq(seq) == FoldLeft(+, 0, seq)

Deposits(a) ==
  LET flows == portfolio[a].flows
  IN  SumSeq([i \in DOMAIN flows |-> IF flows[i] > 0 THEN flows[i] ELSE 0])

Profit(a) == IF Deposits(a) > 0 THEN TotalAssets(a) - Deposits(a) ELSE 0

PortfolioInit ==
  /\ portfolio = [a \in Accounts |-> NewAccount]
  /\ lastPrice = [s \in Symbols |-> 0]
=============================================================================
