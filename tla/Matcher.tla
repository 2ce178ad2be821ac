------------------------------- MODULE Matcher -------------------------------
(***************************************************************************)
(* The matching engine on its own, called in any order with any arguments: *)
(* the time stamps need not follow the order of arrival, because the       *)
(* engine takes whatever its caller passes.  The lists of the engine are   *)
(* shown to implement PriceTimeMarket, a market that keeps sets of offers  *)
(* and looks at who was there first, when the stamps tell it.              *)
(***************************************************************************)
EXTENDS MatchingEngine

CONSTANTS Prices, Qtys, Times

ASSUME MatcherAssumption ==
  /\ Prices \subseteq Nat
  /\ Qtys \subseteq Nat \ {0}
  /\ Times \subseteq Nat

MENext ==
  \/ \E o \in OrderIds, s \in Symbols, side \in Sides, price \in Prices,
        qty \in Qtys, time \in Times :
       SubmitOrder(o, s, side, price, qty, time)
  \/ \E s \in Symbols, o \in OrderIds : CancelInBook(s, o)
  \/ Match
  \/ EndMatch
  \/ NextTrade

\* The loop runs synchronously: once started it is never left in the middle.
MESpec ==
  /\ MEInit
  /\ [][MENext]_meVars
  /\ WF_meVars(Match \/ EndMatch \/ NextTrade)

-----------------------------------------------------------------------------
\* The offers of a book, without the order the lists keep them in.
Offers(side, list) ==
  { [side |-> side, order |-> list[i].order, price |-> list[i].price,
     qty |-> list[i].qty, time |-> list[i].time] : i \in DOMAIN list }

Market == INSTANCE PriceTimeMarket WITH
  offers <- [s \in Symbols |-> Offers("BUY", bids[s]) \cup Offers("SELL", asks[s])],
  arriving <- submission,
  Nobody <- NoSubmission,
  fills <- trades

\* The engine cannot see who was on the book first: it compares time stamps.
\* They tell when the order being submitted has a later one than every order
\* waiting on the other side.  A stamp is the time the order was created at, and
\* nothing in the engine keeps two of them apart.
StampsFollowArrival ==
  submission # NoSubmission =>
    LET buys == bids[submission.symbol]
        sells == asks[submission.symbol]
    IN  \A i \in DOMAIN buys, j \in DOMAIN sells :
          /\ buys[i].order = submission.order => sells[j].time < buys[i].time
          /\ sells[j].order = submission.order => buys[i].time < sells[j].time

\* The sorted lists (bisect.insort, pop_top, reduce_top, remove) implement the
\* market: every trade is between the arriving order and the best resting one,
\* and "the order that was on the book first is the maker" (matcher.py:200,
\* readme.md:118-123), whose price it has.  It takes stamps that follow arrival:
\* with two equal ones the buyer is the maker, also when the seller rested
\* (matcher.py:201).
ImplementsMarket == Market!Spec
=============================================================================
