------------------------------- MODULE Common -------------------------------
(***************************************************************************)
(* The vocabulary the components share: who trades what, and the values a  *)
(* form field may have.                                                    *)
(***************************************************************************)
EXTENDS Integers, Sequences, Functions

CONSTANTS
  Accounts,     \* user ids
  Symbols,      \* stock symbols
  OrderIds,     \* uuid4 order ids, a fresh one for every order
  NoPrice,      \* an order form whose price is empty
  NoSubmission  \* submit_order is not running

ASSUME CommonAssumption ==
  /\ NoPrice \notin Int
  /\ NoSubmission \notin [order : OrderIds, symbol : Symbols] \cup Symbols

Sides == {"BUY", "SELL"}

\* dict[k] = v
Put(dict, k, v) == [x \in DOMAIN dict \cup {k} |-> IF x = k THEN v ELSE dict[x]]

\* dict.pop(k, None)
Drop(dict, k) == Restrict(dict, DOMAIN dict \ {k})
=============================================================================
