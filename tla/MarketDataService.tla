--------------------------- MODULE MarketDataService ---------------------------
(***************************************************************************)
(* The market data service: the polling loop and the handlers that fetch   *)
(* a history share one circuit breaker, and each holds its lock only       *)
(* before and after the awaited call of the adapter.  Calls overlap, an    *)
(* answer may come long after the breaker has changed its mind, and MARKET *)
(* orders ask the breaker whether there is a market.                       *)
(*                                                                         *)
(* A call that meets an outage of the external service may raise, or come  *)
(* back with an empty list, which the breaker takes for a success: it is   *)
(* the adapter that decides, and TWSEAdapter does the latter.              *)
(***************************************************************************)
EXTENDS CircuitBreaker, FiniteSets

CONSTANTS
  Handlers,       \* concurrent requests of fetch_history
  Poller,         \* the task of _poll_loop
  Symbols,
  OutageAnswers   \* how the adapter answers in an outage: "error", "empty" or both

ASSUME ServiceAssumption ==
  /\ Poller \notin Handlers
  /\ IsFiniteSet(Handlers)
  /\ OutageAnswers \subseteq {"error", "empty"}

Callers == Handlers \cup {Poller}

VARIABLES
  adapterUp,    \* the external service answers
  calling,      \* the callers whose call of the adapter is awaited
  exposed,      \* those of them whose call met an outage
  running,      \* "new", "yes" between start and stop, then "stopped"
  watchlist,
  probes        \* history: calls let through since the breaker became HALF_OPEN

serviceVars == <<adapterUp, calling, exposed, running, watchlist, probes>>
vars == <<breakerVars, serviceVars>>

TypeOK ==
  /\ breaker \in {"CLOSED", "OPEN", "HALF_OPEN"}
  /\ failureCount \in 0 .. Threshold - 1 + Cardinality(Callers)
  /\ sinceFailure \in 0 .. CoolDown
  /\ adapterUp \in BOOLEAN
  /\ exposed \subseteq calling /\ calling \subseteq Callers
  /\ running \in {"new", "yes", "stopped"}
  /\ Poller \in calling => running = "yes"
  /\ watchlist \subseteq Symbols
  /\ probes \in Nat

Init ==
  /\ BreakerInit
  /\ adapterUp \in BOOLEAN
  /\ calling = {} /\ exposed = {}
  /\ running = "new"
  /\ watchlist = {}
  /\ probes = 0

-----------------------------------------------------------------------------
\* async_call, up to the await.  An open breaker raises CircuitOpenError, which
\* every caller catches.
Call(c) ==
  /\ MaybeTransitionToHalfOpen
  /\ IF StateRead = "OPEN"
     THEN UNCHANGED <<calling, exposed, probes>>
     ELSE /\ calling' = calling \cup {c}
          /\ exposed' = IF adapterUp THEN exposed ELSE exposed \cup {c}
          /\ probes' = IF Cooled THEN 1
                       ELSE IF breaker = "HALF_OPEN" THEN probes + 1 ELSE probes
  /\ UNCHANGED <<adapterUp, running, watchlist>>

FetchHistory(c) == c \in Handlers \ calling /\ Call(c)

\* One round of _poll_loop; the poller sleeps when it is not calling.
PollOnce ==
  /\ running = "yes" /\ Poller \notin calling
  /\ watchlist # {}
  /\ Call(Poller)

\* The adapter's coroutine returns.  What the poller then does with the quotes
\* is on_market_data, in module Trading.
CallReturns(c) ==
  /\ OnSuccess
  /\ calling' = calling \ {c}
  /\ exposed' = exposed \ {c}
  /\ probes' = 0
  /\ UNCHANGED <<adapterUp, running, watchlist>>

AnswerArrives(c) == c \in calling /\ adapterUp /\ CallReturns(c)

\* `except Exception: return []` around the request (twse_adapter.py:210).
EmptyAnswer(c) == c \in exposed /\ "empty" \in OutageAnswers /\ CallReturns(c)

\* The adapter lets the error out.
CallFails(c) ==
  /\ c \in exposed /\ "error" \in OutageAnswers
  /\ OnFailure
  /\ calling' = calling \ {c}
  /\ exposed' = exposed \ {c}
  /\ probes' = IF breaker' = "OPEN" THEN 0 ELSE probes
  /\ UNCHANGED <<adapterUp, running, watchlist>>

\* A MARKET order (place_order) or the health report reads the state.
ReadState ==
  /\ MaybeTransitionToHalfOpen
  /\ probes' = IF Cooled THEN 0 ELSE probes
  /\ UNCHANGED <<adapterUp, calling, exposed, running, watchlist>>

-----------------------------------------------------------------------------
\* The application starts and stops the service once.
Start ==
  /\ running = "new"
  /\ running' = "yes"
  /\ watchlist' = Symbols      \* the adapter's available_symbols
  /\ UNCHANGED <<breakerVars, adapterUp, calling, exposed, probes>>

\* The task is canceled where it awaits.  CancelledError is not an Exception:
\* the breaker does not hear of the call again.
Stop ==
  /\ running = "yes"
  /\ running' = "stopped"
  /\ calling' = calling \ {Poller}
  /\ exposed' = exposed \ {Poller}
  /\ UNCHANGED <<breakerVars, adapterUp, watchlist, probes>>

Watch(s) ==
  /\ watchlist' = watchlist \cup {s}
  /\ UNCHANGED <<breakerVars, adapterUp, calling, exposed, running, probes>>

Unwatch(s) ==
  /\ watchlist' = watchlist \ {s}
  /\ UNCHANGED <<breakerVars, adapterUp, calling, exposed, running, probes>>

Outage ==
  /\ adapterUp
  /\ adapterUp' = FALSE
  /\ exposed' = calling
  /\ UNCHANGED <<breakerVars, calling, running, watchlist, probes>>

OutageEnds ==
  /\ ~adapterUp
  /\ adapterUp' = TRUE
  /\ UNCHANGED <<breakerVars, calling, exposed, running, watchlist, probes>>

Tick == TimePasses /\ UNCHANGED serviceVars

Answered(c) == AnswerArrives(c) \/ EmptyAnswer(c) \/ CallFails(c)

Next ==
  \/ \E c \in Handlers : FetchHistory(c)
  \/ PollOnce
  \/ \E c \in Callers : Answered(c)
  \/ ReadState
  \/ Start \/ Stop
  \/ \E s \in Symbols : Watch(s) \/ Unwatch(s)
  \/ Outage \/ OutageEnds
  \/ Tick

\* The poller sleeps for a fixed time, the adapters' requests have a timeout,
\* and time passes.  Nothing is assumed of users and of the external service.
Spec ==
  /\ Init
  /\ [][Next]_vars
  /\ WF_vars(PollOnce)
  /\ \A c \in Callers : WF_vars(Answered(c))
  /\ WF_vars(Tick)

-----------------------------------------------------------------------------
\* While the service is down the breaker lets a limited number of calls through
\* each time it has cooled down: one less than the threshold that may fail, and
\* one per caller that has no answer yet (one more if stop cancels a poll).
\* The text of the module says one probe (circuit_breaker.py:8).
BoundedProbing ==
  breaker = "HALF_OPEN" =>
    probes < Threshold + Cardinality(Callers) + (IF running = "stopped" THEN 1 ELSE 0)

Polled == running = "yes" /\ watchlist # {}

\* A service that stays down is noticed, and never again taken to be well, so
\* that MARKET orders are refused again and again: "OMS, told that there is no
\* market data, forbids MARKET orders" (design-spec.md:218, and :205).  It holds
\* of an adapter that raises, and not of TWSEAdapter.
OutageNoticed ==
  <>[](Polled /\ ~adapterUp) => /\ <>[](breaker # "CLOSED")
                               /\ []<>(breaker = "OPEN")

\* A service that is well again is used again, also when answers from the time
\* of the outage are still to come, of either kind.
OutageOver == <>[](Polled /\ adapterUp) => <>[](breaker = "CLOSED")
================================================================================
