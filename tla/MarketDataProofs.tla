--------------------------- MODULE MarketDataProofs ---------------------------
(***************************************************************************)
(* The circuit breaker's numbers, for every threshold, cool-down and       *)
(* number of callers.                                                      *)
(***************************************************************************)
EXTENDS MarketDataService, FiniteSetTheorems, TLAPS

N == Cardinality(Callers)
Awaited == Cardinality(calling)
Canceled == IF running = "stopped" THEN 1 ELSE 0

\* Outside OPEN fewer failures are counted than open the breaker.
CountBelowThreshold == breaker # "OPEN" => failureCount < Threshold

\* An open breaker lets no call begin, so each late failure has a caller less to
\* come after it.
LateFailuresBounded == breaker = "OPEN" => failureCount + Awaited < Threshold + N

\* Each call let through since the breaker became HALF_OPEN is still awaited, has
\* failed and been counted, or was the poll that stop canceled.
ProbesAccounted == breaker = "HALF_OPEN" => probes <= failureCount + Awaited + Canceled

BreakerInv ==
  /\ TypeOK
  /\ CountBelowThreshold
  /\ LateFailuresBounded
  /\ ProbesAccounted

-----------------------------------------------------------------------------
LEMMA CallersFinite == IsFiniteSet(Callers) /\ N \in Nat
<1>1. IsFiniteSet(Handlers) BY ServiceAssumption
<1>2. IsFiniteSet(Callers) BY <1>1, FS_AddElement DEF Callers
<1> QED BY <1>2, FS_CardinalityType DEF N

\* The number of awaited calls goes up and down by one.
LEMMA CallingCounts ==
  ASSUME NEW S, S \subseteq Callers, NEW c \in Callers
  PROVE  /\ Cardinality(S) \in Nat
         /\ Cardinality(S) <= N
         /\ c \notin S => Cardinality(S \cup {c}) = Cardinality(S) + 1
         /\ c \in S => /\ Cardinality(S \ {c}) = Cardinality(S) - 1
                       /\ Cardinality(S) >= 1
         /\ c \notin S => S \ {c} = S
<1>1. IsFiniteSet(S) /\ Cardinality(S) <= N
  BY CallersFinite, FS_Subset DEF N
<1>2. Cardinality(S) \in Nat BY <1>1, FS_CardinalityType
<1>3. c \notin S => Cardinality(S \cup {c}) = Cardinality(S) + 1
  BY <1>1, FS_AddElement
<1>4. c \in S => Cardinality(S \ {c}) = Cardinality(S) - 1 /\ Cardinality(S) # 0
  BY <1>1, FS_RemoveElement, FS_EmptySet
<1> QED BY <1>1, <1>2, <1>3, <1>4

LEMMA InitBreakerInv == Init => BreakerInv
<1> SUFFICES ASSUME Init PROVE BreakerInv OBVIOUS
<1> USE BreakerAssumption, CallersFinite
<1>1. Awaited = 0 /\ N \in Nat BY FS_EmptySet DEF Init, Awaited
<1>2. TypeOK BY DEF Init, BreakerInit, TypeOK, N
<1> QED BY <1>1, <1>2
  DEF Init, BreakerInit, BreakerInv, CountBelowThreshold, LateFailuresBounded,
      ProbesAccounted, Canceled

-----------------------------------------------------------------------------
\* A call begins, or is refused.
LEMMA CallKeepsInv ==
  ASSUME BreakerInv, NEW c \in Callers, c \notin calling, Call(c),
         c = Poller => running = "yes"
  PROVE  BreakerInv'
<1> USE BreakerAssumption, CallersFinite
<1>1. /\ Awaited \in Nat /\ Awaited <= N
      /\ Cardinality(calling \cup {c}) = Awaited + 1
      /\ Cardinality(calling \cup {c}) <= N
  <2>1. calling \cup {c} \subseteq Callers BY DEF BreakerInv, TypeOK
  <2> QED BY <2>1, CallingCounts DEF BreakerInv, TypeOK, Awaited
<1>2. CASE StateRead = "OPEN"
  BY <1>1, <1>2 DEF BreakerInv, TypeOK, CountBelowThreshold, LateFailuresBounded,
     ProbesAccounted, Awaited, Canceled, Call, MaybeTransitionToHalfOpen, StateRead,
     Cooled, N
<1>3. CASE StateRead # "OPEN"
  <2>1. calling' = calling \cup {c} /\ Awaited' = Awaited + 1
    BY <1>1, <1>3 DEF Call, Awaited
  <2>2. TypeOK'
    BY <1>1, <1>3, <2>1 DEF BreakerInv, TypeOK, Call, MaybeTransitionToHalfOpen, StateRead,
       Cooled, N
  <2>3. CountBelowThreshold' /\ LateFailuresBounded'
    BY <1>1, <1>3, <2>1 DEF BreakerInv, TypeOK, CountBelowThreshold, LateFailuresBounded,
       Call, MaybeTransitionToHalfOpen, StateRead, Cooled
  <2>4. ProbesAccounted'
    BY <1>1, <1>3, <2>1 DEF BreakerInv, TypeOK, CountBelowThreshold, ProbesAccounted,
       Canceled, Call, MaybeTransitionToHalfOpen, StateRead, Cooled
  <2> QED BY <2>2, <2>3, <2>4 DEF BreakerInv
<1> QED BY <1>2, <1>3

\* A call that comes back, with quotes or with an empty list.
LEMMA ReturnKeepsInv ==
  ASSUME BreakerInv, NEW c \in Callers, CallReturns(c)
  PROVE  BreakerInv'
<1> USE BreakerAssumption, CallersFinite
<1>1. TypeOK' BY DEF BreakerInv, TypeOK, CallReturns, OnSuccess, N
<1> QED BY <1>1
  DEF BreakerInv, CountBelowThreshold, LateFailuresBounded, ProbesAccounted,
      CallReturns, OnSuccess

LEMMA FailureKeepsInv ==
  ASSUME BreakerInv, NEW c \in Callers, CallFails(c)
  PROVE  BreakerInv'
<1> USE BreakerAssumption, CallersFinite
<1>1. /\ Awaited \in Nat /\ 1 <= Awaited /\ Awaited <= N /\ N \in Nat
      /\ calling' = calling \ {c} /\ Awaited' = Awaited - 1
  BY CallingCounts DEF BreakerInv, TypeOK, Awaited, CallFails
<1>2. /\ failureCount \in Nat /\ probes \in Nat
      /\ failureCount' = failureCount + 1
      /\ breaker' = IF failureCount + 1 >= Threshold THEN "OPEN" ELSE breaker
      /\ probes' = IF breaker' = "OPEN" THEN 0 ELSE probes
      /\ running' = running
  BY DEF CallFails, OnFailure, BreakerInv, TypeOK
<1>3. failureCount' <= Threshold - 1 + N
  BY <1>1, <1>2 DEF BreakerInv, TypeOK, CountBelowThreshold, LateFailuresBounded
<1>4. TypeOK'
  BY <1>1, <1>2, <1>3 DEF BreakerInv, TypeOK, CallFails, OnFailure, N
<1>5. CountBelowThreshold' /\ LateFailuresBounded'
  BY <1>1, <1>2 DEF BreakerInv, TypeOK, CountBelowThreshold, LateFailuresBounded
<1>6. ProbesAccounted'
  BY <1>1, <1>2 DEF BreakerInv, TypeOK, ProbesAccounted, Canceled
<1> QED BY <1>4, <1>5, <1>6 DEF BreakerInv

LEMMA StopKeepsInv ==
  ASSUME BreakerInv, Stop
  PROVE  BreakerInv'
<1> USE BreakerAssumption, CallersFinite
<1>1. Poller \in Callers /\ calling \subseteq Callers /\ calling' = calling \ {Poller}
  BY DEF BreakerInv, TypeOK, Stop, Callers
<1>2. PICK n \in Nat : Awaited' = n /\ n <= Awaited /\ Awaited <= n + 1
  <2>1. Awaited \in Nat BY <1>1, CallingCounts DEF Awaited
  <2>2. CASE Poller \in calling
    <3>1. Awaited' = Awaited - 1 /\ Awaited >= 1
      BY <1>1, <2>2, CallingCounts DEF Awaited
    <3>2. Awaited - 1 \in Nat /\ Awaited <= (Awaited - 1) + 1 BY <2>1, <3>1
    <3> QED BY <2>1, <3>1, <3>2
  <2>3. CASE Poller \notin calling
    <3>1. calling' = calling BY <1>1, <2>3
    <3> QED BY <2>1, <3>1 DEF Awaited
  <2> QED BY <2>2, <2>3
<1>3. Awaited \in Nat BY <1>1, CallingCounts DEF Awaited
<1>4. /\ breaker' = breaker /\ failureCount' = failureCount /\ probes' = probes
      /\ failureCount \in Nat /\ probes \in Nat
      /\ Canceled = 0 /\ Canceled' = 1
  BY DEF BreakerInv, TypeOK, Stop, breakerVars, Canceled
<1>5. TypeOK' BY DEF BreakerInv, TypeOK, Stop, breakerVars
<1>6. CountBelowThreshold' /\ LateFailuresBounded'
  BY <1>2, <1>3, <1>4 DEF BreakerInv, CountBelowThreshold, LateFailuresBounded
<1>7. ProbesAccounted'
  BY <1>2, <1>3, <1>4 DEF BreakerInv, ProbesAccounted
<1> QED BY <1>5, <1>6, <1>7 DEF BreakerInv

\* The steps that begin and end no call.
LEMMA OtherStepsKeepInv ==
  ASSUME BreakerInv,
         \/ ReadState \/ Start \/ Outage \/ OutageEnds \/ Tick
         \/ \E s \in Symbols : Watch(s) \/ Unwatch(s)
         \/ UNCHANGED vars
  PROVE  BreakerInv'
<1> USE BreakerAssumption, CallersFinite
<1>0. /\ Awaited \in Nat /\ N \in Nat
  BY CallingCounts DEF BreakerInv, TypeOK, Awaited, Callers
<1>1. CASE ReadState
  <2>1. TypeOK'
    BY <1>0, <1>1 DEF BreakerInv, TypeOK, ReadState, MaybeTransitionToHalfOpen, StateRead,
       Cooled, N
  <2>2. Awaited' = Awaited /\ Canceled' = Canceled /\ Canceled \in Nat
    BY <1>1 DEF ReadState, Awaited, Canceled
  <2>3. CountBelowThreshold' /\ LateFailuresBounded' /\ ProbesAccounted'
    BY <1>0, <1>1, <2>2 DEF BreakerInv, TypeOK, CountBelowThreshold, LateFailuresBounded,
       ProbesAccounted, ReadState, MaybeTransitionToHalfOpen, StateRead, Cooled
  <2> QED BY <2>1, <2>3 DEF BreakerInv
<1>2. CASE Tick
  BY <1>2 DEF BreakerInv, TypeOK, CountBelowThreshold, LateFailuresBounded, ProbesAccounted,
     Awaited, Canceled, Tick, TimePasses, serviceVars
<1>3. CASE Start \/ (\E s \in Symbols : Watch(s) \/ Unwatch(s))
  <2>1. TypeOK' BY <1>3 DEF BreakerInv, TypeOK, Start, Watch, Unwatch, breakerVars
  <2>2. Canceled' = Canceled BY <1>3 DEF Canceled, Start, Watch, Unwatch
  <2> QED
    BY <1>3, <2>1, <2>2 DEF BreakerInv, CountBelowThreshold, LateFailuresBounded,
       ProbesAccounted, Awaited, Start, Watch, Unwatch, breakerVars
<1>4. CASE Outage \/ OutageEnds \/ UNCHANGED vars
  BY <1>4 DEF BreakerInv, TypeOK, CountBelowThreshold, LateFailuresBounded, ProbesAccounted,
     Awaited, Canceled, Outage, OutageEnds, vars, breakerVars, serviceVars
<1> QED BY <1>1, <1>2, <1>3, <1>4

LEMMA NextKeepsInv == BreakerInv /\ [Next]_vars => BreakerInv'
<1> SUFFICES ASSUME BreakerInv, [Next]_vars PROVE BreakerInv' OBVIOUS
<1>1. ASSUME NEW c \in Handlers, FetchHistory(c) PROVE BreakerInv'
  BY <1>1, CallKeepsInv, ServiceAssumption DEF FetchHistory, Callers
<1>2. CASE PollOnce BY <1>2, CallKeepsInv DEF PollOnce, Callers
<1>3. ASSUME NEW c \in Callers, Answered(c) PROVE BreakerInv'
  BY <1>3, ReturnKeepsInv, FailureKeepsInv DEF Answered, AnswerArrives, EmptyAnswer
<1>4. CASE Stop BY <1>4, StopKeepsInv
<1> QED BY <1>1, <1>2, <1>3, <1>4, OtherStepsKeepInv DEF Next

-----------------------------------------------------------------------------
\* The count of failures, the awaited calls and the calls let through stay in
\* step, however calls, answers, outages and stop interleave.
THEOREM BreakerInvariant == Spec => []BreakerInv
<1> QED BY InitBreakerInv, NextKeepsInv, PTL DEF Spec

\* The service's state has its types: the counter of failures never passes the
\* threshold by more than the calls that can be awaited at once.
THEOREM ServiceTypeCorrect == Spec => []TypeOK
<1>1. BreakerInv => TypeOK BY DEF BreakerInv
<1> QED BY <1>1, BreakerInvariant, PTL

\* Each time it has cooled down, the breaker lets through a limited number of
\* calls of a service that is down, for any number of callers.
THEOREM ProbingBounded == Spec => []BoundedProbing
<1>1. BreakerInv => BoundedProbing
  <2> SUFFICES ASSUME BreakerInv PROVE BoundedProbing OBVIOUS
  <2>1. Awaited \in Nat /\ N \in Nat /\ Awaited <= N
    BY CallersFinite, CallingCounts DEF BreakerInv, TypeOK, Awaited, Callers
  <2>2. failureCount \in Nat /\ probes \in Nat /\ Canceled \in Nat /\ Threshold \in Nat
    BY BreakerAssumption DEF BreakerInv, TypeOK, Canceled
  <2>3. breaker = "HALF_OPEN" => probes < Threshold + N + Canceled
    BY <2>1, <2>2 DEF BreakerInv, CountBelowThreshold, ProbesAccounted
  <2> QED BY <2>3 DEF BoundedProbing, N, Canceled
<1> QED BY <1>1, BreakerInvariant, PTL
=============================================================================
