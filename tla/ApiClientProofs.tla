--------------------------- MODULE ApiClientProofs ---------------------------
(***************************************************************************)
(* Theorems about ApiClient, for every budget, time-out, set of intervals  *)
(* and set of rate-limit resets.                                           *)
(***************************************************************************)
EXTENDS ApiClient, TLAPS

\* Each way an attempt may fail, in the terms the invariants need.
LEMMA RetryAfterFails ==
  ASSUME TypeOK,
         NetworkError \/ AttemptTimesOut \/ RetryableAnswer \/ RateLimited
  PROVE  /\ pc = "inflight" /\ pc' = "sleep"
         /\ lastError' \in RetryErrors
         /\ wait' \in Nat
         /\ UNCHANGED <<call, flight, left, overrun, answer, outcome, bodyLost>>
         /\ \/ wait' \in Intervals /\ embargo' = embargo /\ hurried' = hurried
            \/ wait' \in Resets /\ embargo' = wait' /\ hurried' = (hurried \/ (wait' = 0 /\ left = 0))
  <1> USE ApiClientAssumption
  <1>1. CASE NetworkError
    BY <1>1 DEF NetworkError, RetryAfter, retryIntervals, RetryErrors, ApiClientAssumption, results
  <1>2. CASE AttemptTimesOut
    BY <1>2 DEF AttemptTimesOut, RetryAfter, retryIntervals, RetryErrors, ApiClientAssumption, results
  <1>3. CASE RetryableAnswer
    BY <1>3 DEF RetryableAnswer, RetryAfter, retryIntervals, RetryErrors, ApiClientAssumption, results
  <1>4. CASE RateLimited
    BY <1>4 DEF RateLimited, RetryAfter, retryIntervals, RetryErrors, ApiClientAssumption, results
  <1> QED
    BY <1>1, <1>2, <1>3, <1>4

LEMMA LessTyped ==
  ASSUME NEW n \in Nat
  PROVE  Less(n) \in Nat /\ Less(n) <= n /\ (n = 0 => Less(n) = 0) /\ (n > 0 => Less(n) = n - 1)
  BY DEF Less

-----------------------------------------------------------------------------
\* Types, and with them the limits of an attempt's time and of the overrun that is counted.
THEOREM TypeCorrect == Spec => []TypeOK
  <1>1. Init => TypeOK
    <2> SUFFICES ASSUME Init PROVE TypeOK
      OBVIOUS
    <2>1. call \in Call
      BY ApiClientAssumption DEF Init, ApiClientAssumption
    <2>2. call.budget \in Nat /\ call.attemptTimeout \in Nat
      BY <2>1 DEF Call
    <2>3. left = call.budget /\ flight = 0 /\ wait = 0 /\ overrun = 0 /\ embargo = 0
      BY DEF Init
    <2>4. left <= call.budget /\ flight <= call.attemptTimeout /\ overrun <= call.attemptTimeout + 1
      BY <2>2, <2>3
    <2>5. /\ pc = "build" /\ hurried = FALSE /\ bodyLost = FALSE
          /\ lastError = None /\ answer = None /\ outcome = None
      BY DEF Init
    <2> QED
      BY <2>1, <2>2, <2>3, <2>4, <2>5 DEF TypeOK, Steps
  <1>2. TypeOK /\ [Next]_vars => TypeOK'
    <2> SUFFICES ASSUME TypeOK, [Next]_vars PROVE TypeOK'
      OBVIOUS
    <2> USE DEF TypeOK
    <2>0. /\ call.budget \in Nat /\ call.attemptTimeout \in Nat /\ call.attemptTimeout > 0
          /\ None \notin Deciding
      BY DEF Call, None, Deciding
    <2>1. CASE NewRequestFails
      BY <2>1 DEF NewRequestFails, Steps, Outcomes, clocks
    <2>2. CASE SendRequest
      BY <2>0, <2>2 DEF SendRequest, Steps, clocks, results
    <2>3. CASE NetworkError \/ AttemptTimesOut \/ RetryableAnswer \/ RateLimited
      <3>1. embargo' \in Nat /\ hurried' \in BOOLEAN
        BY <2>3, RetryAfterFails
      <3> QED
        BY <2>3, <3>1, RetryAfterFails DEF Steps
    <2>4. CASE DecidingAnswer
      BY <2>4 DEF DecidingAnswer, Steps, clocks
    <2>5. CASE TimerFires
      BY <2>5 DEF TimerFires, Steps, clocks, results
    <2>6. CASE BudgetSpent
      BY <2>6 DEF BudgetSpent, Steps, Outcomes, clocks
    <2>7. CASE ReadBody
      BY <2>7 DEF ReadBody, Steps, Outcomes, clocks
    <2>8. CASE BodyBreaksOff
      BY <2>8 DEF BodyBreaksOff, Steps, Outcomes, clocks
    <2>9. CASE Tick
      <3>1. left' \in Nat /\ left' <= left /\ embargo' \in Nat
        BY <2>9, LessTyped DEF Tick
      <3>2. overrun' \in Nat /\ overrun' <= call.attemptTimeout + 1
        BY <2>0, <2>9 DEF Tick
      <3>3. flight' \in Nat /\ flight' <= call.attemptTimeout /\ wait' \in Nat
        BY <2>0, <2>9 DEF Tick
      <3>4. UNCHANGED <<call, pc, lastError, hurried, answer, outcome, bodyLost>>
        BY <2>9 DEF Tick, results
      <3> QED
        BY <2>0, <3>1, <3>2, <3>3, <3>4
    <2>10. CASE UNCHANGED vars
      BY <2>10 DEF vars
    <2> QED
      BY <2>1, <2>2, <2>3, <2>4, <2>5, <2>6, <2>7, <2>8, <2>9, <2>10
      DEF Next, ClientNext, NetworkNext
  <1> QED
    BY <1>1, <1>2, PTL DEF Spec

-----------------------------------------------------------------------------
(***************************************************************************)
(* A time-out is honest.  The invariant adds when there is an answer, and  *)
(* that the client only ever sleeps after a failure.                       *)
(***************************************************************************)
HonestInv ==
  /\ TimeoutIsHonest
  /\ pc \in {"build", "inflight", "sleep"} => answer = None
  /\ pc = "sleep" => lastError # None
  /\ pc = "body" => answer \in Deciding
  /\ pc # "done" => outcome = None

\* handleError may fall back after a time-out: the budget is spent, the last error is known
\* and no answer had decided the call.
THEOREM TimeoutsAreHonest == Spec => []TimeoutIsHonest
  <1>1. Init => HonestInv
    BY DEF Init, HonestInv, TimeoutIsHonest, None
  <1>2. TypeOK /\ HonestInv /\ [Next]_vars => HonestInv'
    <2> SUFFICES ASSUME TypeOK, HonestInv, [Next]_vars PROVE HonestInv'
      OBVIOUS
    <2> USE DEF HonestInv, TimeoutIsHonest
    <2>1. CASE NewRequestFails
      BY <2>1 DEF NewRequestFails, clocks
    <2>2. CASE SendRequest
      BY <2>2 DEF SendRequest, clocks, results, None
    <2>3. CASE NetworkError \/ AttemptTimesOut \/ RetryableAnswer \/ RateLimited
      BY <2>3, RetryAfterFails DEF None, RetryErrors
    <2>4. CASE DecidingAnswer
      BY <2>4 DEF DecidingAnswer, None
    <2>5. CASE TimerFires
      BY <2>5 DEF TimerFires, clocks, results, None
    <2>6. CASE BudgetSpent
      BY <2>6 DEF BudgetSpent, clocks
    <2>7. CASE ReadBody
      BY <2>7 DEF ReadBody, Deciding
    <2>8. CASE BodyBreaksOff
      BY <2>8 DEF BodyBreaksOff, Deciding
    <2>9. CASE Tick
      <3>1. UNCHANGED <<pc, lastError, answer, outcome>> /\ pc # "done"
        BY <2>9 DEF Tick, results
      <3> QED
        BY <3>1 DEF None
    <2>10. CASE UNCHANGED vars
      BY <2>10 DEF vars
    <2> QED
      BY <2>1, <2>2, <2>3, <2>4, <2>5, <2>6, <2>7, <2>8, <2>9, <2>10
      DEF Next, ClientNext, NetworkNext
  <1> QED
    BY <1>1, <1>2, TypeCorrect, PTL DEF Spec, HonestInv

-----------------------------------------------------------------------------
THEOREM OverrunInvariant == Spec => []OverrunInv
  <1>1. Init => OverrunInv
    BY ApiClientAssumption DEF Init, OverrunInv, ApiClientAssumption, Call
  <1>2. TypeOK /\ OverrunInv /\ [Next]_vars => OverrunInv'
    <2> SUFFICES ASSUME TypeOK, OverrunInv, [Next]_vars PROVE OverrunInv'
      OBVIOUS
    <2>0. /\ call.attemptTimeout \in Nat /\ overrun \in Nat /\ flight \in Nat /\ left \in Nat
          /\ wait \in Nat /\ flight <= call.attemptTimeout /\ hurried \in BOOLEAN
      BY DEF TypeOK, Call
    <2> USE DEF OverrunInv
    <2>1. CASE NewRequestFails
      BY <2>1 DEF NewRequestFails, clocks
    <2>2. CASE SendRequest
      BY <2>0, <2>2 DEF SendRequest, clocks, results
    <2>3. CASE NetworkError \/ AttemptTimesOut \/ RetryableAnswer \/ RateLimited
      <3>1. Intervals \subseteq Nat \ {0}
        BY ApiClientAssumption DEF ApiClientAssumption
      <3>2. /\ pc = "inflight" /\ pc' = "sleep"
            /\ UNCHANGED <<call, left, overrun>>
            /\ ~hurried' => ~hurried /\ (wait' = 0 => left # 0)
        BY <2>0, <2>3, <3>1, RetryAfterFails
      <3> QED
        BY <2>0, <3>2
    <2>4. CASE DecidingAnswer
      BY <2>4 DEF DecidingAnswer, clocks
    <2>5. CASE TimerFires
      BY <2>5 DEF TimerFires, clocks, results
    <2>6. CASE BudgetSpent
      BY <2>6 DEF BudgetSpent, clocks
    <2>7. CASE ReadBody
      BY <2>7 DEF ReadBody, clocks
    <2>8. CASE BodyBreaksOff
      BY <2>8 DEF BodyBreaksOff, clocks
    <2>9. CASE Tick
      <3> SUFFICES ASSUME ~hurried PROVE OverrunInv'
        BY <2>9 DEF Tick
      <3>1. UNCHANGED <<call, pc, hurried>>
        BY <2>9 DEF Tick
      <3>2. left = 0 => left' = 0
        BY <2>9, LessTyped DEF Tick
      <3>3. CASE pc = "sleep"
        <4>1. left > 0 /\ overrun' = overrun
          BY <2>0, <2>9, <3>3 DEF Tick
        <4> QED
          BY <2>0, <3>1, <3>3, <4>1
      <3>4. CASE pc \in {"inflight", "body"}
        <4>1. flight' = flight + 1 /\ flight < call.attemptTimeout
          BY <2>9, <3>4 DEF Tick
        <4>2. overrun' = overrun \/ (left = 0 /\ overrun' = overrun + 1)
          BY <2>9 DEF Tick
        <4> QED
          BY <2>0, <3>1, <3>2, <3>4, <4>1, <4>2
      <3> QED
        BY <2>9, <3>3, <3>4 DEF Tick
    <2>10. CASE UNCHANGED vars
      BY <2>10 DEF vars
    <2> QED
      BY <2>1, <2>2, <2>3, <2>4, <2>5, <2>6, <2>7, <2>8, <2>9, <2>10
      DEF Next, ClientNext, NetworkNext
  <1> QED
    BY <1>1, <1>2, TypeCorrect, PTL DEF Spec

\* A call spends at most its budget and one attempt, unless told to hurry after the deadline.
THEOREM OverrunIsBounded == Spec => []OverrunIsOneAttempt
  <1>1. TypeOK /\ OverrunInv => OverrunIsOneAttempt
    BY DEF OverrunInv, OverrunIsOneAttempt
  <1> QED
    BY <1>1, TypeCorrect, OverrunInvariant, PTL

-----------------------------------------------------------------------------
LEMMA EmbargoInvariant == Spec => []EmbargoInv
  <1>1. Init => EmbargoInv
    BY DEF Init, EmbargoInv
  <1>2. TypeOK /\ EmbargoInv /\ [Next]_vars => EmbargoInv'
    <2> SUFFICES ASSUME TypeOK, EmbargoInv, [Next]_vars PROVE EmbargoInv'
      OBVIOUS
    <2>0. embargo \in Nat /\ wait \in Nat
      BY DEF TypeOK
    <2> USE DEF EmbargoInv
    <2>1. CASE NewRequestFails
      BY <2>1 DEF NewRequestFails
    <2>2. CASE SendRequest
      BY <2>2 DEF SendRequest, clocks
    <2>3. CASE NetworkError \/ AttemptTimesOut \/ RetryableAnswer \/ RateLimited
      BY <2>0, <2>3, RetryAfterFails
    <2>4. CASE DecidingAnswer
      BY <2>4 DEF DecidingAnswer
    <2>5. CASE TimerFires
      BY <2>0, <2>5 DEF TimerFires, clocks
    <2>6. CASE BudgetSpent
      BY <2>6 DEF BudgetSpent
    <2>7. CASE ReadBody
      BY <2>7 DEF ReadBody
    <2>8. CASE BodyBreaksOff
      BY <2>8 DEF BodyBreaksOff
    <2>9. CASE Tick
      <3>1. pc' = pc /\ embargo' = Less(embargo) /\ (pc = "sleep" => wait > 0 /\ wait' = wait - 1)
        BY <2>9 DEF Tick
      <3> QED
        BY <2>0, <3>1, LessTyped
    <2>10. CASE UNCHANGED vars
      BY <2>10 DEF vars
    <2> QED
      BY <2>1, <2>2, <2>3, <2>4, <2>5, <2>6, <2>7, <2>8, <2>9, <2>10
      DEF Next, ClientNext, NetworkNext
  <1> QED
    BY <1>1, <1>2, TypeCorrect, PTL DEF Spec

\* The types, the budget and the embargo together.
THEOREM CallInvariant == Spec => []CallInv
  BY TypeCorrect, OverrunInvariant, EmbargoInvariant, PTL DEF CallInv

\* A rate-limited client waits for the reset it was told.
THEOREM RateLimitIsRespected == Spec => RateLimitRespected
  <1>1. TypeOK /\ EmbargoInv /\ [Next]_vars => (pc = "sleep" /\ pc' = "build" => embargo = 0)
    <2> SUFFICES ASSUME TypeOK, EmbargoInv, [Next]_vars, pc = "sleep", pc' = "build"
                 PROVE  embargo = 0
      OBVIOUS
    <2>1. wait = 0
      BY DEF Next, ClientNext, NetworkNext, NewRequestFails, SendRequest, AttemptTimesOut,
         TimerFires, ReadBody, BodyBreaksOff, NetworkError, RetryableAnswer, RateLimited,
         DecidingAnswer, RetryAfter, BudgetSpent, Tick, vars
    <2> QED
      BY <2>1 DEF EmbargoInv, TypeOK
  <1> QED
    BY <1>1, TypeCorrect, EmbargoInvariant, PTL DEF Spec, RateLimitRespected

-----------------------------------------------------------------------------
LEMMA NextOutside ==
  TypeOK /\ [Next]_vars => [Outside!Next]_(Outside!vars)
  <1> SUFFICES ASSUME TypeOK, [Next]_vars
               PROVE  Outside!Next \/ UNCHANGED Outside!vars
    OBVIOUS
  <1> USE DEF Seen, Outside!vars, Outside!Next
  <1>1. CASE NewRequestFails
    BY <1>1 DEF NewRequestFails, Outside!Refuse
  <1>2. CASE SendRequest
    BY <1>2 DEF SendRequest, results, Outside!Send
  <1>3. CASE NetworkError \/ AttemptTimesOut \/ RetryableAnswer \/ RateLimited
    BY <1>3, RetryAfterFails DEF Outside!Lose
  <1>4. CASE DecidingAnswer
    BY <1>4 DEF DecidingAnswer, Outside!Decide
  <1>5. CASE TimerFires
    BY <1>5 DEF TimerFires, results
  <1>6. CASE BudgetSpent
    BY <1>6 DEF BudgetSpent, Outside!TimeOut
  <1>7. CASE ReadBody
    BY <1>7 DEF ReadBody, Outside!Tell
  <1>8. CASE BodyBreaksOff
    BY <1>8 DEF BodyBreaksOff, Outside!Tell
  <1>9. CASE Tick
    BY <1>9 DEF Tick, results
  <1>10. CASE UNCHANGED vars
    BY <1>10 DEF vars
  <1> QED
    BY <1>1, <1>2, <1>3, <1>4, <1>5, <1>6, <1>7, <1>8, <1>9, <1>10
    DEF Next, ClientNext, NetworkNext

\* The client implements the call its users rely on.
THEOREM ClientImplementsCall == Spec => ImplementsCall
  <1>1. Init => Outside!Init
    BY DEF Init, Seen, Outside!Init, None, Outside!None
  <1> QED
    BY <1>1, NextOutside, TypeCorrect, PTL DEF Spec, Outside!Spec, ImplementsCall

=============================================================================
