------------------------- MODULE SignalForwardProofs -------------------------
(***************************************************************************)
(* What SignalForward promises, for any number of commands and of signals. *)
(***************************************************************************)
EXTENDS SignalForward, SequenceTheorems, TLAPS

-----------------------------------------------------------------------------
(***************************************************************************)
(* A channel with room for one signal.                                     *)
(***************************************************************************)

Channel == {<<>>} \cup {<<s>> : s \in Sent \cup {"chld"}}

\* There is room only in an empty channel, and a signal fills it.
LEMMA Room1 ==
  ASSUME NEW c \in Channel, NEW s \in Sent \cup {"chld"}
  PROVE  /\ Len(c) < 1 <=> c = <<>>
         /\ c = <<>> => Append(c, s) = <<s>> /\ Append(c, s) \in Channel
         /\ Head(<<s>>) = s
         /\ <<s>> # <<>>
<1>1. c = <<>> => Len(c) = 0 /\ Append(c, s) = <<s>>
  OBVIOUS
<1>2. c # <<>> => Len(c) = 1
  BY DEF Channel
<1> QED
  BY <1>1, <1>2 DEF Channel

\* What is received is a signal, and the channel is empty then.
LEMMA Received1 ==
  ASSUME NEW c \in Channel, c # <<>>
  PROVE  Head(c) \in Sent \cup {"chld"} /\ Tail(c) = <<>> /\ Tail(c) \in Channel
<1>1. PICK s \in Sent \cup {"chld"} : c = <<s>>
  BY DEF Channel
<1>2. Head(c) = s /\ Tail(c) = <<>>
  BY <1>1
<1> QED
  BY <1>2 DEF Channel

-----------------------------------------------------------------------------
(***************************************************************************)
(* The initial states, and every step.                                     *)
(***************************************************************************)

IInv == ForwardInv /\ OrphanOnlyBeforeNotify

LEMMA TypesOfCalls ==
  ASSUME TypeOK, NEW k \in Calls
  PROVE  /\ process[k] \in {"none", "running", "exited", "signaled"}
         /\ pipe[k] \in {"none", "open", "closed"}
         /\ forwarder[k] \in {"none", "spawned", "listening", "stopped"}
         /\ sigCh[k] \in Channel
         /\ finishCh[k] \in BOOLEAN
         /\ arrived[k] \in SUBSET Sent /\ forwarded[k] \in SUBSET Sent /\ dropped[k] \in SUBSET Sent
<1>1. /\ arrived \in [Calls -> SUBSET Sent]
      /\ forwarded \in [Calls -> SUBSET Sent]
      /\ dropped \in [Calls -> SUBSET Sent]
  BY DEF TypeOK
<1> QED
  BY <1>1 DEF TypeOK, Channel

LEMMA InitInv == Init => IInv
<1> SUFFICES ASSUME Init
             PROVE  IInv
  OBVIOUS
<1>1. TypeOK
  <2>1. \A h \in {arrived, forwarded, dropped} : h \in [Calls -> SUBSET Sent]
    BY DEF Init
  <2>2. sigCh \in [Calls -> Channel]
    BY DEF Init, Channel
  <2> QED
    BY <2>1, <2>2, SignalAssumption DEF Init, TypeOK, Channel, SignalAssumption
<1>2. ForwardedInTime /\ HeardInTime
  BY DEF Init, ForwardedInTime, HeardInTime
<1>3. OneCommandAtATime /\ StartedInOrder
  BY DEF Init, OneCommandAtATime, StartedInOrder, Calls
<1>4. FinishedAreOver /\ OrphanOnlyBeforeNotify
  BY DEF Init, FinishedAreOver, OrphanOnlyBeforeNotify
<1> QED
  BY <1>1, <1>2, <1>3, <1>4 DEF IInv, ForwardInv

LEMMA StartFailsInv == IInv /\ StartFails => IInv'
<1> SUFFICES ASSUME IInv, StartFails
             PROVE  IInv'
  OBVIOUS
<1> USE DEF StartFails, GoesOn, history, IInv, ForwardInv
<1> DEFINE next == current + 1
<1>1. next \in Calls /\ current \in 0..Commands /\ next \in 0..Commands
  BY SignalAssumption DEF TypeOK, Calls, SignalAssumption
<1>2. TypeOK'
  BY <1>1 DEF TypeOK
<1>3. ForwardedInTime' /\ HeardInTime'
  BY DEF ForwardedInTime, HeardInTime, Running
<1>4. OneCommandAtATime'
  BY <1>1 DEF OneCommandAtATime, FinishedAreOver, Calls, Quiet, Running
<1>5. StartedInOrder'
  BY <1>1 DEF StartedInOrder, Calls, TypeOK
<1>6. FinishedAreOver'
  BY <1>1 DEF FinishedAreOver, StartedInOrder, TypeOK, Running, Calls, Quiet
<1>7. OrphanOnlyBeforeNotify'
  BY DEF OrphanOnlyBeforeNotify
<1> QED
  BY <1>2, <1>3, <1>4, <1>5, <1>6, <1>7

LEMMA StartInv == IInv /\ Start => IInv'
<1> SUFFICES ASSUME IInv, Start
             PROVE  IInv'
  OBVIOUS
<1> USE DEF Start, channels, history, IInv, ForwardInv
<1> DEFINE next == current + 1
<1>1. next \in Calls /\ current \in 0..Commands /\ next \in 0..Commands
  BY SignalAssumption DEF TypeOK, Calls, SignalAssumption
<1>2. process[next] = "none" /\ forwarder[next] = "none" /\ sigCh[next] = <<>> /\ ~finishCh[next]
  BY <1>1 DEF StartedInOrder, Calls
<1>3. TypeOK'
  BY <1>1 DEF TypeOK
<1>4. ForwardedInTime' /\ HeardInTime'
  BY <1>1, <1>2 DEF ForwardedInTime, HeardInTime, Running, TypeOK
<1>5. OneCommandAtATime'
  BY <1>1 DEF OneCommandAtATime, FinishedAreOver, Over, Running, Calls, TypeOK, Quiet
<1>6. StartedInOrder'
  BY <1>1, <1>2 DEF StartedInOrder, Calls, TypeOK
<1>7. FinishedAreOver'
  BY <1>1, <1>2 DEF FinishedAreOver, TypeOK, Running, Calls, Quiet
<1>8. OrphanOnlyBeforeNotify'
  BY DEF OrphanOnlyBeforeNotify
<1> QED
  BY <1>3, <1>4, <1>5, <1>6, <1>7, <1>8

LEMMA WaitInv == IInv /\ Wait => IInv'
<1> SUFFICES ASSUME IInv, Wait
             PROVE  IInv'
  OBVIOUS
<1> USE DEF Wait, channels, history, IInv, ForwardInv
<1>1. TypeOK'
  BY DEF TypeOK
<1>2. ForwardedInTime' /\ HeardInTime' /\ OneCommandAtATime' /\ StartedInOrder'
  BY DEF ForwardedInTime, HeardInTime, OneCommandAtATime, StartedInOrder, Running, Over, Quiet
<1>3. FinishedAreOver'
  BY DEF FinishedAreOver, Over, Running, Quiet
<1>4. OrphanOnlyBeforeNotify'
  BY DEF OrphanOnlyBeforeNotify
<1> QED
  BY <1>1, <1>2, <1>3, <1>4

LEMMA ReturnInv == IInv /\ Return => IInv'
<1> SUFFICES ASSUME IInv, Return
             PROVE  IInv'
  OBVIOUS
<1> USE DEF Return, GoesOn, history, IInv, ForwardInv
<1>1. current \in Calls /\ Over(current)
  BY SignalAssumption DEF TypeOK, Calls, FinishedAreOver, SignalAssumption
<1>2. main' \in {"between", "over"}
  OBVIOUS
<1>3. TypeOK'
  BY <1>2 DEF TypeOK
<1>4. ForwardedInTime' /\ HeardInTime' /\ OneCommandAtATime'
  BY DEF ForwardedInTime, HeardInTime, OneCommandAtATime, Running, Over, Quiet
<1>5. StartedInOrder'
  BY <1>1 DEF StartedInOrder, TypeOK, Calls
<1>6. FinishedAreOver'
  BY <1>1, <1>2 DEF FinishedAreOver, Over, Running, TypeOK, Quiet
<1>7. OrphanOnlyBeforeNotify'
  BY <1>2 DEF OrphanOnlyBeforeNotify
<1> QED
  BY <1>3, <1>4, <1>5, <1>6, <1>7

LEMMA NotifyInv == ASSUME NEW k \in Calls PROVE IInv /\ Alive /\ Notify(k) => IInv'
<1> SUFFICES ASSUME IInv, Alive, Notify(k)
             PROVE  IInv'
  OBVIOUS
<1> USE DEF Notify, channels, history, IInv, ForwardInv
<1>1. TypeOK'
  BY DEF TypeOK
<1>2. ForwardedInTime' /\ HeardInTime' /\ OneCommandAtATime'
  BY DEF ForwardedInTime, HeardInTime, OneCommandAtATime, Running, Over, Quiet
<1>3. StartedInOrder'
  BY DEF StartedInOrder, TypeOK
<1>4. FinishedAreOver'
  BY DEF FinishedAreOver, Over, Running, TypeOK, Quiet
<1>5. OrphanOnlyBeforeNotify'
  BY DEF OrphanOnlyBeforeNotify, Alive
<1> QED
  BY <1>1, <1>2, <1>3, <1>4, <1>5

LEMMA ReceiveInv == ASSUME NEW k \in Calls PROVE IInv /\ Alive /\ Receive(k) => IInv'
<1> SUFFICES ASSUME IInv, Alive, Receive(k)
             PROVE  IInv'
  OBVIOUS
<1> USE DEF Receive, IInv, ForwardInv
<1>1. /\ Head(sigCh[k]) \in Sent \cup {"chld"}
      /\ Tail(sigCh[k]) = <<>> /\ Tail(sigCh[k]) \in Channel
  BY TypesOfCalls, Received1
<1>2. sigCh' = [sigCh EXCEPT ![k] = <<>>] /\ sigCh \in [Calls -> Channel]
  BY <1>1 DEF TypeOK, Channel
<1>3. /\ forwarded \in [Calls -> SUBSET Sent] /\ arrived \in [Calls -> SUBSET Sent]
      /\ dropped \in [Calls -> SUBSET Sent]
  BY DEF TypeOK
<1>4. forwarded' \in [Calls -> SUBSET Sent]
  BY <1>1, <1>3
<1>5. TypeOK'
  <2>1. sigCh' \in [Calls -> Channel]
    BY <1>2, <1>1
  <2> QED
    BY <2>1, <1>3, <1>4 DEF TypeOK, Channel
<1>6. ForwardedInTime'
  BY <1>3 DEF ForwardedInTime, HeardInTime, Running
<1>7. HeardInTime' /\ StartedInOrder'
  BY <1>2 DEF HeardInTime, Running, StartedInOrder
<1>8. OneCommandAtATime' /\ FinishedAreOver'
  BY DEF OneCommandAtATime, FinishedAreOver, Over, Running, Quiet
<1>9. OrphanOnlyBeforeNotify'
  BY DEF OrphanOnlyBeforeNotify, Alive
<1> QED
  BY <1>5, <1>6, <1>7, <1>8, <1>9

LEMMA FinishInv == ASSUME NEW k \in Calls PROVE IInv /\ Alive /\ Finish(k) => IInv'
<1> SUFFICES ASSUME IInv, Alive, Finish(k)
             PROVE  IInv'
  OBVIOUS
<1> USE DEF Finish, channels, history, IInv, ForwardInv
<1>1. TypeOK'
  BY DEF TypeOK
<1>2. ForwardedInTime' /\ HeardInTime' /\ OneCommandAtATime'
  BY DEF ForwardedInTime, HeardInTime, OneCommandAtATime, Running, Over, Quiet
<1>3. StartedInOrder'
  BY DEF StartedInOrder, TypeOK
<1>4. FinishedAreOver'
  BY DEF FinishedAreOver, Over, Running, TypeOK, Quiet
<1>5. OrphanOnlyBeforeNotify'
  BY DEF OrphanOnlyBeforeNotify, Alive
<1> QED
  BY <1>1, <1>2, <1>3, <1>4, <1>5

\* What os/signal does with a signal, of any kind.
LEMMA OfferEffect ==
  ASSUME IInv, NEW s \in Sent \cup {"chld"}, Offer(s)
  PROVE  /\ sigCh' \in [Calls -> Channel]
         /\ \A k \in Calls : /\ sigCh'[k] = sigCh[k] \/ (forwarder[k] = "listening" /\ sigCh'[k] = <<s>>)
                             /\ process[k] = "none" => sigCh'[k] = <<>>
                             /\ sigCh'[k] # <<>> => \/ Head(sigCh'[k]) = s
                                                    \/ sigCh'[k] = sigCh[k] /\ sigCh[k] # <<>>
         /\ main' = main \/ (main' = "killed" /\ s = "term" /\ \A k \in Calls : ~Registered(k))
<1> USE DEF IInv, ForwardInv
<1>1. ASSUME NEW k \in Calls
      PROVE  /\ sigCh[k] \in Channel
             /\ Room(k) <=> sigCh[k] = <<>>
             /\ Room(k) => Append(sigCh[k], s) = <<s>> /\ Append(sigCh[k], s) \in Channel
             /\ Head(<<s>>) = s
             /\ process[k] = "none" => sigCh[k] = <<>> /\ ~Registered(k)
  BY TypesOfCalls, Room1 DEF Room, StartedInOrder, Registered
<1>2. sigCh' = [k \in Calls |-> IF Registered(k) /\ Room(k) THEN Append(sigCh[k], s) ELSE sigCh[k]]
  BY DEF Offer
<1>3. sigCh' \in [Calls -> Channel]
  BY <1>1, <1>2
<1>4. ASSUME NEW k \in Calls
      PROVE  /\ sigCh'[k] = sigCh[k] \/ (forwarder[k] = "listening" /\ sigCh'[k] = <<s>>)
             /\ process[k] = "none" => sigCh'[k] = <<>>
             /\ sigCh'[k] # <<>> => \/ Head(sigCh'[k]) = s
                                    \/ sigCh'[k] = sigCh[k] /\ sigCh[k] # <<>>
  BY <1>1, <1>2 DEF Registered
<1>5. main' = main \/ (main' = "killed" /\ s = "term" /\ \A k \in Calls : ~Registered(k))
  BY DEF Offer
<1> QED
  BY <1>3, <1>4, <1>5

\* A running command whose goroutine does not listen has one that has not begun.
LEMMA SignalInv == IInv /\ Signal => IInv'
<1> SUFFICES ASSUME IInv, Signal
             PROVE  IInv'
  OBVIOUS
<1> USE DEF IInv, ForwardInv
<1>1. PICK sig \in Sent :
        /\ Offer(sig)
        /\ arrived' = [k \in Calls |-> IF Running(k) THEN arrived[k] \cup {sig} ELSE arrived[k]]
        /\ dropped' = [k \in Calls |-> IF Running(k) /\ Registered(k) /\ ~Room(k)
                                       THEN dropped[k] \cup {sig} ELSE dropped[k]]
  BY DEF Signal
<1>2. /\ UNCHANGED <<current, process, pipe, forwarder, finishCh, forwarded>>
      /\ main # "killed" /\ signals' = signals + 1 /\ signals < MaxSignals
  BY DEF Signal
<1>3. /\ sigCh' \in [Calls -> Channel]
      /\ \A k \in Calls : /\ sigCh'[k] = sigCh[k] \/ (forwarder[k] = "listening" /\ sigCh'[k] = <<sig>>)
                          /\ process[k] = "none" => sigCh'[k] = <<>>
                          /\ sigCh'[k] # <<>> => \/ Head(sigCh'[k]) = sig
                                                 \/ sigCh'[k] = sigCh[k] /\ sigCh[k] # <<>>
      /\ main' = main \/ (main' = "killed" /\ \A k \in Calls : ~Registered(k))
  BY <1>1, OfferEffect
<1>4. /\ arrived \in [Calls -> SUBSET Sent] /\ forwarded \in [Calls -> SUBSET Sent]
      /\ dropped \in [Calls -> SUBSET Sent]
  BY DEF TypeOK
<1>5. arrived' \in [Calls -> SUBSET Sent] /\ dropped' \in [Calls -> SUBSET Sent]
  BY <1>1, <1>4
<1>6. TypeOK'
  <2>1. signals' \in 0..MaxSignals
    BY <1>2, SignalAssumption DEF TypeOK, SignalAssumption
  <2>2. main' \in {"between", "waiting", "waited", "over", "killed"}
    BY <1>3 DEF TypeOK
  <2> QED
    BY <2>1, <2>2, <1>2, <1>3, <1>4, <1>5 DEF TypeOK, Channel
<1>7. ForwardedInTime'
  BY <1>1, <1>2 DEF ForwardedInTime
<1>8. HeardInTime'
  BY <1>1, <1>2, <1>3 DEF HeardInTime, Running
<1>9. OneCommandAtATime' /\ StartedInOrder'
  BY <1>2, <1>3 DEF OneCommandAtATime, StartedInOrder, Running, Quiet
<1>10. FinishedAreOver'
  BY <1>2, <1>3 DEF FinishedAreOver, Over, Running, Quiet
<1>11. OrphanOnlyBeforeNotify'
  <2> SUFFICES ASSUME main' = "killed", NEW k \in Calls, Running(k)'
               PROVE  forwarder'[k] = "spawned"
    BY DEF OrphanOnlyBeforeNotify
  <2>1. Running(k) /\ ~Registered(k)
    BY <1>2, <1>3 DEF Running
  <2>2. forwarder[k] \notin {"listening", "none"}
    BY <2>1 DEF Registered, StartedInOrder, Running
  <2>3. forwarder[k] # "stopped"
    BY <2>1 DEF FinishedAreOver
  <2> QED
    BY <2>2, <2>3, <1>2, TypesOfCalls
<1> QED
  BY <1>6, <1>7, <1>8, <1>9, <1>10, <1>11

LEMMA CommandEndsInv == ASSUME NEW k \in Calls PROVE IInv /\ CommandEnds(k) => IInv'
<1> SUFFICES ASSUME IInv, CommandEnds(k)
             PROVE  IInv'
  OBVIOUS
<1> USE DEF IInv, ForwardInv
<1>1. PICK how \in {"exited", "signaled"} : process' = [process EXCEPT ![k] = how]
  BY DEF CommandEnds
<1>2. /\ UNCHANGED <<current, forwarder, finishCh, signals, arrived, forwarded, dropped>>
      /\ main # "killed" /\ Running(k) /\ Offer("chld")
      /\ pipe' = [pipe EXCEPT ![k] = "closed"] \/ pipe' = pipe
  BY DEF CommandEnds, history, TypeOK
<1>3. /\ sigCh' \in [Calls -> Channel] /\ main' = main
      /\ \A j \in Calls : /\ process[j] = "none" => sigCh'[j] = <<>>
                          /\ sigCh'[j] # <<>> => \/ Head(sigCh'[j]) = "chld"
                                                 \/ sigCh'[j] = sigCh[j] /\ sigCh[j] # <<>>
  BY <1>2, OfferEffect
<1>4. process[k] = "running" /\ forwarder[k] # "none" /\ k <= current
  BY <1>2 DEF Running, StartedInOrder, TypeOK, Calls
<1>5. \A j \in Calls : process[j] # "running" => process'[j] = process[j] /\ pipe'[j] = pipe[j]
  BY <1>1, <1>2, <1>4 DEF TypeOK
<1>6. \A j \in Calls : Running(j)' => Running(j)
  BY <1>1 DEF Running, TypeOK
<1>7. TypeOK'
  BY <1>1, <1>2, <1>3 DEF TypeOK, Channel
<1>8. ForwardedInTime' /\ HeardInTime'
  BY <1>2, <1>3, <1>6 DEF ForwardedInTime, HeardInTime
<1>9. OneCommandAtATime'
  BY <1>2, <1>5, <1>6 DEF OneCommandAtATime, Running, Quiet
<1>10. StartedInOrder'
  BY <1>1, <1>2, <1>3, <1>4, <1>5 DEF StartedInOrder, TypeOK
<1>11. FinishedAreOver'
  <2>1. current # 0 => (Over(current) => Over(current)') /\ (Quiet(current) => Quiet(current)')
    BY <1>2, <1>5, <1>6 DEF Over, Quiet, Running, TypeOK, Calls
  <2>2. current # 0 /\ process[current] # "none" => process'[current] # "none"
    BY <1>1, <1>2 DEF TypeOK, Calls
  <2> QED
    BY <2>1, <2>2, <1>2, <1>3, <1>6 DEF FinishedAreOver
<1>12. OrphanOnlyBeforeNotify'
  BY <1>2, <1>3 DEF OrphanOnlyBeforeNotify
<1> QED
  BY <1>7, <1>8, <1>9, <1>10, <1>11, <1>12

LEMMA PipeClosesInv == ASSUME NEW k \in Calls PROVE IInv /\ PipeCloses(k) => IInv'
<1> SUFFICES ASSUME IInv, PipeCloses(k)
             PROVE  IInv'
  OBVIOUS
<1> USE DEF PipeCloses, channels, history, IInv, ForwardInv
<1>1. TypeOK'
  BY DEF TypeOK
<1>2. \A j \in Calls : /\ Over(j) => Over(j)'
                       /\ pipe[j] = "none" => pipe'[j] = "none"
  BY DEF Over, TypeOK
<1>3. ForwardedInTime' /\ HeardInTime' /\ OneCommandAtATime'
  BY <1>2 DEF ForwardedInTime, HeardInTime, OneCommandAtATime, Running, Quiet
<1>4. StartedInOrder'
  BY <1>2 DEF StartedInOrder
<1>5. FinishedAreOver'
  <2>1. current # 0 /\ Over(current) => Over(current)'
    BY <1>2 DEF TypeOK, Calls
  <2> QED
    BY <2>1 DEF FinishedAreOver, Over, Running, Quiet
<1>6. OrphanOnlyBeforeNotify'
  BY DEF OrphanOnlyBeforeNotify, Alive
<1> QED
  BY <1>1, <1>3, <1>4, <1>5, <1>6

LEMMA StutterInv == IInv /\ UNCHANGED vars => IInv'
BY DEF IInv, ForwardInv, TypeOK, ForwardedInTime, OneCommandAtATime, StartedInOrder,
       FinishedAreOver, HeardInTime, OrphanOnlyBeforeNotify, Running, Over, Quiet, vars, channels, history

LEMMA NextInv == IInv /\ [Next]_vars => IInv'
<1> SUFFICES ASSUME IInv, [Next]_vars
             PROVE  IInv'
  OBVIOUS
<1>1. CASE Call
  BY <1>1, StartFailsInv, StartInv, WaitInv, ReturnInv DEF Call
<1>2. CASE Signal
  BY <1>2, SignalInv
<1>3. ASSUME NEW k \in Calls, Goroutine(k)
      PROVE  IInv'
  BY <1>3, NotifyInv, ReceiveInv, FinishInv DEF Goroutine
<1>4. ASSUME NEW k \in Calls, CommandEnds(k) \/ PipeCloses(k)
      PROVE  IInv'
  BY <1>4, CommandEndsInv, PipeClosesInv
<1>5. CASE UNCHANGED vars
  BY <1>5, StutterInv
<1> QED
  BY <1>1, <1>2, <1>3, <1>4, <1>5 DEF Next

THEOREM InvariantHolds == Spec => []IInv
<1> QED
  BY InitInv, NextInv, PTL DEF Spec

-----------------------------------------------------------------------------
(***************************************************************************)
(* What follows.                                                           *)
(***************************************************************************)

\* However many commands bktec runs, and whenever a signal comes: a command gets no signal
\* that came before it was started, though the goroutines of earlier calls may still listen;
\* and no command runs beside an earlier one.
THEOREM SignalsFindTheirCommand == Spec => []ForwardInv
<1> QED
  BY InvariantHolds, PTL DEF IInv

\* A signal that kills bktec while a command runs came before that command's goroutine was
\* registered: there is no other moment in which a command can be left behind.
THEOREM OrphansAreUnregistered == Spec => []OrphanOnlyBeforeNotify
<1> QED
  BY InvariantHolds, PTL DEF IInv

=============================================================================
