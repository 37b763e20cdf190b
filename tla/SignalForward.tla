---------------------------- MODULE SignalForward ----------------------------
(***************************************************************************)
(* Running commands and forwarding signals to them:                        *)
(* runAndForwardSignalWithOutput in internal/runner/command.go, called for *)
(* one command after the other (the first run of the tests, then the       *)
(* retries, which runTestsWithRetry also starts after a command that was   *)
(* signaled or that could not be started, if failures are on record).      *)
(* Each call has a goroutine of its own, which may outlive it.             *)
(*                                                                         *)
(* External: the commands, who sends signals, and Go's os/signal, which    *)
(* offers a signal to every registered channel and drops it where there is *)
(* no room.  With no channel registered a signal has its default effect:   *)
(* "term" kills bktec, "urg" (with which Go's scheduler interrupts         *)
(* threads) and "chld" do nothing.                                         *)
(*                                                                         *)
(* A command whose output go test's runner copies into the result file     *)
(* (runCommand in gotest.go) is waited for until its pipe is closed, and   *)
(* a process it has started may keep the pipe open after its end.          *)
(***************************************************************************)
EXTENDS Integers, Sequences

CONSTANTS
  Commands,     \* how many commands are run at most
  MaxSignals    \* bound on the signals sent

ASSUME SignalAssumption == Commands \in Nat \ {0} /\ MaxSignals \in Nat

Calls == 1..Commands
Sent == {"term", "urg"}

VARIABLES
  current,     \* the call under way, or the last one; 0 before the first
  main,        \* where the call is, "killed" if a signal killed bktec
  process,     \* of each call: none, running, exited, signaled
  pipe,        \* of each call, the pipe of its output: none, open, closed
  forwarder,   \* of each call, its goroutine: none, spawned, listening, stopped
  sigCh,       \* of each call
  finishCh,    \* of each call: is it closed
  signals,     \* how many signals were sent
  arrived,     \* history: of each call, the signals that came while its command ran
  forwarded,   \* history: of each call, the signals forwarded to its running command
  dropped      \* history: of each call, those that came while its command ran and found
               \* its channel full

channels == <<sigCh, finishCh>>
history == <<arrived, forwarded, dropped>>
vars == <<current, main, process, pipe, forwarder, channels, signals, history>>

Init ==
  /\ current = 0
  /\ main = "between"
  /\ process = [k \in Calls |-> "none"]
  /\ pipe = [k \in Calls |-> "none"]
  /\ forwarder = [k \in Calls |-> "none"]
  /\ sigCh = [k \in Calls |-> <<>>]
  /\ finishCh = [k \in Calls |-> FALSE]
  /\ signals = 0
  /\ arrived = [k \in Calls |-> {}]
  /\ forwarded = [k \in Calls |-> {}]
  /\ dropped = [k \in Calls |-> {}]

-----------------------------------------------------------------------------
\* The call.

\* After any command, one that was signaled or could not be started among them, another may
\* come: a retry is decided on by what is on record, not by the error.
GoesOn == main' \in {"between", "over"}

\* A command that cannot be started has no goroutine.
StartFails ==
  /\ main = "between" /\ current < Commands
  /\ current' = current + 1
  /\ finishCh' = [finishCh EXCEPT ![current + 1] = TRUE]
  /\ GoesOn
  /\ UNCHANGED <<process, pipe, forwarder, sigCh, signals, history>>

\* The command gets bktec's own output, or a pipe that is copied.
Start ==
  /\ main = "between" /\ current < Commands
  /\ current' = current + 1
  /\ process' = [process EXCEPT ![current + 1] = "running"]
  /\ \E p \in {"none", "open"} : pipe' = [pipe EXCEPT ![current + 1] = p]
  /\ forwarder' = [forwarder EXCEPT ![current + 1] = "spawned"]
  /\ main' = "waiting"
  /\ UNCHANGED <<channels, signals, history>>

Wait ==
  /\ main = "waiting"
  /\ process[current] \in {"exited", "signaled"}
  /\ pipe[current] # "open"
  /\ main' = "waited"
  /\ UNCHANGED <<current, process, pipe, forwarder, channels, signals, history>>

\* Fault: the command's end is not told to the goroutine.
ReturnSilently ==
  /\ main = "waited"
  /\ GoesOn
  /\ UNCHANGED <<current, process, pipe, forwarder, channels, signals, history>>

\* The deferred close.
Return ==
  /\ main = "waited"
  /\ finishCh' = [finishCh EXCEPT ![current] = TRUE]
  /\ GoesOn
  /\ UNCHANGED <<current, process, pipe, forwarder, sigCh, signals, history>>

-----------------------------------------------------------------------------
\* Its goroutine.

\* Fault: the channel is taken over from the call before, with what is left in it.
NotifyUsed(k) ==
  /\ forwarder[k] = "spawned"
  /\ forwarder' = [forwarder EXCEPT ![k] = "listening"]
  /\ sigCh' = [sigCh EXCEPT ![k] = IF k = 1 THEN <<>> ELSE sigCh[k - 1]]
  /\ UNCHANGED <<current, main, process, pipe, finishCh, signals, history>>

Notify(k) ==
  /\ forwarder[k] = "spawned"
  /\ forwarder' = [forwarder EXCEPT ![k] = "listening"]
  /\ UNCHANGED <<current, main, process, pipe, channels, signals, history>>

\* Fault: only one of the two cases is selected, once ("without for loop").
ReceiveOnce(k) ==
  /\ forwarder[k] = "listening"
  /\ sigCh[k] # <<>>
  /\ forwarder' = [forwarder EXCEPT ![k] = "stopped"]
  /\ sigCh' = [sigCh EXCEPT ![k] = Tail(@)]
  /\ forwarded' = [forwarded EXCEPT ![k] = IF process[k] = "running" THEN @ \cup {Head(sigCh[k])} ELSE @]
  /\ UNCHANGED <<current, main, process, pipe, finishCh, signals, arrived, dropped>>

\* A signal to a command that is over goes nowhere.
Receive(k) ==
  /\ forwarder[k] = "listening"
  /\ sigCh[k] # <<>>
  /\ sigCh' = [sigCh EXCEPT ![k] = Tail(@)]
  /\ IF Head(sigCh[k]) # "chld" /\ process[k] = "running"
     THEN forwarded' = [forwarded EXCEPT ![k] = @ \cup {Head(sigCh[k])}]
     ELSE UNCHANGED forwarded
  /\ UNCHANGED <<current, main, process, pipe, forwarder, finishCh, signals, arrived, dropped>>

\* With both channels ready, select takes either.
Finish(k) ==
  /\ forwarder[k] = "listening"
  /\ finishCh[k]
  /\ forwarder' = [forwarder EXCEPT ![k] = "stopped"]
  /\ UNCHANGED <<current, main, process, pipe, channels, signals, history>>

-----------------------------------------------------------------------------
\* The world.

Alive == main # "killed"
Registered(k) == forwarder[k] = "listening"
Running(k) == process[k] = "running"
Over(k) == process[k] \in {"exited", "signaled"} /\ pipe[k] # "open"
Quiet(k) == ~Running(k) /\ pipe[k] # "open"

Room(k) == Len(sigCh[k]) < 1

\* What os/signal does with a signal, given which command is still running.
Offer(sig) ==
  /\ sigCh' = [k \in Calls |-> IF Registered(k) /\ Room(k) THEN Append(sigCh[k], sig) ELSE sigCh[k]]
  /\ main' = IF sig = "term" /\ \A k \in Calls : ~Registered(k) THEN "killed" ELSE main

Signal ==
  /\ main # "killed" /\ signals < MaxSignals
  /\ signals' = signals + 1
  /\ \E sig \in Sent :
       /\ Offer(sig)
       /\ arrived' = [k \in Calls |-> IF Running(k) THEN arrived[k] \cup {sig} ELSE arrived[k]]
       /\ dropped' = [k \in Calls |-> IF Running(k) /\ Registered(k) /\ ~Room(k)
                                      THEN dropped[k] \cup {sig} ELSE dropped[k]]
  /\ UNCHANGED <<current, process, pipe, forwarder, finishCh, forwarded>>

\* A command ends by itself, or of a signal: one forwarded, or one somebody sent it directly.
CommandEnds(k) ==
  /\ main # "killed"
  /\ Running(k)
  /\ \E how \in {"exited", "signaled"} : process' = [process EXCEPT ![k] = how]
  /\ \/ pipe' = [pipe EXCEPT ![k] = IF @ = "open" THEN "closed" ELSE @]
     \/ pipe[k] = "open" /\ UNCHANGED pipe
  /\ Offer("chld")
  /\ UNCHANGED <<current, forwarder, finishCh, signals, history>>

\* What a command left behind ends, or closes its output.
PipeCloses(k) ==
  /\ Alive
  /\ pipe[k] = "open" /\ ~Running(k)
  /\ pipe' = [pipe EXCEPT ![k] = "closed"]
  /\ UNCHANGED <<current, main, process, forwarder, channels, signals, history>>

Goroutine(k) == Alive /\ (Notify(k) \/ Receive(k) \/ Finish(k))
Call == StartFails \/ Start \/ Wait \/ Return

Next == Call \/ Signal \/ \E k \in Calls : Goroutine(k) \/ CommandEnds(k) \/ PipeCloses(k)

Spec == Init /\ [][Next]_vars

\* Goroutines go on, a select does not for ever overlook a channel that is ready (Go
\* chooses at random).  A command, and what it leaves behind, may run for ever.
FairSpec ==
  /\ Spec
  /\ WF_vars(Call)
  /\ \A k \in Calls : WF_vars(Goroutine(k)) /\ SF_vars(Alive /\ Finish(k))

-----------------------------------------------------------------------------
(***************************************************************************)
(* Properties.                                                             *)
(***************************************************************************)

TypeOK ==
  /\ current \in 0..Commands
  /\ main \in {"between", "waiting", "waited", "over", "killed"}
  /\ process \in [Calls -> {"none", "running", "exited", "signaled"}]
  /\ pipe \in [Calls -> {"none", "open", "closed"}]
  /\ forwarder \in [Calls -> {"none", "spawned", "listening", "stopped"}]
  /\ sigCh \in [Calls -> {<<>>} \cup {<<s>> : s \in Sent \cup {"chld"}}]
  /\ finishCh \in [Calls -> BOOLEAN]
  /\ signals \in 0..MaxSignals
  /\ \A h \in {arrived, forwarded, dropped} : h \in [Calls -> SUBSET Sent]

\* Though the goroutine of an earlier call may still listen when the next command runs, a
\* command never gets a signal that came before it was started.
ForwardedInTime == \A k \in Calls : forwarded[k] \subseteq arrived[k]

\* No command runs beside an earlier one, nor beside what holds the pipe of an earlier one:
\* the result file that is written from the pipe is complete when it is read, also when the
\* earlier one was signaled and is retried.
OneCommandAtATime == \A k \in Calls : k < current => Quiet(k)

\* Nothing is there of a call that has not begun, or whose command could not be started.
StartedInOrder ==
  \A k \in Calls :
    /\ process[k] = "none" <=> forwarder[k] = "none"
    /\ process[k] = "none" => sigCh[k] = <<>> /\ pipe[k] = "none"
    /\ k > current => process[k] = "none" /\ ~finishCh[k]

\* A call goes on when its command is over, and only then tells its goroutine.
FinishedAreOver ==
  /\ main \in {"waiting", "waited"} => current # 0 /\ process[current] # "none"
  /\ main = "waited" => Over(current)
  /\ main = "between" /\ current # 0 => Quiet(current)
  /\ \A k \in Calls : /\ forwarder[k] = "stopped" => finishCh[k]
                      /\ finishCh[k] => ~Running(k)

\* What waits in the channel of a running command came while it ran.
HeardInTime ==
  \A k \in Calls : Running(k) /\ sigCh[k] # <<>> => Head(sigCh[k]) \in arrived[k] \cup {"chld"}

\* What holds of every channel and its command.
ForwardInv ==
  /\ TypeOK /\ ForwardedInTime /\ OneCommandAtATime
  /\ StartedInOrder /\ FinishedAreOver /\ HeardInTime

\* A signal never kills bktec and leaves its command running, except in the moment between
\* the start of the command and its goroutine's Notify.
OrphanOnlyBeforeNotify ==
  main = "killed" => \A k \in Calls : Running(k) => forwarder[k] = "spawned"

\* Once a command is over, and nobody it started holds its pipe any more, its goroutine hears
\* of it and stops: none is left behind to swallow the signals of later calls, unless bktec
\* is gone.
ForwardersStop ==
  \A k \in Calls : Over(k) ~> forwarder[k] = "stopped" \/ ~Alive

\* "Runs the command and forwards any signals received to the command"
\* (runAndForwardSignal): while its goroutine listens, no signal is dropped.
SignalsAreForwarded == \A k \in Calls : "term" \notin dropped[k]

=============================================================================
