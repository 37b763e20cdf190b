------------------------------- MODULE ApiCall -------------------------------
(***************************************************************************)
(* What one call of the API client promises its caller, whatever happens   *)
(* on the network: requests reach the server one after another until the   *)
(* first answer that decides the call, or until the caller is told that    *)
(* none came; then nothing more is sent.  ApiClient is shown to implement  *)
(* it, and SplitPlan's calls are calls of this kind.                       *)
(***************************************************************************)
EXTENDS Naturals

CONSTANT
  Deciding   \* the answers that decide a call

VARIABLES
  state,    \* "idle", "sent", "decided" or "over"
  answer,   \* the deciding answer
  outcome   \* what the caller is told: an answer, "timeout", "unexpected", or "none" yet

vars == <<state, answer, outcome>>

None == "none"

Init ==
  /\ state = "idle"
  /\ answer = None
  /\ outcome = None

Send ==
  /\ state = "idle"
  /\ state' = "sent"
  /\ UNCHANGED <<answer, outcome>>

\* The request, or its response, is lost, or the answer is a transient one.
Lose ==
  /\ state = "sent"
  /\ state' = "idle"
  /\ UNCHANGED <<answer, outcome>>

Decide ==
  /\ state = "sent"
  /\ \E a \in Deciding : answer' = a
  /\ state' = "decided"
  /\ UNCHANGED outcome

\* The caller is told the answer, unless what came with it is unusable.
Tell ==
  /\ state = "decided"
  /\ outcome' \in {answer, "unexpected"}
  /\ state' = "over"
  /\ UNCHANGED answer

TimeOut ==
  /\ state = "idle"
  /\ outcome' = "timeout"
  /\ state' = "over"
  /\ UNCHANGED answer

\* The request cannot be built.
Refuse ==
  /\ state = "idle"
  /\ outcome' = "unexpected"
  /\ state' = "over"
  /\ UNCHANGED answer

Next == Send \/ Lose \/ Decide \/ Tell \/ TimeOut \/ Refuse

Spec == Init /\ [][Next]_vars

=============================================================================
