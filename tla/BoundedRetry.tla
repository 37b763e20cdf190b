----------------------------- MODULE BoundedRetry -----------------------------
(***************************************************************************)
(* What a job promises about retries, without runners, files or errors: it *)
(* runs its tests in rounds; after a round it may, a bounded number of     *)
(* times, start another one for tests that are failing at that moment; and *)
(* once it has stopped it runs nothing more.                               *)
(* TestRun is shown to implement this specification.                       *)
(***************************************************************************)
EXTENDS Naturals

CONSTANT Tests

VARIABLES
  todo,     \* the tests of this round
  ran,      \* this round has been run
  failing,  \* the tests whose last known result is a failure
  left,     \* how many more rounds may be started
  stopped

vars == <<todo, ran, failing, left, stopped>>

Init ==
  /\ todo \in SUBSET Tests
  /\ ran = FALSE
  /\ failing = {}
  /\ left \in Nat
  /\ stopped = FALSE

\* A round may change the result of any test: a runner may report more than it was asked for.
Round ==
  /\ ~stopped /\ ~ran /\ todo # {}
  /\ ran' = TRUE
  /\ failing' \in SUBSET Tests
  /\ UNCHANGED <<todo, left, stopped>>

Again ==
  /\ ~stopped /\ ran /\ left > 0
  /\ todo' \in (SUBSET failing) \ {{}}
  /\ ran' = FALSE
  /\ left' = left - 1
  /\ UNCHANGED <<failing, stopped>>

Stop ==
  /\ ~stopped
  /\ ran \/ todo = {}
  /\ stopped' = TRUE
  /\ UNCHANGED <<todo, ran, failing, left>>

Next == Round \/ Again \/ Stop

Spec == Init /\ [][Next]_vars

FairSpec == Spec /\ WF_vars(Next)

=============================================================================
