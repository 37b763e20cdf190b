----------------------------- MODULE MCApiClient -----------------------------
(***************************************************************************)
(* Instances of ApiClient for TLC.  One tick stands for some five seconds: *)
(* the proportions of budget, time-out and intervals are the code's, the   *)
(* numbers of attempts they allow are smaller.                             *)
(***************************************************************************)
EXTENDS ApiClient

JSONCall   == [caller |-> "json",   budget |-> 8, attemptTimeout |-> 3]
UploadCall == [caller |-> "upload", budget |-> 6, attemptTimeout |-> 1]

MCCalls     == {JSONCall, UploadCall}
MCIntervals == {1, 3}
\* At once, soon, and beyond the budget.
MCResets    == {0, 2, 9}

=============================================================================
