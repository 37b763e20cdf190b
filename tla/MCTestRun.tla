------------------------------ MODULE MCTestRun ------------------------------
(***************************************************************************)
(* Instances of TestRun for TLC.                                           *)
(***************************************************************************)
EXTENDS TestRun

CONSTANTS t1, t2

MCTests == {t1, t2}
MCMuted == {t2}
MCSignals == {9}
MCExitCodes == {1, 2}

\* Every report over two tests, with an error outside of them or without.
MCReports ==
  [results : [MCTests -> {"passed", "failed", "skipped", "unknown", Absent}], outside : BOOLEAN]

MissingFile  == [kind |-> "missing", says |-> EmptyReport, writer |-> 0]
\* What an earlier job left: a report with a muted failure only, and one with a hard one.
MutedFailure == [kind |-> "readable", writer |-> 0,
                 says |-> [results |-> [t \in MCTests |-> IF t = t2 THEN "failed" ELSE "passed"],
                           outside |-> FALSE]]
HardFailure  == [kind |-> "readable", writer |-> 0,
                 says |-> [results |-> [t \in MCTests |-> "failed"], outside |-> FALSE]]

MCFirstReports == {MissingFile, MutedFailure, HardFailure}

BaseConfig == [runner |-> "always", maxRetries |-> 1, retryForMuted |-> FALSE,
               failOnNoTests |-> FALSE, promiseFailure |-> TRUE, uploadResults |-> TRUE,
               fallback |-> FALSE]

\* Every kind of runner with one retry; two retries, of muted failures too; and each other
\* choice once: a fallback plan, a job that fails without tests, that promises or uploads nothing.
MCConfigs ==
  {[BaseConfig EXCEPT !.runner = r] : r \in Runners}
  \cup {[BaseConfig EXCEPT !.maxRetries = 2, !.retryForMuted = TRUE],
        [BaseConfig EXCEPT !.fallback = TRUE],
        [BaseConfig EXCEPT !.failOnNoTests = TRUE, !.retryForMuted = TRUE],
        [BaseConfig EXCEPT !.promiseFailure = FALSE],
        [BaseConfig EXCEPT !.uploadResults = FALSE]}

=============================================================================
