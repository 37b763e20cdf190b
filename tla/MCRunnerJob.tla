----------------------------- MODULE MCRunnerJob -----------------------------
(***************************************************************************)
(* Instances of RunnerJob for TLC: suites of up to three tests, with names *)
(* that one another's patterns and paths might catch.                      *)
(***************************************************************************)
EXTENDS RunnerJob

MCTestWords  == {"test_auth", "Auth_test"}
MCCamelWords == {"Maths", "TestLogin", "Sums"}

Test(path, scope, name) == [file |-> path, scope |-> scope, name |-> name, project |-> ""]

auth   == <<"tests", "test_auth">>
checks == <<"Maths", "test_auth">>

\* The same title inside a class and without one.
inClass  == Test(auth, <<"TestLogin">>, "works")
topLevel == Test(auth, <<>>, "works")
\* A test of another file, in a directory that is named like a class; the muted one.
other == Test(checks, <<"Sums">>, "works")
muted == Test(checks, <<"Sums">>, "adds")
\* The same location in two projects.
chromium == [inClass EXCEPT !.project = "chromium"]
firefox  == [inClass EXCEPT !.project = "firefox"]
\* A class that is named like a file.
misnamed == Test(auth, <<"Auth_test">>, "works")

MCTests ==
  {inClass, topLevel, other, muted, chromium, firefox, misnamed}
  \cup {TestMain(p, f) : p \in GoPrograms, f \in {auth, checks}}

MCMuted     == {muted}
MCSignals   == {9}
MCExitCodes == {1, 2, 4}
MCReports   == {EmptyReport}

MCFirstReports == {[kind |-> "missing", says |-> EmptyReport, writer |-> 0]}

Job(p, tests0, faults) == [program |-> p, suite |-> tests0, namesFiles |-> FALSE, faults |-> faults]

\* A muted test beside one that is not, in two files, any of which may not load.
Plain == {Job(p, {inClass, other, muted}, {"unloadable"}) : p \in Programs \ {"custom", "cypress", "cucumber"}}

MCScenarios ==
  Plain
  \cup {Job(p, {inClass, muted}, {}) : p \in {"custom", "cypress"}}
  \cup {Job(p, {inClass, topLevel, muted}, {}) : p \in {"vitest", "pytestjson", "pytestjunit"}}
  \cup {[Job(p, {inClass, other, muted}, {"unloadable"}) EXCEPT !.namesFiles = TRUE] :
          p \in PatternPrograms}
  \cup {Job("rspec", {}, {}),
        Job("playwright", {chromium, firefox}, {"unloadable"}),
        Job("cucumber", {inClass, other, muted}, {}),
        Job("cucumber", {inClass, other}, {"unloadable"}),
        Job("pytestjunit", {misnamed, muted}, {}),
        Job("rspec", {inClass, other}, {"crashed"}),
        Job("gotestjsonl", {inClass, other}, {"crashed"}),
        Job("gotestjunit", {inClass, topLevel}, {"crashed", "unloadable"})}

\* Jest with a test outside of any group.
JestTopLevel == {Job("jest", {inClass, topLevel}, {})}

\* Jobs FailuresAreNoticed is false of.  Packages that crash outside of their tests: two of
\* them in JUnit, where they share an entry without a package; one beside a muted failure.
GoTestCrashes == {Job("gotestjunit", {inClass, other}, {"crashed"}),
                  Job("gotestjsonl", {inClass, muted}, {"crashed"})}

\* A muted failure whose file does not load in the retry.
CucumberLoads == {Job("cucumber", {inClass, muted}, {"unloadable"})}

BaseConfig == [runner |-> "always", maxRetries |-> 1, retryForMuted |-> FALSE,
               failOnNoTests |-> FALSE, promiseFailure |-> TRUE, uploadResults |-> TRUE,
               fallback |-> FALSE]

\* No retry, one, and two, of muted failures as well; a fallback plan mutes nothing.
MCConfigs ==
  UNION {{[BaseConfig EXCEPT !.runner = r],
          [BaseConfig EXCEPT !.runner = r, !.maxRetries = 0],
          [BaseConfig EXCEPT !.runner = r, !.fallback = TRUE],
          [BaseConfig EXCEPT !.runner = r, !.maxRetries = 2, !.retryForMuted = TRUE]} : r \in Runners}

=============================================================================
