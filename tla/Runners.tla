------------------------------- MODULE Runners -------------------------------
(***************************************************************************)
(* What sets the test runners of internal/runner apart: how each of them   *)
(* names a test so that the program it drives can run it again, how the    *)
(* command of a retry selects tests, and which status it reads from an     *)
(* entry of the program's result file.                                     *)
(*                                                                         *)
(* A test is a record of what its program knows of it: the words of the    *)
(* file's path (of the package, for go), the titles of the groups or       *)
(* classes around it, its own title, and the project it runs in, for       *)
(* playwright.  Words are atoms; what the code looks at inside a word is   *)
(* given by two constant sets.                                             *)
(***************************************************************************)
EXTENDS Naturals, FiniteSets, Sequences

CONSTANTS
  TestWords,   \* the words that start with test_ or end with _test
  CamelWords   \* the words that start with a capital letter

Programs == {"rspec", "jest", "vitest", "playwright", "cucumber", "pytestjson", "pytestjunit",
             "gotestjunit", "gotestjsonl", "custom", "cypress"}

GoPrograms     == {"gotestjunit", "gotestjsonl"}
PytestPrograms == {"pytestjson", "pytestjunit"}
PatternPrograms == {"jest", "vitest"}

\* The kinds of Run (TestRun) a program may be run by: the output of go test is captured
\* when it is go test itself, and not gotestsum, that writes the events.
Kinds(program) ==
  CASE program \in {"rspec", "jest", "playwright"} -> {"always"}
    [] program = "vitest"                          -> {"vitest"}
    [] program \in {"cucumber", "custom"}          -> {"testsonly"}
    [] program = "pytestjson"                      -> {"pytestjson"}
    [] program = "pytestjunit"                     -> {"pytestjunit"}
    [] program = "gotestjunit"                     -> {"exit1"}
    [] program = "gotestjsonl"                     -> {"exit1", "gojsonl"}
    [] program = "cypress"                         -> {"unread"}

-----------------------------------------------------------------------------
(***************************************************************************)
(* Naming a test.                                                          *)
(***************************************************************************)

\* The place of a test as its program names it: an example ID of RSpec, a location
\* file:line of Cucumber and Playwright, a node ID of pytest.
Place(t) == <<t.file, t.scope, t.name>>

RspecPath(example) == Place(example)

\* Specs of several projects share their location.
PlaywrightPath(spec) == Place(spec)

CucumberPath(scenario) == Place(scenario)

\* The collector's scope is file::class, so that scope::name is the node ID.
PytestJSONPath(t) == Place(t)

\* The last word named like a test file ends the module; without one, the module ends
\* before the first word that is capitalised like a class.
ModuleEnd(parts) ==
  LET testFiles == {i \in DOMAIN parts : parts[i] \in TestWords}
      classes   == {i \in DOMAIN parts : parts[i] \in CamelWords}
  IN  IF testFiles # {} THEN CHOOSE i \in testFiles : \A j \in testFiles : i >= j
      ELSE IF classes # {} THEN (CHOOSE i \in classes : \A j \in classes : i <= j) - 1
      ELSE Len(parts)

\* pytestNodeIDFromJUnit: the place of a test, guessed from a class name in which pytest
\* has joined the words of the file and the classes.
NodeIDFromJUnit(classname, name) ==
  <<SubSeq(classname, 1, ModuleEnd(classname)),
    SubSeq(classname, ModuleEnd(classname) + 1, Len(classname)),
    name>>

PytestJUnitPath(t) == NodeIDFromJUnit(t.file \o t.scope, t.name)

PathOf(program, t) ==
  CASE program = "rspec"       -> RspecPath(t)
    [] program = "playwright"  -> PlaywrightPath(t)
    [] program = "cucumber"    -> CucumberPath(t)
    [] program = "pytestjson"  -> PytestJSONPath(t)
    [] program = "pytestjunit" -> PytestJUnitPath(t)

\* The scope under which a test is reported and, with its name, muted.
ScopeOf(program, t) ==
  CASE program \in {"rspec", "jest", "vitest"}            -> t.scope
    [] program = "playwright"                             -> <<t.project>> \o t.file \o t.scope
    [] program \in PytestPrograms                         -> t.file \o t.scope
    [] program \in {"cucumber", "custom", "cypress"} \cup GoPrograms -> t.file

mutedTestIdentifier(program, t) == <<ScopeOf(program, t), t.name>>

\* A package that fails outside of its tests is recorded as a failed test TestMain, in
\* JUnit without the package's name, so that all such packages share one entry.
TestMain(program, package) ==
  [file |-> IF program = "gotestjunit" THEN <<>> ELSE package,
   scope |-> <<>>, name |-> "TestMain", project |-> ""]

-----------------------------------------------------------------------------
(***************************************************************************)
(* The command of a retry.                                                 *)
(***************************************************************************)

\* Fault: the blank between scope and name is there without a scope too.
VitestPatternWithBlank(t) == [afterBlank |-> t.scope = <<>>, words |-> Append(t.scope, t.name)]

\* A title pattern: words that must occur in a test's full title, at its start too
\* unless a blank must come before them.
VitestPattern(t) == [afterBlank |-> FALSE, words |-> Append(t.scope, t.name)]

\* Scope and name are joined by a blank even if there is no scope.
JestPattern(t) == [afterBlank |-> t.scope = <<>>, words |-> Append(t.scope, t.name)]

PatternOf(program, t) == IF program = "jest" THEN JestPattern(t) ELSE VitestPattern(t)

\* The program looks for the pattern anywhere in the full title.
Matches(pattern, t) ==
  LET title == Append(t.scope, t.name)
      size  == Len(pattern.words)
  IN  \E i \in (IF pattern.afterBlank THEN 2 ELSE 1)..(Len(title) - size + 1) :
        SubSeq(title, i, i + size - 1) = pattern.words

\* getPackages: a package without a name is passed over.
Packages(asked) == {t.file : t \in asked} \ {<<>>}

PathsOf(program, asked) == {PathOf(program, t) : t \in asked}

\* The tests of the suite a retry that is asked for some runs.
Selected(program, suite, asked) ==
  CASE program \in PatternPrograms -> {t \in suite : \E a \in asked : Matches(PatternOf(program, a), t)}
    [] program \in GoPrograms      -> {t \in suite : t.file \in Packages(asked)}
    [] OTHER                       -> {t \in suite : Place(t) \in PathsOf(program, asked)}

\* pytest refuses to run anything when it is given a node ID there is no test for.
RefusesPaths(program, suite, asked) ==
  program \in PytestPrograms /\ ~(PathsOf(program, asked) \subseteq {Place(t) : t \in suite})

\* gotest cannot build a command without a package.
CanBuildCommand(program, asked) == program \in GoPrograms => Packages(asked) # {}

-----------------------------------------------------------------------------
(***************************************************************************)
(* The entries of a result file, and the status each Run reads from one.   *)
(***************************************************************************)

RspecStatus(word) ==
  CASE word = "failed"  -> "failed"
    [] word = "passed"  -> "passed"
    [] word = "pending" -> "skipped"
    [] OTHER            -> "unknown"

JestStatus(word) ==
  CASE word = "failed"             -> "failed"
    [] word = "passed"             -> "passed"
    [] word \in {"pending", "todo"} -> "skipped"
    [] OTHER                       -> "unknown"

VitestStatus(word) == IF word = "skipped" THEN "skipped" ELSE JestStatus(word)

\* A spec is not ok, or its first test tells whether it was skipped.
PlaywrightStatus(spec) ==
  IF ~spec.ok THEN "failed" ELSE IF spec.first = "skipped" THEN "skipped" ELSE "passed"

\* Fault: a step that is undefined does not count as failed.
AggregatedLeniently(steps) ==
  IF \E i \in DOMAIN steps : steps[i] \in {"failed", "errored"} THEN "failed"
  ELSE IF \E i \in DOMAIN steps : steps[i] \in {"pending", "skipped"} THEN "pending"
  ELSE "passed"

\* AggregatedStatus of a scenario's steps: a failure decides, then a step not run.
AggregatedStatus(steps) ==
  IF \E i \in DOMAIN steps : steps[i] \in {"failed", "undefined", "errored"} THEN "failed"
  ELSE IF \E i \in DOMAIN steps : steps[i] \in {"pending", "skipped"} THEN "pending"
  ELSE "passed"

CucumberStatus(steps) ==
  LET aggregated == AggregatedStatus(steps)
  IN  IF aggregated = "pending" THEN "skipped" ELSE aggregated

\* The elements inside a testcase: a failure or an error comes before a skip.
JUnitStatus(elements) ==
  IF elements \cap {"failure", "error"} # {} THEN "failed"
  ELSE IF "skipped" \in elements THEN "skipped"
  ELSE "passed"

\* The actions go test prints for one test: once failed, a test stays failed; otherwise
\* the last one counts (-count runs a test more than once).
GoJSONLStatus(actions) ==
  IF \E i \in DOMAIN actions : actions[i] = "fail" THEN "failed"
  ELSE IF actions[Len(actions)] = "skip" THEN "skipped"
  ELSE "passed"

\* What may happen to a test, and what the program writes of it.
Entry(happened, written) == [happened |-> happened, written |-> written]

JUnitEntries == {Entry("passed", {}), Entry("failed", {"failure"}), Entry("failed", {"error"}),
                 Entry("skipped", {"skipped"})}

Entries(program) ==
  CASE program = "rspec" ->
         {Entry("passed", "passed"), Entry("failed", "failed"), Entry("skipped", "pending")}
    [] program = "jest" ->
         {Entry("passed", "passed"), Entry("failed", "failed"), Entry("skipped", "todo")}
    [] program = "vitest" ->
         {Entry("passed", "passed"), Entry("failed", "failed"), Entry("skipped", "skipped")}
    [] program = "playwright" ->
         {Entry("passed", [ok |-> TRUE, first |-> "expected"]),
          Entry("passed", [ok |-> TRUE, first |-> "flaky"]),
          Entry("failed", [ok |-> FALSE, first |-> "unexpected"]),
          Entry("skipped", [ok |-> TRUE, first |-> "skipped"])}
    [] program = "cucumber" ->
         {Entry("passed", <<"passed", "passed">>), Entry("failed", <<"failed", "skipped">>),
          Entry("failed", <<"passed", "undefined">>), Entry("skipped", <<"pending", "skipped">>)}
    [] program = "gotestjsonl" ->
         {Entry("passed", <<"pass">>), Entry("failed", <<"fail">>), Entry("skipped", <<"skip">>),
          Entry("failed", <<"fail", "pass">>)}
    [] program \in {"pytestjunit", "gotestjunit", "custom"} -> JUnitEntries
    [] program \in {"pytestjson", "cypress"} ->
         {Entry("passed", "passed"), Entry("failed", "failed"), Entry("skipped", "skipped")}

StatusRead(program, written) ==
  CASE program = "rspec"       -> RspecStatus(written)
    [] program = "jest"        -> JestStatus(written)
    [] program = "vitest"      -> VitestStatus(written)
    [] program = "playwright"  -> PlaywrightStatus(written)
    [] program = "cucumber"    -> CucumberStatus(written)
    [] program = "gotestjsonl" -> GoJSONLStatus(written)
    [] program \in {"pytestjunit", "gotestjunit", "custom"} -> JUnitStatus(written)
    [] program = "pytestjson"  -> written

\* What is written of a test of a file that was read but not selected by the pattern.
FilteredEntry(program) == IF program = "jest" THEN "pending" ELSE "skipped"

=============================================================================
