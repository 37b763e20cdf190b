---------------------------- MODULE RequestParams ----------------------------
(***************************************************************************)
(* What a plan is asked for: createRequestParam in                         *)
(* internal/command/request_param.go, with the prefixing of paths in       *)
(* path.go.  The runner knows its files by their own paths, the server by  *)
(* paths under the location prefix; the files the server picks out are     *)
(* split into examples, all others are asked for as they are.              *)
(*                                                                         *)
(* A path is its parts, ".." among them, and whether it is spelled with a  *)
(* leading "./".  Absolute paths are left out.  External: path/filepath,   *)
(* the server that picks files, and the runner that lists their examples.  *)
(***************************************************************************)
EXTENDS Integers, Sequences, SequencesExt

CONSTANTS
  Names,     \* of files and directories
  Targets,   \* the lists of test targets: sequences of paths
  LocationPrefixes  \* the location prefixes

Up == ".."
Parts == Names \cup {Up}
Path == [dot : BOOLEAN, parts : Seq(Parts)]

ASSUME RequestAssumption ==
  /\ Up \notin Names
  /\ \A ts \in Targets : ts \in Seq(Path) /\ \A i \in DOMAIN ts : ts[i].parts # <<>>
  /\ LocationPrefixes \subseteq Path

-----------------------------------------------------------------------------
(***************************************************************************)
(* Paths.                                                                  *)
(***************************************************************************)

\* What is left of a path when it is cleaned: two spellings of one file have the same.
Enter(sofar, part) ==
  IF part = Up /\ sofar # <<>> /\ Last(sofar) # Up THEN Front(sofar) ELSE Append(sofar, part)

Clean(parts) ==
  LET after[n \in 0..Len(parts)] == IF n = 0 THEN <<>> ELSE Enter(after[n - 1], parts[n])
  IN  after[Len(parts)]

NoPrefix  == [dot |-> FALSE, parts |-> <<>>]
DotPrefix == [dot |-> TRUE,  parts |-> <<>>]

\* Fault: everything is joined, "./" too, which cleaning takes away.
PrefixByJoin(path, prefix) ==
  IF prefix = NoPrefix THEN path ELSE [dot |-> FALSE, parts |-> Clean(prefix.parts \o path.parts)]

prefixPath(path, prefix) ==
  CASE prefix = NoPrefix  -> path
    [] prefix = DotPrefix -> [path EXCEPT !.dot = TRUE]
    [] OTHER -> [dot |-> FALSE, parts |-> Clean(prefix.parts \o path.parts)]

\* filepath.Rel: back from what only the prefix has, and on to what only the path has.  It
\* fails if there is a ".." in what only the prefix has, as in no path that has the prefix.
Rel(prefix, path) ==
  LET base   == Clean(prefix.parts)
      target == Clean(path.parts)
      shared == LongestCommonPrefix({base, target})
      n      == Len(shared)
  IN  [dot |-> FALSE, parts |-> [i \in 1..(Len(base) - n) |-> Up] \o SubSeq(target, n + 1, Len(target))]

trimFilePathPrefix(path, prefix) == IF prefix = NoPrefix THEN path ELSE Rel(prefix, path)

-----------------------------------------------------------------------------
VARIABLES
  features,   \* of the runner: SplitByExample, Skip, and whether it is pytest
  cfg,        \* TagFilters and SplitByExample
  prefix,
  targets,    \* requestTarget: value, and the path of its file
  pc,
  asked,      \* the paths handed to the runner
  listed,     \* those of them the runner found examples in
  examples,   \* the paths of the examples of the request
  selectors   \* the values of the selectors of the request

inputs == <<features, cfg, prefix, targets>>
vars == <<inputs, pc, asked, listed, examples, selectors>>

newRequestTargets(values, p) ==
  [i \in DOMAIN values |-> [value |-> values[i], path |-> prefixPath(values[i], p)]]

\* Skipping takes examples; only pytest filters by tag.
Features == {f \in [splitByExample : BOOLEAN, skip : BOOLEAN, pytest : BOOLEAN] :
               f.skip \/ f.pytest => f.splitByExample}

Init ==
  /\ features \in Features
  /\ cfg \in [tagFilters : BOOLEAN, splitByExample : BOOLEAN]
  /\ prefix \in LocationPrefixes
  /\ \E values \in Targets : targets = newRequestTargets(values, prefix)
  /\ pc = "choose"
  /\ asked = {} /\ listed = {} /\ examples = {} /\ selectors = {}

shouldFilterAndSplitSelectorFiles == features.splitByExample /\ (cfg.splitByExample \/ features.skip)

Values(ts) == {ts[i].value : i \in DOMAIN ts}
Paths(ts)  == {ts[i].path : i \in DOMAIN ts}

EncodeAll ==
  /\ selectors' = Values(targets)
  /\ pc' = "done"
  /\ UNCHANGED <<inputs, asked, listed, examples>>

\* All files are split, to have their examples filtered.
FilteredByTag == features.splitByExample /\ cfg.tagFilters /\ features.pytest

requestTestParams ==
  /\ pc = "choose"
  /\ IF FilteredByTag
     THEN /\ asked' = {trimFilePathPrefix(p, prefix) : p \in Paths(targets)}
          /\ pc' = "examples"
          /\ UNCHANGED <<inputs, listed, examples, selectors>>
     ELSE IF shouldFilterAndSplitSelectorFiles
     THEN pc' = "filter" /\ UNCHANGED <<inputs, asked, listed, examples, selectors>>
     ELSE EncodeAll

\* Fault: what remains is looked up by the targets' own spelling.
RemainingByValue(filtered) == {targets[i].value : i \in {j \in DOMAIN targets : targets[j].value \notin filtered}}

\* The values of the targets whose files the server did not pick.
Remaining(filtered) == {targets[i].value : i \in {j \in DOMAIN targets : targets[j].path \notin filtered}}

\* The server picks any of the files, by the paths it was sent; none leaves all as they are.
FilterTests ==
  /\ pc = "filter"
  /\ \E filtered \in SUBSET Paths(targets) :
       IF filtered = {} THEN EncodeAll
       ELSE /\ asked' = {trimFilePathPrefix(p, prefix) : p \in filtered}
            /\ selectors' = Remaining(filtered)
            /\ pc' = "examples"
            /\ UNCHANGED <<inputs, listed, examples>>

\* The runner lists the examples of the files, some with "./" before each path, some not.  A
\* file may have none, or none with the tag.
GetExamples ==
  /\ pc = "examples"
  /\ listed' \in SUBSET asked
  /\ \E dot \in BOOLEAN :
       examples' = {prefixPath([dot |-> dot, parts |-> Clean(f.parts)], prefix) : f \in listed'}
  /\ pc' = "done"
  /\ UNCHANGED <<inputs, asked, selectors>>

\* The server, or the runner, fails, and with it the request.
Fail ==
  /\ pc \in {"filter", "examples"}
  /\ pc' = "failed"
  /\ UNCHANGED <<inputs, asked, listed, examples, selectors>>

Next == requestTestParams \/ FilterTests \/ GetExamples \/ Fail

Spec == Init /\ [][Next]_vars

-----------------------------------------------------------------------------
(***************************************************************************)
(* Properties.                                                             *)
(***************************************************************************)

\* The file of a path for the server, from the root of the repository, and of a path for the
\* runner, which is in the directory of the prefix.
File(path) == Clean(path.parts)
FileForServer(path) == Clean(prefix.parts \o path.parts)

\* Every target is asked for once: as a selector, or by its file being handed to the runner
\* for its examples.
EveryTargetOnce ==
  pc = "done" =>
    \A i \in DOMAIN targets :
      LET v == targets[i].value
      IN  v \in selectors <=> \A a \in asked : FileForServer(a) # FileForServer(v)

\* The examples are of the files the runner found them in, each of these and no others, under
\* paths the server knows them by: with the prefix, and with "./" where that is the prefix.
ExamplesAreTheServers ==
  /\ {File(p) : p \in examples} = {FileForServer(f) : f \in listed}
  /\ prefix = DotPrefix => examples \subseteq [dot : {TRUE}, parts : {p.parts : p \in examples}]

=============================================================================
