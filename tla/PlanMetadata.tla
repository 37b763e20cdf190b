----------------------------- MODULE PlanMetadata -----------------------------
(***************************************************************************)
(* The git metadata of a plan request: autoCollectGitMetadata in           *)
(* internal/command/plan.go and internal/git/auto_metadata.go.             *)
(*                                                                         *)
(* A ref, and every other value, is the sequence of its parts, and <<>> is *)
(* the empty string.  The value of a diff is the ref it was taken against, *)
(* or <<>> when nothing differs.  One key stands for every key of its      *)
(* phase that can be absent in the same ways.                              *)
(*                                                                         *)
(* External: git, whose refs do not change while bktec asks for them, and  *)
(* of whose log, merge-base and diff any call may fail.                    *)
(***************************************************************************)
EXTENDS Integers, Sequences

CONSTANTS
  RefSets,     \* the sets of refs a repository may have
  Candidates,  \* base branches as they are given, <<>> for none
  Remotes      \* configured remotes, "" for none

PlanMetadataAssumption ==
  /\ <<>> \in Candidates
  /\ \A refs \in RefSets : <<>> \notin refs

CommitKeys == {"commit_sha", "parent_shas"}
DiffKeys   == {"files_changed", "git_diff"}

Empty == <<>>
NoMetadata == <<>>   \* the map of no keys

VARIABLES
  refs,         \* what rev-parse --verify finds
  remoteHead,   \* what the HEAD of the remote names, which need not exist
  remote,
  prBase,       \* BUILDKITE_PULL_REQUEST_BASE_BRANCH
  user,         \* cfg.Metadata as given
  isNil,        \* it is not a map at all
  pc,
  baseBranch,
  metadata,     \* what was collected
  sent          \* cfg.Metadata of the request

environment == <<refs, remoteHead, remote, prBase, user, isNil>>
vars == <<environment, pc, baseBranch, metadata, sent>>

UserMaps ==
  {[k \in ks |-> IF k = "base_branch" THEN c ELSE <<"user">>] :
     ks \in SUBSET {"base_branch", "commit_sha", "git_diff"}, c \in Candidates}

Init ==
  /\ refs \in RefSets
  /\ remoteHead \in {Empty, <<"origin", "main">>}
  /\ remote \in Remotes
  /\ prBase \in Candidates
  /\ user \in UserMaps
  /\ isNil \in {user = NoMetadata, FALSE}
  /\ pc = "repository"
  /\ baseBranch = Empty
  /\ metadata = NoMetadata
  /\ sent = NoMetadata

-----------------------------------------------------------------------------
(***************************************************************************)
(* The base branch.                                                        *)
(***************************************************************************)

Under(branch) == <<remote>> \o branch

\* Fault: a candidate is always put under the remote.
ProbeUnderRemote(candidate) ==
  IF candidate # Empty /\ Under(candidate) \in refs THEN Under(candidate) ELSE Empty

\* As it is given, or else under the remote.
Probe(candidate) ==
  IF candidate = Empty THEN Empty
  ELSE IF candidate \in refs THEN candidate
  ELSE ProbeUnderRemote(candidate)

\* The HEAD of the remote is taken without a look at what it names.
DetectDefaultBranch ==
  IF remoteHead # Empty THEN remoteHead
  ELSE IF Under(<<"main">>) \in refs THEN Under(<<"main">>)
  ELSE ProbeUnderRemote(<<"master">>)

ResolveBaseBranch(explicit) ==
  LET ways  == <<Probe(explicit), Probe(prBase), DetectDefaultBranch>>
      found == {i \in DOMAIN ways : ways[i] # Empty}
  IN  IF remote = "" \/ found = {} THEN Empty ELSE ways[CHOOSE i \in found : \A j \in found : i <= j]

Explicit == IF "base_branch" \in DOMAIN user THEN user["base_branch"] ELSE Empty

-----------------------------------------------------------------------------
(***************************************************************************)
(* Collecting and merging.                                                 *)
(***************************************************************************)

NonEmpty(map) == [k \in {j \in DOMAIN map : map[j] # Empty} |-> map[k]]

\* One map, with what only the other has.
Over(map, other) ==
  [k \in DOMAIN map \cup DOMAIN other |-> IF k \in DOMAIN map THEN map[k] ELSE other[k]]

mergeNonEmpty(dst, src) == Over(NonEmpty(src), dst)

MergeMetadata(existing, auto) == IF isNil THEN auto ELSE Over(existing, NonEmpty(auto))

Done(map) == sent' = map /\ pc' = "done"

autoCollectGitMetadata ==
  /\ pc = "repository"
  /\ \/ Done(user) /\ UNCHANGED <<baseBranch, metadata>>
     \/ /\ baseBranch' = ResolveBaseBranch(Explicit)
        /\ pc' = "commit"
        /\ UNCHANGED <<metadata, sent>>
  /\ UNCHANGED environment

\* git log may fail; a root commit has no parents.
collectCommitMetadata ==
  /\ pc = "commit"
  /\ \/ UNCHANGED metadata
     \/ \E parents \in {Empty, <<"auto">>} :
          metadata' = mergeNonEmpty(metadata, [k \in CommitKeys |-> IF k = "parent_shas" THEN parents ELSE <<"auto">>])
  /\ pc' = IF baseBranch = Empty THEN "context" ELSE "diff"
  /\ UNCHANGED <<environment, baseBranch, sent>>

\* No merge base, no diffs; each diff may fail, or be empty, for itself.
collectDiffMetadata ==
  /\ pc = "diff"
  /\ \/ UNCHANGED metadata
     \/ /\ baseBranch \in refs
        /\ \E diffs \in [DiffKeys -> {Empty, baseBranch}] :
             metadata' = mergeNonEmpty(metadata, diffs)
  /\ pc' = "context"
  /\ UNCHANGED <<environment, baseBranch, sent>>

\* The branch comes from git, or from the environment, or is left out.
collectContextFields ==
  /\ pc = "context"
  /\ \E branch \in {Empty, <<"auto">>} :
       metadata' = mergeNonEmpty(metadata, [branch |-> branch, base_branch |-> baseBranch])
  /\ pc' = "merge"
  /\ UNCHANGED <<environment, baseBranch, sent>>

Merge ==
  /\ pc = "merge"
  /\ Done(MergeMetadata(user, metadata))
  /\ UNCHANGED <<environment, baseBranch, metadata>>

Next ==
  \/ autoCollectGitMetadata \/ collectCommitMetadata \/ collectDiffMetadata
  \/ collectContextFields \/ Merge

Spec == Init /\ [][Next]_vars

-----------------------------------------------------------------------------
(***************************************************************************)
(* Properties.                                                             *)
(***************************************************************************)

Collected == DOMAIN sent \ DOMAIN user
DiffsSent == Collected \cap DiffKeys

\* What the user gave is sent as it was given, and what was collected fills in the rest,
\* without empty values: not even when the user gave no metadata, and MergeMetadata returns
\* what was collected unseen.
MergeIsFaithful ==
  pc = "done" => /\ \A k \in DOMAIN user : k \in DOMAIN sent /\ sent[k] = user[k]
                 /\ \A k \in Collected : sent[k] = metadata[k] /\ sent[k] # Empty

\* Diffs are against the base the user named whenever that names a ref, as it is or under
\* the remote; and always against a ref that exists, with a base branch sent along.
ExplicitBaseIsDiffed ==
  \A k \in DiffsSent :
    /\ sent[k] \in refs /\ "base_branch" \in DOMAIN sent
    /\ Explicit \in refs => sent[k] = Explicit
    /\ Explicit # Empty /\ Explicit \notin refs /\ Under(Explicit) \in refs => sent[k] = Under(Explicit)

\* The comment in collectContextFields calls base_branch "the resolved base ref": what is
\* sent as base_branch is what the diffs are against, in short or in full.
BaseSentIsBaseDiffed ==
  Explicit # Empty => \A k \in DiffsSent : sent[k] \in {sent["base_branch"], Under(sent["base_branch"])}

=============================================================================
