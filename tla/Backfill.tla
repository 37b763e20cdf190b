------------------------------- MODULE Backfill -------------------------------
(***************************************************************************)
(* bktec tools backfill-commit-metadata: BackfillCommitMetadata in         *)
(* internal/command/backfill_commit_metadata.go with the calls it makes    *)
(* into internal/git (fetch.go, filter.go, metadata.go), the packaging of  *)
(* the tarball and the upload to S3.                                       *)
(*                                                                         *)
(* A commit is a model value, and its record the pair of the commit and    *)
(* the commit whose diffs it carries.  How diffs are collected is in       *)
(* CollectDiffs, and how their bases are found in ForkPoint.  External:    *)
(* the server, git with its remote, the disk and S3.  Each may fail.       *)
(***************************************************************************)
EXTENDS Integers, FiniteSets, Sequences

CONSTANTS
  Commits,
  CommitList,     \* the list a server answers with when it has commits
  fetchChunkSize

Members(s) == {s[i] : i \in DOMAIN s}

ASSUME BackfillAssumption ==
  /\ IsFiniteSet(Commits)
  /\ CommitList \in Seq(Commits) /\ CommitList # <<>>
  /\ \A i, j \in DOMAIN CommitList : CommitList[i] = CommitList[j] => i = j
  /\ fetchChunkSize \in Nat \ {0}

Empty == "empty"   \* the diffs of a commit whose diffs could not be collected

VARIABLES
  mode,         \* upload the archive, write it to --output, or only --upload a file
  remote,       \* the commits the remote has
  local,        \* the commits the repository has
  pc,           \* the step of the command to be done next
  commits,      \* what the server listed
  existing, missing,  \* the two halves of commits, by the last filter
  todo,         \* the slices still to be fetched: the stack of fetchChunkBisect, with
                \* the chunks that FetchMissingCommits has not come to at its end
  unfetchable,
  metadata,     \* the commits metadataMap has an entry for
  diffs,        \* by position in existing
  records,
  form,         \* how many presigned forms the server gave out
  tarball,      \* the temporary file is on the disk
  output,       \* the file of --output: absent, partial or whole
  stored,       \* the forms under which S3 has stored the archive
  outcome,
  fetches,      \* history: how often git fetch was run
  refused       \* history: the commits git did not fetch when asked for one alone

inputs == <<mode, remote>>
fetchState == <<local, todo, unfetchable, fetches, refused>>
lists == <<commits, existing, missing>>
archive == <<metadata, diffs, records>>
delivery == <<form, tarball, output, stored>>
vars == <<inputs, fetchState, lists, archive, delivery, pc, outcome>>

Init ==
  /\ mode \in {"upload", "output", "uploadOnly"}
  /\ remote \in SUBSET Commits
  /\ local \in SUBSET Commits
  /\ pc = IF mode = "uploadOnly" THEN "presign" ELSE "list"
  /\ commits = <<>> /\ existing = <<>> /\ missing = <<>>
  /\ todo = <<>> /\ unfetchable = 0 /\ fetches = 0 /\ refused = {}
  /\ metadata = {} /\ diffs = <<>> /\ records = <<>>
  /\ form = 0 /\ tarball = FALSE /\ output = "absent" /\ stored = {}
  /\ outcome = "none"

End(how) == pc' = "done" /\ outcome' = how

Go(step) == pc' = step /\ UNCHANGED outcome

-----------------------------------------------------------------------------
\* What the server is asked for before any work is done.

FetchCommitList ==
  /\ pc = "list"
  /\ \/ /\ commits' = CommitList
        /\ Go(IF mode = "output" THEN "suite" ELSE "presign")
     \/ /\ UNCHANGED commits
        /\ \/ End("nothing")
           \/ End("failed")
  /\ UNCHANGED <<inputs, fetchState, existing, missing, archive, delivery>>

\* The answer also has the identifiers of organization and suite, and may lack them.
Presign ==
  /\ pc = "presign"
  /\ \/ /\ form' = 1
        /\ \/ Go(IF mode = "uploadOnly" THEN "upload" ELSE "branch")
           \/ mode # "uploadOnly" /\ End("failed")
     \/ End("failed") /\ UNCHANGED form
  /\ UNCHANGED <<inputs, fetchState, lists, archive, tarball, output, stored>>

GetSuite ==
  /\ pc = "suite"
  /\ Go("branch") \/ End("failed")
  /\ UNCHANGED <<inputs, fetchState, lists, archive, delivery>>

DetectDefaultBranch ==
  /\ pc = "branch"
  /\ Go("filter") \/ End("failed")
  /\ UNCHANGED <<inputs, fetchState, lists, archive, delivery>>

-----------------------------------------------------------------------------
\* Which commits there are, and fetching those that are missing.

\* The members of s that are in C, in the order of s, as a loop appends them.
Those(s, C) ==
  LET kept[n \in 0..Len(s)] == IF n = 0 THEN <<>>
                               ELSE IF s[n] \in C THEN Append(kept[n - 1], s[n])
                               ELSE kept[n - 1]
  IN  kept[Len(s)]

Chunks(s) ==
  [k \in 1..((Len(s) + fetchChunkSize - 1) \div fetchChunkSize) |->
     SubSeq(s, (k - 1) * fetchChunkSize + 1,
               IF k * fetchChunkSize < Len(s) THEN k * fetchChunkSize ELSE Len(s))]

FilterFails ==
  /\ pc \in {"filter", "refilter"}
  /\ End("failed")
  /\ UNCHANGED <<inputs, fetchState, lists, archive, delivery>>

Filter ==
  /\ existing' = Those(commits, local)
  /\ missing' = Those(commits, Commits \ local)

FilterExistingCommits ==
  /\ pc = "filter"
  /\ Filter
  /\ todo' = Chunks(missing')
  /\ Go(IF missing' = <<>> THEN "process" ELSE "fetch")
  /\ UNCHANGED <<inputs, local, unfetchable, fetches, refused, commits, archive, delivery>>

\* git fetch gets all it is asked for, with whatever that builds on, or nothing.
FetchWorks ==
  /\ pc = "fetch" /\ todo # <<>>
  /\ Members(Head(todo)) \subseteq remote
  /\ \E more \in SUBSET remote : local' = local \cup Members(Head(todo)) \cup more
  /\ todo' = Tail(todo)
  /\ fetches' = fetches + 1
  /\ UNCHANGED <<inputs, unfetchable, refused, lists, archive, delivery, pc, outcome>>

\* Fault: a slice that fails is given up as a whole.
GiveUpSlice ==
  /\ pc = "fetch" /\ todo # <<>>
  /\ todo' = Tail(todo)
  /\ unfetchable' = unfetchable + 1
  /\ refused' = IF Len(Head(todo)) = 1 THEN refused \cup Members(Head(todo)) ELSE refused
  /\ fetches' = fetches + 1
  /\ UNCHANGED <<inputs, local, lists, archive, delivery, pc, outcome>>

\* Fault: the halves share the commit in the middle.
OverlappingHalves ==
  /\ pc = "fetch" /\ todo # <<>>
  /\ LET slice == Head(todo)
         mid == Len(slice) \div 2
     IN  IF Len(slice) = 1
         THEN /\ todo' = Tail(todo)
              /\ unfetchable' = unfetchable + 1
              /\ refused' = refused \cup Members(slice)
         ELSE /\ todo' = <<SubSeq(slice, 1, mid + 1), SubSeq(slice, mid + 1, Len(slice))>> \o Tail(todo)
              /\ UNCHANGED <<unfetchable, refused>>
  /\ fetches' = fetches + 1
  /\ UNCHANGED <<inputs, local, lists, archive, delivery, pc, outcome>>

\* A failure, be it for one of the commits or of the network: a single commit is given up,
\* a slice is cut in halves, of which the left one comes first.
FetchFails ==
  /\ pc = "fetch" /\ todo # <<>>
  /\ LET slice == Head(todo)
         mid == Len(slice) \div 2
     IN  IF Len(slice) = 1
         THEN /\ todo' = Tail(todo)
              /\ unfetchable' = unfetchable + 1
              /\ refused' = refused \cup Members(slice)
         ELSE /\ todo' = <<SubSeq(slice, 1, mid), SubSeq(slice, mid + 1, Len(slice))>> \o Tail(todo)
              /\ UNCHANGED <<unfetchable, refused>>
  /\ fetches' = fetches + 1
  /\ UNCHANGED <<inputs, local, lists, archive, delivery, pc, outcome>>

FetchEnds ==
  /\ pc = "fetch" /\ todo = <<>>
  /\ Go("refilter")
  /\ UNCHANGED <<inputs, fetchState, lists, archive, delivery>>

Refilter ==
  /\ pc = "refilter"
  /\ Filter
  /\ Go("process")
  /\ UNCHANGED <<inputs, fetchState, commits, archive, delivery>>

-----------------------------------------------------------------------------
\* Collecting, and packaging.

Process ==
  /\ pc = "process"
  /\ IF existing = <<>> THEN End("nothing") ELSE Go("cache")
  /\ UNCHANGED <<inputs, fetchState, lists, archive, delivery>>

BuildMainlineCache ==
  /\ pc = "cache"
  /\ Go("metadata") \/ End("failed")
  /\ UNCHANGED <<inputs, fetchState, lists, archive, delivery>>

\* A record git prints may not be readable (a separator in the name of an author), and its
\* commit then has no entry.
FetchBulkMetadata ==
  /\ pc = "metadata"
  /\ \/ /\ metadata' \in SUBSET Members(existing)
        /\ Go("diffs")
     \/ End("failed") /\ UNCHANGED metadata
  /\ UNCHANGED <<inputs, fetchState, lists, diffs, records, delivery>>

CollectDiffs ==
  /\ pc = "diffs"
  /\ \E failed \in SUBSET DOMAIN existing :
       diffs' = [i \in DOMAIN existing |-> IF i \in failed THEN Empty ELSE existing[i]]
  /\ Go("assemble")
  /\ UNCHANGED <<inputs, fetchState, lists, metadata, records, delivery>>

WithMetadata == {i \in DOMAIN existing : existing[i] \in metadata}

Positions == Those([i \in DOMAIN existing |-> i], WithMetadata)

\* Fault: the diff is looked up by the place of the record, not of the commit.
DiffOfNextRecord(k) == [commit |-> existing[Positions[k]], diff |-> diffs[k]]

Record(k) == [commit |-> existing[Positions[k]], diff |-> diffs[Positions[k]]]

Assemble ==
  /\ pc = "assemble"
  /\ records' = [k \in DOMAIN Positions |-> Record(k)]
  /\ Go("tarball")
  /\ UNCHANGED <<inputs, fetchState, lists, metadata, diffs, delivery>>

\* CreateTarball removes its file if it fails.  Nobody removes it when its size cannot be had,
\* unless that is because it is gone.
CreateTarball ==
  /\ pc = "tarball"
  /\ \/ tarball' = TRUE /\ Go(IF mode = "output" THEN "copy" ELSE "upload")
     \/ tarball' \in BOOLEAN /\ End("failed")
  /\ UNCHANGED <<inputs, fetchState, lists, archive, form, output, stored>>

-----------------------------------------------------------------------------
\* Delivery.  removeTarball is set except after a failed upload.

CopyFile ==
  /\ pc = "copy"
  /\ \/ output' = "whole" /\ End("exported")
     \/ output' \in {output, "partial"} /\ End("failed")
  /\ tarball' = FALSE
  /\ UNCHANGED <<inputs, fetchState, lists, archive, form, stored>>

UploadToS3 ==
  /\ pc \in {"upload", "retry"}
  /\ stored' = stored \cup {form}
  /\ tarball' = FALSE
  /\ End("exported")
  /\ UNCHANGED <<inputs, fetchState, lists, archive, form, output>>

\* Fault: the tarball goes, whatever becomes of the upload.
UploadFailsCleanly ==
  /\ pc \in {"upload", "retry"}
  /\ stored' \in {stored, stored \cup {form}}
  /\ tarball' = FALSE
  /\ End("failed")
  /\ UNCHANGED <<inputs, fetchState, lists, archive, form, output>>

\* The network, a status of S3's or a file that cannot be read; of a lost answer nobody
\* knows whether the archive was stored.
UploadFails ==
  /\ pc \in {"upload", "retry"}
  /\ stored' \in {stored, stored \cup {form}}
  /\ End("failed")
  /\ UNCHANGED <<inputs, fetchState, lists, archive, form, tarball, output>>

\* Fault: any failure is worth a fresh form and a second upload.
RefreshAlways ==
  /\ pc = "upload"
  /\ stored' \in {stored, stored \cup {form}}
  /\ form' = 2 /\ Go("retry")
  /\ UNCHANGED <<inputs, fetchState, lists, archive, tarball, output>>

\* 403: nothing was stored, and once a fresh form is asked for.
Forbidden ==
  /\ pc = "upload"
  /\ \/ form' = 2 /\ Go("retry")
     \/ UNCHANGED form /\ End("failed")
  /\ UNCHANGED <<inputs, fetchState, lists, archive, tarball, output, stored>>

ServerSteps == FetchCommitList \/ Presign \/ GetSuite
GitSteps == \/ DetectDefaultBranch \/ FilterFails \/ FilterExistingCommits \/ FetchWorks
            \/ FetchFails \/ FetchEnds \/ Refilter \/ BuildMainlineCache
            \/ FetchBulkMetadata \/ CollectDiffs
OwnSteps == Process \/ Assemble \/ CreateTarball
DeliverySteps == CopyFile \/ UploadToS3 \/ UploadFails \/ Forbidden

Next == ServerSteps \/ GitSteps \/ OwnSteps \/ DeliverySteps

Spec == Init /\ [][Next]_vars

-----------------------------------------------------------------------------
(***************************************************************************)
(* Properties.                                                             *)
(***************************************************************************)

Steps == {"list", "presign", "suite", "branch", "filter", "fetch", "refilter", "process",
          "cache", "metadata", "diffs", "assemble", "tarball", "copy", "upload", "retry", "done"}

Fetching == pc = "fetch"
Fetched == pc \in {"process", "cache", "metadata", "diffs", "assemble", "tarball", "copy",
                   "upload", "retry"}

TypeOK ==
  /\ mode \in {"upload", "output", "uploadOnly"}
  /\ remote \subseteq Commits /\ local \subseteq Commits
  /\ pc \in Steps
  /\ commits \in Seq(Commits) /\ existing \in Seq(Commits) /\ missing \in Seq(Commits)
  /\ todo \in Seq(Seq(Commits) \ {<<>>})
  /\ unfetchable \in Nat /\ fetches \in Nat
  /\ refused \subseteq Commits
  /\ metadata \subseteq Commits
  /\ diffs \in Seq(Commits \cup {Empty})
  /\ records \in Seq([commit : Commits, diff : Commits \cup {Empty}])
  /\ form \in 0..2
  /\ tarball \in BOOLEAN
  /\ output \in {"absent", "partial", "whole"}
  /\ stored \subseteq 1..2
  /\ outcome \in {"none", "nothing", "exported", "failed"}

\* While fetching, every missing commit is here, refused, or in a slice still to be fetched.
NothingForgotten ==
  Fetching => \A c \in Members(missing) :
                c \in local \/ c \in refused \/ \E k \in DOMAIN todo : c \in Members(todo[k])

\* A commit is left out only if it was asked for on its own and refused: the failure of one
\* never takes another with it.  The warning counts at least the commits left out.
OnlyRefusedAreSkipped ==
  Fetched /\ mode # "uploadOnly" =>
    /\ Members(missing) \subseteq refused
    /\ Len(missing) <= unfetchable

\* However many commits the remote does not have, a fetch per commit and one per cut is
\* all the bisection takes, and no two slices overlap.
BisectionIsBounded ==
  Fetching =>
    /\ fetches < 2 * Len(missing)
    /\ \A k, l \in DOMAIN todo : k # l => Members(todo[k]) \cap Members(todo[l]) = {}

OneEach(s) == \A i, j \in DOMAIN s : s[i] = s[j] => i = j

Pending == UNION {Members(todo[k]) : k \in DOMAIN todo}

\* A slice has no commit twice.  What the fetches so far have left of the bound is enough
\* for what is pending: a slice of n commits takes at most 2 * n - 1 fetches.
SlicesAreCounted ==
  Fetching =>
    /\ \A k \in DOMAIN todo : OneEach(todo[k])
    /\ fetches + 2 * Cardinality(Pending) < 2 * Len(missing) + Len(todo)

\* The lists of existing and missing commits are those of the last filter, and the commits
\* given up by then are counted.
ListsAreFiltered ==
  /\ commits \in {<<>>, CommitList}
  /\ Cardinality(refused) <= unfetchable
  /\ pc \in {"list", "presign", "suite", "branch", "filter"} => refused = {} /\ fetches = 0
  /\ pc \in {"fetch", "refilter"} => Members(commits) \subseteq local \cup Members(missing)
  /\ pc = "refilter" => Members(missing) \subseteq local \cup refused
  /\ Fetched /\ mode # "uploadOnly" => /\ existing = Those(commits, local)
                                      /\ missing = Those(commits, Commits \ local)

\* What is collected of the existing commits is there when it is used.
CollectedInOrder ==
  LET diffed == {"assemble", "tarball", "copy", "upload", "retry"}
  IN  mode # "uploadOnly" =>
        /\ pc \in {"diffs"} \cup diffed => metadata \subseteq Members(existing)
        /\ pc \in diffed => /\ DOMAIN diffs = DOMAIN existing
                             /\ \A i \in DOMAIN existing : diffs[i] \in {existing[i], Empty}
        /\ pc \in diffed \ {"assemble"} => records = [k \in DOMAIN Positions |-> Record(k)]

\* Each mode has its own way to the end, and until then nothing is stored and the temporary
\* file is there from its creation on.
WaysToTheEnd ==
  /\ pc \in {"suite", "copy"} => mode = "output"
  /\ pc \in {"upload", "retry"} => mode # "output" /\ form \in 1..2
  /\ mode = "upload" /\ pc \notin {"list", "presign", "done"} => form \in 1..2
  /\ pc \notin {"presign", "upload", "retry", "done"} => mode # "uploadOnly"
  /\ pc # "done" => /\ outcome = "none" /\ stored = {}
                    /\ tarball <=> pc \in {"copy", "upload", "retry"} /\ mode # "uploadOnly"

\* What holds of the lists, of the bisection and of what is collected at every step.
FetchInv ==
  /\ TypeOK /\ NothingForgotten /\ BisectionIsBounded
  /\ SlicesAreCounted /\ ListsAreFiltered /\ CollectedInOrder /\ WaysToTheEnd

\* The archive has each commit of the list once, in the order of the list and with its own
\* diffs or none; what is not in it is skipped or had no readable metadata.
ArchiveIsFaithful ==
  pc \in {"tarball", "copy", "upload", "retry"} /\ mode # "uploadOnly" =>
    /\ \A k \in DOMAIN records : records[k].diff \in {records[k].commit, Empty}
    /\ Members(commits) = Members(missing) \cup Members(existing)
    /\ {records[k].commit : k \in DOMAIN records} = Members(existing) \cap metadata
    /\ Len(records) = Cardinality(metadata)
    /\ \A c \in Members(existing) : c \in local
    /\ \A k, l \in DOMAIN records :
         k < l => \E i, j \in DOMAIN commits :
                    i < j /\ commits[i] = records[k].commit /\ commits[j] = records[l].commit

\* "If the command fails during upload, it retains the generated tarball locally" (docs):
\* however the command ends after it has made its temporary file, or before, the file stays if
\* and only if an upload failed.
TarballKeptForRetry ==
  [][pc \notin {"tarball", "done"} /\ pc' = "done" =>
       (tarball' <=> pc \in {"upload", "retry"} /\ mode = "upload" /\ outcome' = "failed")]_vars

\* An archive is stored once, or its fate is unknown: a second upload is tried only when
\* the first is known to be without effect.  And a command that says it has exported
\* something has delivered it whole.
DeliveredOnce ==
  /\ Cardinality(stored) <= 1
  /\ outcome = "exported" => IF mode = "output" THEN output = "whole" ELSE stored # {}

\* Step 1 of the command "Verifies the API token has the required scopes (`read_suites` and
\* `write_suites`)" (docs): an upload that ends well has had both verified.
ScopesVerified ==
  mode = "upload" /\ outcome \in {"nothing", "exported"} => form > 0

=============================================================================
