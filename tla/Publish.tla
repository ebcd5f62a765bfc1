------------------------------ MODULE Publish ------------------------------
(***************************************************************************)
(* The git publishers (internal/publish): a clone of the registry          *)
(* repository that bzlhub owns, the remote it pushes to, other committers  *)
(* of that repository and, for GitPRPublisher, the forge.  A publisher     *)
(* serialises its Publish calls with a mutex; between two git commands the *)
(* remote may move, and a call may fail or the process die.                *)
(*                                                                         *)
(* A tree is the set of version directories it holds and the set of        *)
(* versions its metadata.json files list; what a single file write can do  *)
(* wrong is in module Ingest.                                              *)
(***************************************************************************)
EXTENDS Naturals, FiniteSets

CONSTANTS Coord,          \* the <<module, version>> pairs that are published
          Modes,          \* the strategies a process may be configured with
          Faults,         \* may git, disk or the process fail?
          ForgeFaults,    \* may OpenPR fail?
          MaxCommits,     \* bound: commits on the base branch
          NoCoord         \* model value: the base branch is checked out

ASSUME PublishAssumption ==
    /\ MaxCommits \in Nat /\ NoCoord \notin Coord
    /\ {Faults, ForgeFaults} \subseteq BOOLEAN /\ Modes \subseteq {"git-direct", "git-pr"}

VARIABLES mode,      \* the strategy of this process
          main,      \* remote base branch: [n: its tip, dirs, listed]
          branches,  \* remote feature branches: set of [c, dirs, listed]
          prs,       \* coordinates with an open pull request
          disk,      \* the working tree
          index,     \* the git index: what is tracked, and its content
          local,     \* the checked-out commit: [n: the remote commit it builds on, dirs, listed]
          head,      \* the feature branch checked out in the clone, or NoCoord
          job,       \* the Publish call in progress
          last,      \* how the last call ended: [c, res, disturbed]
          landed,    \* history: coordinates somebody was told are on the base branch
          unopened,  \* history: coordinates whose branch was pushed and whose OpenPR failed
          cutShort   \* history: coordinates whose files were written and not staged

publishVars == <<mode, main, branches, prs, disk, index, local, head, job, last, landed, unopened, cutShort>>
clone == <<disk, index, local, head>>
remote == <<mode, main, branches, prs>>

Tree  == [dirs : SUBSET Coord, listed : SUBSET Coord]
Bare  == [dirs |-> {}, listed |-> {}]
TreeOf(t) == [dirs |-> t.dirs, listed |-> t.listed]
Commit(n, t) == [n |-> n, dirs |-> t.dirs, listed |-> t.listed]
OfName(S, m) == {c \in S : c[1] = m}

Idle == [pc |-> "idle", c |-> NoCoord, attempt |-> 0, disturbed |-> FALSE]

PublishInit ==
    /\ mode \in Modes
    /\ main = Commit(0, Bare) /\ local = main
    /\ branches = {} /\ prs = {}
    /\ disk = Bare /\ index = Bare
    /\ head = NoCoord
    /\ job = Idle
    /\ last = [c |-> NoCoord, res |-> "none", disturbed |-> FALSE]
    /\ landed = {} /\ unopened = {} /\ cutShort = {}

At(pc) == job.pc = pc
GoTo(pc) == job' = [job EXCEPT !.pc = pc]

\* The call returns and the mutex is released.
Return(res) ==
    /\ job' = Idle
    /\ last' = [c |-> job.c, res |-> res, disturbed |-> job.disturbed]

-----------------------------------------------------------------------------
(***************************************************************************)
(* Steps of both publishers                                                *)
(***************************************************************************)
\* Publish takes the mutex and validates the request.
Publish(c) ==
    /\ At("idle")
    /\ job' = [Idle EXCEPT !.pc = "sync", !.c = c]
    /\ UNCHANGED <<remote, clone, last, landed, unopened, cutShort>>

\* git reset --hard: tracked files become those of the target, files the
\* index never knew stay where they are.
ResetHard(t) ==
    /\ disk' = [dirs   |-> t.dirs \cup (disk.dirs \ index.dirs),
                listed |-> t.listed \cup {c \in disk.listed :
                               OfName(t.listed \cup index.listed, c[1]) = {}}]
    /\ index' = TreeOf(t)
    /\ local' = t

\* Mutant: fetch without the reset.
SyncFetchOnly ==
    /\ At("sync")
    /\ GoTo(IF mode = "git-pr" THEN "exists" ELSE "write")
    /\ UNCHANGED <<remote, clone, last, landed, unopened, cutShort>>

\* syncToRemoteTip, syncToBase.
Sync ==
    /\ At("sync")
    /\ GoTo(IF mode = "git-pr" THEN "exists" ELSE "write")
    /\ ResetHard(main)
    /\ UNCHANGED <<remote, head, last, landed, unopened, cutShort>>

\* FilesystemPublisher: source.json and MODULE.bazel ...
WriteFiles ==
    /\ At("write") /\ GoTo("merge")
    /\ disk' = [disk EXCEPT !.dirs = @ \cup {job.c}]
    /\ UNCHANGED <<remote, index, local, head, last, landed, unopened, cutShort>>

\* ... then metadata.json, merged with the one on disk.
MergeMetadata ==
    /\ At("merge") /\ GoTo("stage")
    /\ disk' = [disk EXCEPT !.listed = @ \cup {job.c}]
    /\ UNCHANGED <<remote, index, local, head, last, landed, unopened, cutShort>>

\* git add -- modules/<module>: everything below the module's directory.
Stage ==
    /\ At("stage") /\ GoTo("commit")
    /\ LET m == job.c[1]
       IN  index' = [dirs   |-> index.dirs \cup OfName(disk.dirs, m),
                     listed |-> (index.listed \ OfName(index.listed, m))
                                  \cup OfName(disk.listed, m)]
    /\ UNCHANGED <<remote, disk, local, head, last, landed, unopened, cutShort>>

\* commitWith: git commit fails when there is nothing to commit.
CommitWith ==
    /\ At("commit")
    /\ \/ /\ index # TreeOf(local)
          /\ local' = Commit(local.n, index)
          /\ GoTo("push") /\ UNCHANGED last
       \/ /\ index = TreeOf(local)
          /\ Return("empty") /\ UNCHANGED local
    /\ UNCHANGED <<remote, disk, index, head, landed, unopened, cutShort>>

-----------------------------------------------------------------------------
(***************************************************************************)
(* GitDirectPublisher: push to the base branch, one re-sync and retry      *)
(***************************************************************************)
FastForward == local.n = main.n

\* Mutant: the push is forced.
PushForced ==
    /\ mode = "git-direct" /\ At("push") /\ main.n < MaxCommits
    /\ main' = Commit(main.n + 1, local)
    /\ Return("ok") /\ landed' = landed \cup {job.c}
    /\ UNCHANGED <<mode, branches, prs, clone, unopened, cutShort>>

Push ==
    /\ mode = "git-direct" /\ At("push")
    /\ \/ /\ FastForward /\ main.n < MaxCommits
          /\ main' = Commit(main.n + 1, local)
          /\ \/ Return("ok") /\ landed' = landed \cup {job.c}
             \/ Faults /\ Return("fault") /\ UNCHANGED landed    \* killed after the remote accepted it
       \/ /\ ~FastForward
          /\ \/ /\ job.attempt = 0
                /\ job' = [job EXCEPT !.pc = "sync", !.attempt = 1]
                /\ UNCHANGED last
             \/ /\ job.attempt = 1 /\ Return("rejected")
          /\ UNCHANGED <<main, landed>>
    /\ UNCHANGED <<mode, branches, prs, clone, unopened, cutShort>>

-----------------------------------------------------------------------------
(***************************************************************************)
(* GitPRPublisher: a branch per coordinate and a pull request              *)
(***************************************************************************)
\* versionDirExists looks at the working tree.
VersionDirExists ==
    /\ At("exists")
    /\ \/ job.c \in disk.dirs /\ Return("exists")
       \/ job.c \notin disk.dirs /\ GoTo("branch") /\ UNCHANGED last
    /\ UNCHANGED <<remote, clone, landed, unopened, cutShort>>

\* git branch -D is best effort and cannot delete the branch that is checked
\* out; git checkout -b fails when the branch is still there.
CreateBranch ==
    /\ At("branch")
    /\ \/ head # job.c /\ head' = job.c /\ GoTo("write") /\ UNCHANGED last
       \/ head = job.c /\ Return("branch") /\ UNCHANGED head
    /\ UNCHANGED <<remote, disk, index, local, landed, unopened, cutShort>>

\* Mutant: the pull request is opened before the branch is pushed.
PushBranchAfterPR ==
    /\ mode = "git-pr" /\ At("push")
    /\ prs' = prs \cup {job.c}
    /\ Return("ok")
    /\ UNCHANGED <<mode, main, branches, clone, landed, unopened, cutShort>>

\* The branch of an earlier attempt is not an ancestor: rejected.
PushBranch ==
    /\ mode = "git-pr" /\ At("push")
    /\ \/ /\ \A b \in branches : b.c # job.c
          /\ branches' = branches \cup {[c |-> job.c, dirs |-> local.dirs, listed |-> local.listed]}
          /\ GoTo("open") /\ UNCHANGED last
       \/ /\ \E b \in branches : b.c = job.c
          /\ Return("rejected") /\ UNCHANGED branches
    /\ UNCHANGED <<mode, main, prs, clone, landed, unopened, cutShort>>

OpenPR ==
    /\ At("open")
    /\ \/ prs' = prs \cup {job.c} /\ Return("ok") /\ UNCHANGED unopened
       \/ ForgeFaults /\ Return("forge") /\ unopened' = unopened \cup {job.c} /\ UNCHANGED prs
    /\ UNCHANGED <<mode, main, branches, clone, landed, cutShort>>

-----------------------------------------------------------------------------
(***************************************************************************)
(* The world                                                               *)
(***************************************************************************)
Disturb == job' = [job EXCEPT !.disturbed = ~At("idle")]

\* Another committer of the registry repository lands a version.
SiblingCommit(c) ==
    /\ main.n < MaxCommits /\ c \notin main.dirs
    /\ main' = [n |-> main.n + 1, dirs |-> main.dirs \cup {c}, listed |-> main.listed \cup {c}]
    /\ landed' = landed \cup {c}
    /\ Disturb
    /\ UNCHANGED <<mode, branches, prs, clone, last, unopened, cutShort>>

\* A maintainer merges a pull request, by hand where metadata.json conflicts.
MergePR(b) ==
    /\ b.c \in prs /\ main.n < MaxCommits
    /\ main' = [n |-> main.n + 1, dirs |-> main.dirs \cup b.dirs,
                listed |-> main.listed \cup b.listed]
    /\ branches' = branches \ {b} /\ prs' = prs \ {b.c}
    /\ landed' = landed \cup {b.c}
    /\ Disturb
    /\ UNCHANGED <<mode, clone, last, unopened, cutShort>>

\* A git command or a write fails, the context is cancelled, the process dies.
Fail ==
    /\ Faults /\ ~At("idle")
    /\ Return("fault")
    /\ cutShort' = IF At("merge") \/ At("stage") THEN cutShort \cup {job.c} ELSE cutShort
    /\ UNCHANGED <<remote, clone, landed, unopened>>

PublishNext ==
    \/ \E c \in Coord : Publish(c) \/ SiblingCommit(c)
    \/ Sync \/ WriteFiles \/ MergeMetadata \/ Stage \/ CommitWith \/ Push
    \/ VersionDirExists \/ CreateBranch \/ PushBranch \/ OpenPR
    \/ \E b \in branches : MergePR(b)
    \/ Fail

PublishSpec == PublishInit /\ [][PublishNext]_publishVars

-----------------------------------------------------------------------------
(* The registry never loses an entry: what a caller, another committer or  *)
(* a merge was told is on the base branch stays there, with its files and  *)
(* its place in the version list, through the re-sync and retry of a push  *)
(* that raced somebody else's; and no tree that leaves the clone lists a   *)
(* version whose files it lacks, whatever an interrupted call left behind. *)
NothingLost ==
    /\ landed \subseteq main.dirs \cap main.listed
    /\ main.listed \subseteq main.dirs
    /\ \A b \in branches : b.listed \subseteq b.dirs

(* However calls, retries, faults, other committers and merges interleave, *)
(* every step that moves the base branch only adds to it, also a commit    *)
(* whose author died before it heard that the push was accepted.           *)
History == INSTANCE RegistryHistory
               WITH entries <- main.dirs \cap main.listed, told <- landed
ImplementsHistory == History!HistorySpec

(* The clone heals itself: whatever earlier calls left in the working tree *)
(* or committed without pushing, a direct publish that meets no fault and  *)
(* no competing commit only fails when the version is already there.       *)
UndisturbedSucceeds ==
    mode = "git-direct" /\ last.res \in {"empty", "rejected"} /\ ~last.disturbed
        => last.c \in main.dirs

(* Whoever reviews a pull request finds the entry on its branch.           *)
PRCarriesEntry ==
    \A c \in prs : \E b \in branches : b.c = c /\ c \in b.dirs \cap b.listed

(* versionDirExists looks at a working tree that may hold files the base   *)
(* branch does not. It errs on nothing but the debris of a call for the    *)
(* same version that ended between its files and their staging: a branch   *)
(* left checked out, a commit never pushed and what other calls left of    *)
(* other versions of the module do not make it refuse.                     *)
RefusalsExplained == last.res = "exists" => last.c \in main.dirs \cup cutShort

(* What others see of the clone's work can be relied upon, whatever calls  *)
(* were interrupted: what landed is there in full, and a pull request      *)
(* carries its entry.                                                      *)
EntriesSafe == NothingLost /\ PRCarriesEntry

(* A publish that turns a version down has a reason that has to do with    *)
(* that version, not with what other calls left in the clone.              *)
RefusalsJustified == UndisturbedSucceeds /\ RefusalsExplained

(***************************************************************************)
(* What comments in the code say and the code does not do.                 *)
(***************************************************************************)
(* "Explicit paths (not `git add -A`) so leftover untracked state from an  *)
(* earlier crash can't accidentally land in the commit"                    *)
(* (publish/git_direct.go:165): a commit adds the requested version only.  *)
StagedOnlyOwn ==
    At("commit") => (index.dirs \ local.dirs) \cup (index.listed \ local.listed) \subseteq {job.c}

(* "refuses if `modules/<module>/<version>/` already exists on the base    *)
(* branch HEAD" (publish/git_pr.go:119): a refusal as existing means that  *)
(* the version is on the base branch.                                      *)
RefusalsExact == last.res = "exists" /\ ~last.disturbed => last.c \in main.dirs

(* "The branch is pushed; opening the PR is what failed. Caller can retry" *)
(* (publish/git_pr.go:169): the retry gets as far as the pull request.     *)
RetryReachesForge == last.c \in unopened => last.res \notin {"branch", "rejected"}
=============================================================================
