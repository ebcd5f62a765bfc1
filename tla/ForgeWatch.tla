----------------------------- MODULE ForgeWatch -----------------------------
(***************************************************************************)
(* `bzlhub watch': internal/forgewatch polls the forge for new commits of  *)
(* a branch and keeps its place in a state file; the handler of            *)
(* cmd/bzlhub/watch resets the worktree to the branch and re-ingests what  *)
(* changed. The branch is a sequence of commits 1, 2, ...; commit c adds   *)
(* the version c under modules/, or touches nothing there. 0 is no commit. *)
(***************************************************************************)
EXTENDS Naturals, FiniteSets

CONSTANTS MaxPushes,     \* bound: commits pushed
          Quiet,          \* commits that touch nothing under modules/
          PollInterval, MaxInterval,   \* Config.Interval, Config.MaxInterval
          MaxKills        \* bound: times the process is killed

ASSUME WatchAssumption ==
    /\ MaxPushes \in Nat /\ Quiet \subseteq 1..MaxPushes /\ MaxKills \in Nat
    /\ PollInterval \in Nat \ {0} /\ MaxInterval \in Nat

VARIABLES
    branch,      \* newest commit of the branch at the forge
    stateFile,   \* State: lastSHA, lastETag (the tag of a head is its commit)
    interval,    \* Watcher.interval
    cloneHead,        \* HEAD of the worktree
    tracking,    \* the remote-tracking branch the last fetch left
    indexed,     \* versions in the index
    poll,        \* this poll: pc, commits[0], the new etag, oldHead, newHead, pairs left
    kills,
    broken,      \* history: versions whose re-ingest, or whose diff, failed
    overrun      \* history: versions behind a HEAD that had moved on when its diff was taken

watchVars == <<branch, stateFile, interval, cloneHead, tracking, indexed, poll, kills, broken, overrun>>

Sleeping == [pc |-> "sleep", newest |-> 0, etag |-> 0, old |-> 0, new |-> 0, todo |-> {}]

\* A fresh start: nothing polled, the worktree cloned at some commit or empty.
WatchInit ==
    /\ branch \in 0..MaxPushes
    /\ cloneHead \in 0..branch /\ tracking = cloneHead
    /\ stateFile = [sha |-> 0, etag |-> 0]
    /\ interval = PollInterval
    /\ indexed = {} /\ poll = Sleeping /\ kills = 0
    /\ broken = {} /\ overrun = {}

-----------------------------------------------------------------------------
ApplyBackoff(i) == IF i * 2 < MaxInterval THEN i * 2 ELSE MaxInterval

\* New raises a MaxInterval below the base interval to it.
NextBackoff == IF MaxInterval < PollInterval THEN PollInterval ELSE ApplyBackoff(interval)

PushCommit ==
    /\ branch < MaxPushes
    /\ branch' = branch + 1
    /\ UNCHANGED <<stateFile, interval, cloneHead, tracking, indexed, poll, kills, broken, overrun>>

\* Store.Save writes a temporary file and renames it: all or nothing.
Save(st, saved) == stateFile' = IF saved THEN st ELSE stateFile

(* pollOnce up to OnCommit. A failed Load or ListNewCommits changes        *)
(* nothing; an unchanged branch is answered 304 when the tag matches, and  *)
(* with no commits otherwise.                                              *)
ListNewCommits ==
    /\ poll.pc = "sleep"
    /\ \/ /\ branch \in {stateFile.etag, stateFile.sha}
          /\ interval' = NextBackoff
          /\ \E saved \in BOOLEAN : Save([stateFile EXCEPT !.etag = branch], saved)
          /\ UNCHANGED poll
       \/ /\ branch \notin {stateFile.etag, stateFile.sha}
          /\ interval' = PollInterval
          /\ poll' = [poll EXCEPT !.pc = "head", !.newest = branch, !.etag = branch]
          /\ UNCHANGED stateFile
    /\ UNCHANGED <<branch, cloneHead, tracking, indexed, kills, broken, overrun>>

\* OnCommit failed: back off, keep the old SHA and tag.
CommitFailed ==
    /\ interval' = NextBackoff
    /\ poll' = Sleeping
    /\ UNCHANGED stateFile

(* handle: read HEAD (a failure reads as a fresh worktree), fetch, reset,  *)
(* read HEAD again.                                                        *)
ReadOldHead ==
    /\ poll.pc = "head"
    /\ \E read \in BOOLEAN :
          poll' = [poll EXCEPT !.pc = "fetch", !.old = IF read THEN cloneHead ELSE 0]
    /\ UNCHANGED <<branch, stateFile, interval, cloneHead, tracking, indexed, kills, broken, overrun>>

Fetch ==
    /\ poll.pc = "fetch"
    /\ \/ /\ tracking' = branch
          /\ poll' = [poll EXCEPT !.pc = "reset"]
          /\ UNCHANGED <<stateFile, interval>>
       \/ CommitFailed /\ UNCHANGED tracking
    /\ UNCHANGED <<branch, cloneHead, indexed, kills, broken, overrun>>

Reset ==
    /\ poll.pc = "reset"
    /\ \/ /\ cloneHead' = tracking
          /\ poll' = [poll EXCEPT !.pc = "new"]
          /\ UNCHANGED <<stateFile, interval>>
       \/ CommitFailed /\ UNCHANGED cloneHead
    /\ UNCHANGED <<branch, tracking, indexed, kills, broken, overrun>>

\* The versions under modules/ in the commits after one head up to another.
Touched(old, new) == ((old + 1)..new) \ Quiet

\* Mutant: the diff is also taken when HEAD did not move.
ChangedByDiff(old, new) == Touched(old, new)

\* ls-tree for a fresh worktree or when HEAD did not move, else diff old..new.
ChangedModuleVersions(old, new) ==
    IF old = 0 \/ old = new THEN Touched(0, new) ELSE Touched(old, new)

(* A rev-parse that fails fails the batch; a diff that fails is logged and *)
(* the batch counts as handled.                                            *)
Diff ==
    /\ poll.pc = "new"
    /\ \/ /\ poll' = [poll EXCEPT !.pc = "ingest", !.new = cloneHead,
                                   !.todo = ChangedModuleVersions(poll.old, cloneHead)]
          /\ overrun' = IF poll.old \in {0, cloneHead} THEN overrun
                        ELSE overrun \cup (Touched(0, poll.old) \ indexed)
          /\ UNCHANGED <<stateFile, interval, broken>>
       \/ /\ poll' = [poll EXCEPT !.pc = "save"]
          /\ broken' = broken \cup (Touched(0, cloneHead) \ indexed)
          /\ UNCHANGED <<stateFile, interval, overrun>>
       \/ CommitFailed /\ UNCHANGED <<broken, overrun>>
    /\ UNCHANGED <<branch, cloneHead, tracking, indexed, kills>>

\* One version of the batch; a failure is counted and the loop goes on.
IngestNext ==
    /\ poll.pc = "ingest"
    /\ \E v \in poll.todo :
          /\ poll' = [poll EXCEPT !.todo = @ \ {v}]
          /\ \/ indexed' = indexed \cup {v} /\ UNCHANGED broken
             \/ broken' = broken \cup {v} /\ UNCHANGED indexed
    /\ UNCHANGED <<branch, stateFile, interval, cloneHead, tracking, kills, overrun>>

BatchDone ==
    /\ poll.pc = "ingest" /\ poll.todo = {}
    /\ poll' = [poll EXCEPT !.pc = "save"]
    /\ UNCHANGED <<branch, stateFile, interval, cloneHead, tracking, indexed, kills, broken, overrun>>

\* The state advances to the newest commit of the listing, not to HEAD.
SaveState ==
    /\ poll.pc = "save"
    /\ \E saved \in BOOLEAN : Save([sha |-> poll.newest, etag |-> poll.etag], saved)
    /\ poll' = Sleeping
    /\ UNCHANGED <<branch, interval, cloneHead, tracking, indexed, kills, broken, overrun>>

\* The process dies and is started again; what is on disk stays.
KillWatch ==
    /\ poll.pc # "sleep" /\ kills < MaxKills
    /\ kills' = kills + 1
    /\ poll' = Sleeping /\ interval' = PollInterval
    /\ UNCHANGED <<branch, stateFile, cloneHead, tracking, indexed, broken, overrun>>

WatchStep ==
    ListNewCommits \/ ReadOldHead \/ Fetch \/ Reset \/ Diff \/ IngestNext \/ BatchDone \/ SaveState

WatchNext == PushCommit \/ WatchStep \/ KillWatch

WatchSpec == WatchInit /\ [][WatchNext]_watchVars

-----------------------------------------------------------------------------
(* The state file never runs ahead of the index: every version up to       *)
(* LastSHA is indexed, unless its own ingest or diff failed, or the branch *)
(* moved between a handler that was cut short after the reset and its      *)
(* retry. Whatever else is interrupted, the replayed batch finds HEAD      *)
(* unmoved and lists the whole tree again. And the tag, by which the forge *)
(* answers that nothing is new, never covers more than LastSHA.            *)
StateBehindIndex ==
    /\ Touched(0, stateFile.sha) \subseteq indexed \cup broken \cup overrun
    /\ stateFile.etag <= stateFile.sha
=============================================================================
