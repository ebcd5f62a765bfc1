---------------------------- MODULE MirrorProofs ----------------------------
(***************************************************************************)
(* Proofs about the machines that fill, follow and check the mirror, each  *)
(* for every value of its constants: the watcher's state file, the offline *)
(* verification, the source cache, the materialization of a tree, drift    *)
(* summaries beside syncs and refreshes, the report that compares a module *)
(* with upstream, and repository facts under overlapping refreshes.        *)
(***************************************************************************)
EXTENDS ForgeWatch, Verify, SourceCache, Materialize, DriftSync, DriftReport, GitHubMeta,
        FiniteSetTheorems, TLAPS

(***************************************************************************)
(* The watcher (ForgeWatch)                                                *)
(***************************************************************************)
PollRec == [pc : {"sleep", "head", "fetch", "reset", "new", "ingest", "save"},
            newest : Nat, etag : Nat, old : Nat, new : Nat, todo : SUBSET Nat]

WatchTypes ==
    /\ branch \in Nat /\ cloneHead \in Nat /\ tracking \in Nat
    /\ stateFile \in [sha : Nat, etag : Nat]
    /\ poll \in PollRec

\* The newest commit listed is on the branch, and reaches the worktree with
\* the fetch and the reset.
PollReaches ==
    /\ poll.newest <= branch /\ poll.etag = poll.newest
    /\ poll.pc \in {"reset", "new", "ingest", "save"} => poll.newest <= tracking
    /\ poll.pc \in {"new", "ingest", "save"} => poll.newest <= cloneHead

Settled == indexed \cup broken \cup overrun

\* Once the diff is taken, what the worktree holds is settled or in the batch.
BatchCovers ==
    /\ poll.pc \in {"ingest", "save"} => Touched(0, cloneHead) \subseteq Settled \cup poll.todo
    /\ poll.pc # "ingest" => poll.todo = {}

WatchInv == WatchTypes /\ PollReaches /\ BatchCovers /\ StateBehindIndex

(* What the diff of two heads leaves out is behind the first.              *)
LEMMA TouchedSplits ==
    ASSUME NEW a \in Nat, NEW b \in Nat
    PROVE  Touched(0, b) \subseteq Touched(0, a) \cup Touched(a, b)
  BY DEF Touched

(* A smaller head has touched less.                                        *)
LEMMA TouchedGrows ==
    ASSUME NEW a \in Nat, NEW b \in Nat, a <= b
    PROVE  Touched(0, a) \subseteq Touched(0, b)
  BY DEF Touched

(* A watcher that has polled nothing has a state file behind its index.    *)
LEMMA WatchInitInv == WatchInit => WatchInv
<1> SUFFICES ASSUME WatchInit PROVE WatchInv
  OBVIOUS
<1>1. branch \in Nat /\ cloneHead \in Nat /\ tracking \in Nat
  BY WatchAssumption DEF WatchInit
<1>2. poll = [pc |-> "sleep", newest |-> 0, etag |-> 0, old |-> 0, new |-> 0, todo |-> {}]
  BY DEF WatchInit, Sleeping
<1>3. {} \in SUBSET Nat
  OBVIOUS
<1>4. poll \in PollRec
  BY <1>2, <1>3 DEF PollRec
<1>5. stateFile = [sha |-> 0, etag |-> 0]
  BY DEF WatchInit
<1>6. Touched(0, 0) = {}
  BY DEF Touched
<1> QED BY <1>1, <1>2, <1>4, <1>5, <1>6 DEF WatchInv, WatchTypes, PollReaches, BatchCovers, StateBehindIndex

(* No poll, push, failure or kill breaks the invariant: the state file is  *)
(* saved after the last ingest of the batch (Watcher.pollOnce).            *)
LEMMA WatchStepInv == WatchInv /\ [WatchNext]_watchVars => WatchInv'
<1> SUFFICES ASSUME WatchInv, [WatchNext]_watchVars PROVE WatchInv'
  OBVIOUS
<1>t. /\ branch \in Nat /\ cloneHead \in Nat /\ tracking \in Nat
      /\ stateFile \in [sha : Nat, etag : Nat] /\ poll \in PollRec
      /\ PollReaches /\ BatchCovers /\ StateBehindIndex
  BY DEF WatchInv, WatchTypes
<1>p. /\ poll.newest \in Nat /\ poll.etag \in Nat /\ poll.old \in Nat /\ poll.new \in Nat
      /\ poll.todo \in SUBSET Nat
      /\ poll.pc \in {"sleep", "head", "fetch", "reset", "new", "ingest", "save"}
  BY <1>t DEF PollRec
<1>f. stateFile.sha \in Nat /\ stateFile.etag \in Nat
  BY <1>t
\* A poll that ends, or never began.
<1>s. /\ Sleeping \in PollRec /\ Sleeping.newest = 0 /\ Sleeping.etag = 0
      /\ Sleeping.pc = "sleep" /\ Sleeping.todo = {}
  <2>1. {} \in SUBSET Nat
    OBVIOUS
  <2> QED BY <2>1 DEF Sleeping, PollRec
\* The index only grows, and the state file stays.
<1>k. ASSUME UNCHANGED stateFile, Settled \subseteq Settled' PROVE StateBehindIndex'
  BY <1>k, <1>t DEF StateBehindIndex, Settled
<1>e. ASSUME poll' = Sleeping, UNCHANGED <<branch, cloneHead, stateFile, indexed, broken, overrun>>,
             tracking' \in Nat
      PROVE  WatchInv'
  BY <1>e, <1>s, <1>t DEF WatchInv, WatchTypes, PollReaches, BatchCovers, StateBehindIndex
<1>1. CASE UNCHANGED watchVars
  BY <1>1, <1>t DEF watchVars, WatchInv, WatchTypes, PollReaches, BatchCovers, StateBehindIndex, Settled
<1>2. CASE PushCommit
  <2>1. branch' = branch + 1 /\ UNCHANGED <<stateFile, cloneHead, tracking, indexed, poll, broken, overrun>>
    BY <1>2 DEF PushCommit
  <2>2. WatchTypes' /\ PollReaches'
    BY <2>1, <1>t, <1>p DEF WatchTypes, PollReaches
  <2> QED BY <2>1, <2>2, <1>t DEF WatchInv, BatchCovers, StateBehindIndex, Settled
<1>3. CASE ListNewCommits
  <2>0. poll.pc = "sleep" /\ UNCHANGED <<branch, cloneHead, tracking, indexed, broken, overrun>>
    BY <1>3 DEF ListNewCommits
  <2>1. CASE branch \in {stateFile.etag, stateFile.sha}
    <3>1. /\ UNCHANGED poll
          /\ \/ stateFile' = [stateFile EXCEPT !.etag = branch]
             \/ stateFile' = stateFile
      BY <1>3, <2>1 DEF ListNewCommits, Save
    <3>2. branch <= stateFile.sha
      BY <2>1, <1>f, <1>t DEF StateBehindIndex
    <3>3. stateFile' \in [sha : Nat, etag : Nat] /\ stateFile'.sha = stateFile.sha /\ stateFile'.etag <= stateFile.sha
      <4>1. CASE stateFile' = [stateFile EXCEPT !.etag = branch]
        BY <4>1, <3>2, <1>t
      <4>2. CASE stateFile' = stateFile
        BY <4>2, <1>t DEF StateBehindIndex
      <4> QED BY <3>1, <4>1, <4>2
    <3> QED BY <2>0, <3>1, <3>3, <1>t DEF WatchInv, WatchTypes, PollReaches, BatchCovers, StateBehindIndex, Settled
  <2>2. CASE branch \notin {stateFile.etag, stateFile.sha}
    <3>1. /\ poll' = [poll EXCEPT !.pc = "head", !.newest = branch, !.etag = branch]
          /\ UNCHANGED stateFile
      BY <1>3, <2>2 DEF ListNewCommits
    <3>2. /\ poll' \in PollRec /\ poll'.pc = "head" /\ poll'.newest = branch /\ poll'.etag = branch
          /\ poll'.todo = poll.todo
      BY <3>1, <1>t DEF PollRec
    <3> QED BY <2>0, <3>1, <3>2, <1>t DEF WatchInv, WatchTypes, PollReaches, BatchCovers, StateBehindIndex
  <2> QED BY <2>1, <2>2
<1>4. CASE ReadOldHead
  <2>1. /\ poll.pc = "head" /\ UNCHANGED <<branch, stateFile, cloneHead, tracking, indexed, broken, overrun>>
        /\ \E n \in {cloneHead, 0} : poll' = [poll EXCEPT !.pc = "fetch", !.old = n]
    BY <1>4 DEF ReadOldHead
  <2>2. PICK n \in {cloneHead, 0} : poll' = [poll EXCEPT !.pc = "fetch", !.old = n]
    BY <2>1
  <2>3. n \in Nat
    BY <1>t
  <2>4. /\ poll' \in PollRec /\ poll'.pc = "fetch" /\ poll'.newest = poll.newest /\ poll'.etag = poll.etag
        /\ poll'.todo = poll.todo
    BY <2>2, <2>3, <1>t DEF PollRec
  <2> QED BY <2>1, <2>4, <1>t DEF WatchInv, WatchTypes, PollReaches, BatchCovers, StateBehindIndex
<1>5. CASE Fetch
  <2>0. poll.pc = "fetch" /\ UNCHANGED <<branch, cloneHead, indexed, broken, overrun>>
    BY <1>5 DEF Fetch
  <2>1. CASE tracking' = branch /\ poll' = [poll EXCEPT !.pc = "reset"] /\ UNCHANGED stateFile
    <3>1. /\ poll' \in PollRec /\ poll'.pc = "reset" /\ poll'.newest = poll.newest /\ poll'.etag = poll.etag
          /\ poll'.todo = poll.todo
      BY <2>1, <1>t DEF PollRec
    <3> QED BY <2>0, <2>1, <3>1, <1>t DEF WatchInv, WatchTypes, PollReaches, BatchCovers, StateBehindIndex
  <2>2. CASE CommitFailed /\ UNCHANGED tracking
    BY <2>0, <2>2, <1>e, <1>t DEF CommitFailed
  <2> QED BY <2>1, <2>2, <1>5 DEF Fetch
<1>6. CASE Reset
  <2>0. poll.pc = "reset" /\ UNCHANGED <<branch, tracking, indexed, broken, overrun>>
    BY <1>6 DEF Reset
  <2>1. CASE cloneHead' = tracking /\ poll' = [poll EXCEPT !.pc = "new"] /\ UNCHANGED stateFile
    <3>1. /\ poll' \in PollRec /\ poll'.pc = "new" /\ poll'.newest = poll.newest /\ poll'.etag = poll.etag
          /\ poll'.todo = poll.todo
      BY <2>1, <1>t DEF PollRec
    <3> QED BY <2>0, <2>1, <3>1, <1>t DEF WatchInv, WatchTypes, PollReaches, BatchCovers, StateBehindIndex
  <2>2. CASE CommitFailed /\ UNCHANGED cloneHead
    BY <2>0, <2>2, <1>e, <1>t DEF CommitFailed
  <2> QED BY <2>1, <2>2, <1>6 DEF Reset
<1>7. CASE Diff
  <2>0. poll.pc = "new" /\ UNCHANGED <<branch, cloneHead, tracking, indexed>>
    BY <1>7 DEF Diff
  <2>1. CASE /\ poll' = [poll EXCEPT !.pc = "ingest", !.new = cloneHead,
                                     !.todo = ChangedModuleVersions(poll.old, cloneHead)]
             /\ overrun' = IF poll.old \in {0, cloneHead} THEN overrun
                           ELSE overrun \cup (Touched(0, poll.old) \ indexed)
             /\ UNCHANGED <<stateFile, broken>>
    <3> DEFINE T == ChangedModuleVersions(poll.old, cloneHead)
    <3>1. T \in SUBSET Nat
      BY <1>p, <1>t DEF ChangedModuleVersions, Touched
    <3>2. Touched(0, cloneHead) \subseteq Settled' \cup T
      <4>1. CASE poll.old \in {0, cloneHead}
        BY <4>1 DEF ChangedModuleVersions
      <4>2. CASE poll.old \notin {0, cloneHead}
        <5>1. T = Touched(poll.old, cloneHead)
          BY <4>2 DEF ChangedModuleVersions
        <5>2. Touched(0, cloneHead) \subseteq Touched(0, poll.old) \cup Touched(poll.old, cloneHead)
          BY <1>p, <1>t, TouchedSplits
        <5>3. Touched(0, poll.old) \subseteq Settled'
          BY <4>2, <2>1, <2>0 DEF Settled
        <5> QED BY <5>1, <5>2, <5>3
      <4> QED BY <4>1, <4>2
    <3> HIDE DEF T
    <3>3. poll' = [poll EXCEPT !.pc = "ingest", !.new = cloneHead, !.todo = T]
      BY <2>1 DEF T
    <3>4. /\ poll' \in PollRec /\ poll'.pc = "ingest" /\ poll'.newest = poll.newest /\ poll'.etag = poll.etag
          /\ poll'.todo = T
      <4> DEFINE SN == SUBSET Nat
      <4>1. PollRec = [pc : {"sleep", "head", "fetch", "reset", "new", "ingest", "save"},
                       newest : Nat, etag : Nat, old : Nat, new : Nat, todo : SN] /\ T \in SN
        BY <3>1 DEF PollRec
      <4> HIDE DEF SN
      <4> QED BY <3>3, <4>1, <1>t
    <3>5. Settled \subseteq Settled'
      BY <2>1, <2>0 DEF Settled
    <3>6. StateBehindIndex'
      BY <2>1, <3>5, <1>k
    <3>7. WatchTypes' /\ PollReaches'
      BY <2>0, <2>1, <3>4, <1>t DEF WatchTypes, PollReaches
    <3>8. BatchCovers'
      BY <2>0, <3>2, <3>4 DEF BatchCovers
    <3> QED BY <3>6, <3>7, <3>8 DEF WatchInv
  <2>2. CASE /\ poll' = [poll EXCEPT !.pc = "save"]
             /\ broken' = broken \cup (Touched(0, cloneHead) \ indexed)
             /\ UNCHANGED <<stateFile, overrun>>
    <3>1. /\ poll' \in PollRec /\ poll'.pc = "save" /\ poll'.newest = poll.newest /\ poll'.etag = poll.etag
          /\ poll'.todo = poll.todo
      BY <2>2, <1>t DEF PollRec
    <3>2. Settled \subseteq Settled' /\ Touched(0, cloneHead) \subseteq Settled'
      BY <2>2, <2>0 DEF Settled
    <3>3. StateBehindIndex'
      BY <2>2, <3>2, <1>k
    <3>4. WatchTypes' /\ PollReaches'
      BY <2>0, <2>2, <3>1, <1>t DEF WatchTypes, PollReaches
    <3>5. BatchCovers'
      BY <2>0, <3>1, <3>2, <1>t DEF BatchCovers
    <3> QED BY <3>3, <3>4, <3>5 DEF WatchInv
  <2>3. CASE CommitFailed /\ UNCHANGED <<broken, overrun>>
    BY <2>0, <2>3, <1>e, <1>t DEF CommitFailed
  <2> QED BY <2>1, <2>2, <2>3, <1>7 DEF Diff
<1>8. CASE IngestNext
  <2>1. /\ poll.pc = "ingest" /\ UNCHANGED <<branch, stateFile, cloneHead, tracking, overrun>>
        /\ \E v \in poll.todo :
              /\ poll' = [poll EXCEPT !.todo = @ \ {v}]
              /\ \/ indexed' = indexed \cup {v} /\ UNCHANGED broken
                 \/ broken' = broken \cup {v} /\ UNCHANGED indexed
    BY <1>8 DEF IngestNext
  <2>2. PICK v \in poll.todo :
              /\ poll' = [poll EXCEPT !.todo = @ \ {v}]
              /\ \/ indexed' = indexed \cup {v} /\ UNCHANGED broken
                 \/ broken' = broken \cup {v} /\ UNCHANGED indexed
    BY <2>1
  <2>3. Settled' = Settled \cup {v}
    BY <2>1, <2>2 DEF Settled
  <2> DEFINE SN == SUBSET Nat
  <2>4. PollRec = [pc : {"sleep", "head", "fetch", "reset", "new", "ingest", "save"},
                   newest : Nat, etag : Nat, old : Nat, new : Nat, todo : SN] /\ poll.todo \ {v} \in SN
    BY <1>p DEF PollRec
  <2> HIDE DEF SN
  <2>5. /\ poll' \in PollRec /\ poll'.pc = "ingest" /\ poll'.newest = poll.newest /\ poll'.etag = poll.etag
        /\ poll'.todo = poll.todo \ {v}
    BY <2>1, <2>2, <2>4, <1>t
  <2>6. StateBehindIndex'
    BY <2>1, <2>3, <1>k
  <2>7. WatchTypes' /\ PollReaches'
    BY <2>1, <2>5, <1>t DEF WatchTypes, PollReaches
  <2>8. BatchCovers'
    BY <2>1, <2>3, <2>5, <1>t DEF BatchCovers
  <2> QED BY <2>6, <2>7, <2>8 DEF WatchInv
<1>9. CASE BatchDone
  <2>1. /\ poll.pc = "ingest" /\ poll.todo = {} /\ poll' = [poll EXCEPT !.pc = "save"]
        /\ UNCHANGED <<branch, stateFile, cloneHead, tracking, indexed, broken, overrun>>
    BY <1>9 DEF BatchDone
  <2>2. /\ poll' \in PollRec /\ poll'.pc = "save" /\ poll'.newest = poll.newest /\ poll'.etag = poll.etag
        /\ poll'.todo = poll.todo
    BY <2>1, <1>t DEF PollRec
  <2>3. StateBehindIndex'
    BY <2>1, <1>k DEF Settled
  <2>4. WatchTypes' /\ PollReaches'
    BY <2>1, <2>2, <1>t DEF WatchTypes, PollReaches
  <2>5. BatchCovers'
    BY <2>1, <2>2, <1>t DEF BatchCovers, Settled
  <2> QED BY <2>3, <2>4, <2>5 DEF WatchInv
<1>10. CASE SaveState
  <2>1. /\ poll.pc = "save" /\ poll' = Sleeping
        /\ UNCHANGED <<branch, cloneHead, tracking, indexed, broken, overrun>>
        /\ \/ stateFile' = [sha |-> poll.newest, etag |-> poll.etag]
           \/ stateFile' = stateFile
    BY <1>10 DEF SaveState, Save
  <2>2. CASE stateFile' = stateFile
    BY <2>1, <2>2, <1>e, <1>t
  <2>3. CASE stateFile' = [sha |-> poll.newest, etag |-> poll.etag]
    <3>1. stateFile' \in [sha : Nat, etag : Nat] /\ stateFile'.sha = poll.newest /\ stateFile'.etag = poll.newest
      BY <2>3, <1>p, <1>t DEF PollReaches
    <3>2. poll.newest <= cloneHead /\ poll.todo = {} /\ Touched(0, cloneHead) \subseteq Settled \cup poll.todo
      BY <2>1, <1>t DEF PollReaches, BatchCovers
    <3>3. Touched(0, poll.newest) \subseteq Settled
      BY <3>2, <1>p, <1>t, TouchedGrows
    <3>4. StateBehindIndex'
      BY <2>1, <3>1, <3>3, <1>p DEF StateBehindIndex, Settled
    <3> QED BY <2>1, <3>1, <3>4, <1>s, <1>t DEF WatchInv, WatchTypes, PollReaches, BatchCovers
  <2> QED BY <2>1, <2>2, <2>3
<1>11. CASE KillWatch
  BY <1>11, <1>e, <1>t DEF KillWatch
<1> QED
  BY <1>1, <1>2, <1>3, <1>4, <1>5, <1>6, <1>7, <1>8, <1>9, <1>10, <1>11 DEF WatchNext, WatchStep

(* For any number of pushes, failed polls, failed ingests and kills, the   *)
(* head in the watcher's state file never runs ahead of what the index has *)
(* taken in (Watcher.pollOnce saves once syncHandler.handle has returned). *)
THEOREM StateFileBehindIndex == WatchSpec => []StateBehindIndex
<1>1. WatchInv => StateBehindIndex
  BY DEF WatchInv
<1> QED BY <1>1, WatchInitInv, WatchStepInv, PTL DEF WatchSpec

(***************************************************************************)
(* Offline verification (Verify)                                           *)
(***************************************************************************)
\* What a scan has learnt of some of the versions.
FileStates == SourceFaults \cup {"absent", "ok", "bad", "corrupt", "none", "row", "scip"}
Learnt == UNION {[S -> FileStates] : S \in SUBSET Mirrored}
ScanRec == [pc : {"idle", "walk", "index", "hash", "done"}, left : SUBSET Mirrored, source : Learnt,
            module : Learnt, blobs : SUBSET Mirrored, index : Learnt, hashed : Learnt, db : BOOLEAN,
            deep : BOOLEAN, harmed : SUBSET Mirrored]
IngesterRec == [pc : {"idle", "blob", "source", "module", "index"}, c : Mirrored \cup {"none"},
                found : {"none", "absent", "ok", "corrupt"}, left : {"none", "absent", "ok", "corrupt"}]

VerifyTypes ==
    /\ srcFile \in [Mirrored -> SourceFaults \cup {"absent", "ok"}]
    /\ modFile \in [Mirrored -> {"absent", "ok", "bad"}]
    /\ blobFile \in [Mirrored -> {"absent", "ok", "corrupt"}]
    /\ indexRow \in [Mirrored -> {"none", "row", "scip"}]
    /\ ingester \in IngesterRec /\ (ingester.pc # "idle" => ingester.c \in Mirrored)
    /\ scan \in ScanRec /\ DOMAIN scan.module = DOMAIN scan.source
    /\ harmed \subseteq everHarmed /\ everHarmed \subseteq Mirrored

\* A version that is not harmed holds what the writer's order leaves behind.
InWriteOrder(c) ==
    c \notin harmed =>
        /\ srcFile[c] \in {"absent", "ok"} /\ modFile[c] \in {"absent", "ok"}
        /\ blobFile[c] \in {"absent", "ok"}
        /\ srcFile[c] = "ok" => blobFile[c] = "ok"
        /\ modFile[c] = "ok" => srcFile[c] = "ok"
        /\ ingester.c = c /\ ingester.pc \in {"source", "module", "index"} => blobFile[c] = "ok"
        /\ ingester.c = c /\ ingester.pc \in {"module", "index"} => srcFile[c] = "ok"

\* A harmed version has one bad file, whatever an ingest has rewritten of it.
OneFault(c) ==
    c \in harmed =>
        \/ srcFile[c] # "ok" /\ modFile[c] = "ok" /\ blobFile[c] = "ok"
        \/ srcFile[c] = "ok" /\ modFile[c] # "ok" /\ blobFile[c] = "ok"
        \/ srcFile[c] = "ok" /\ modFile[c] = "ok" /\ blobFile[c] # "ok"

\* The files of a version harmed all along are as the scan saw them.
FaultSeen(c) ==
    scan.pc # "idle" /\ c \in scan.harmed /\ c \in harmed =>
        /\ \/ scan.pc = "walk" /\ c \in scan.left
           \/ /\ c \in DOMAIN scan.source
              /\ scan.source[c] = srcFile[c] /\ scan.module[c] = modFile[c]
        /\ scan.pc \in {"index", "hash", "done"} => (c \in scan.blobs <=> blobFile[c] # "absent")
        /\ scan.pc \in {"hash", "done"} =>
              \/ scan.pc = "hash" /\ c \in scan.left
              \/ scan.source[c] = "ok" /\ c \in scan.blobs =>
                    c \in DOMAIN scan.hashed /\ scan.hashed[c] = blobFile[c]

\* What a scan has seen of a version never harmed is in the writer's order too.
SeenInOrder(c) ==
    scan.pc # "idle" /\ c \notin everHarmed =>
        /\ c \in DOMAIN scan.source =>
              /\ scan.source[c] \in {"absent", "ok"} /\ scan.module[c] \in {"absent", "ok"}
              /\ scan.source[c] = "ok" => blobFile[c] = "ok"
        /\ scan.pc \in {"index", "hash", "done"} =>
              /\ c \in DOMAIN scan.source /\ scan.source[c] = "ok" => c \in scan.blobs
              /\ c \in scan.blobs => blobFile[c] = "ok"
        /\ c \in DOMAIN scan.hashed => scan.hashed[c] = "ok"

VerifyInv ==
    /\ VerifyTypes
    /\ \A c \in Mirrored : InWriteOrder(c) /\ OneFault(c) /\ FaultSeen(c) /\ SeenInOrder(c)
    /\ scan.pc = "idle" => scan.harmed = {} /\ DOMAIN scan.source = {} /\ DOMAIN scan.hashed = {}
    /\ scan.harmed \subseteq everHarmed
    /\ scan.pc = "walk" => DOMAIN scan.hashed = {}

(* Learn (loadModuleState, checkBlobIntegrity) adds one version to what is *)
(* known and changes nothing else.                                         *)
LEMMA LearnAdds ==
    ASSUME NEW f \in Learnt, NEW c \in Mirrored, NEW v \in FileStates
    PROVE  /\ Learn(f, c, v) \in Learnt /\ DOMAIN Learn(f, c, v) = DOMAIN f \cup {c}
           /\ Learn(f, c, v)[c] = v
           /\ \A d \in DOMAIN f : d # c => Learn(f, c, v)[d] = f[d]
<1>1. PICK S \in SUBSET Mirrored : f \in [S -> FileStates]
  BY DEF Learnt
<1>2. Learn(f, c, v) = [d \in S \cup {c} |-> IF d = c THEN v ELSE f[d]]
  BY <1>1 DEF Learn
<1>3. Learn(f, c, v) \in [S \cup {c} -> FileStates]
  BY <1>1, <1>2
<1>4. S \cup {c} \in SUBSET Mirrored
  OBVIOUS
<1>5. Learn(f, c, v) \in Learnt
  BY <1>3, <1>4 DEF Learnt
<1> QED BY <1>1, <1>2, <1>5

(* A scan that has run to its end reports every version harmed all along,  *)
(* and no error against a version that was whole when it was walked.       *)
LEMMA VerifyInvExact == VerifyInv => VerifyIsExact
<1> SUFFICES ASSUME VerifyInv, scan.pc = "done"
             PROVE  /\ scan.harmed \cap harmed \subseteq Errors
                    /\ Errors \subseteq everHarmed
                         \cup {c \in Walked : "absent" \in {scan.source[c], scan.module[c]}}
  BY DEF VerifyIsExact
<1>1. ASSUME NEW c \in scan.harmed \cap harmed PROVE c \in Errors
  <2>0. scan.harmed \subseteq Mirrored
    BY DEF VerifyInv, VerifyTypes, ScanRec
  <2>1. c \in Mirrored /\ OneFault(c) /\ FaultSeen(c)
    BY <2>0 DEF VerifyInv
  <2>2. /\ c \in Walked /\ scan.source[c] = srcFile[c] /\ scan.module[c] = modFile[c]
        /\ (c \in scan.blobs <=> blobFile[c] # "absent")
        /\ scan.source[c] = "ok" /\ c \in scan.blobs =>
              c \in DOMAIN scan.hashed /\ scan.hashed[c] = blobFile[c]
    BY <2>1 DEF FaultSeen, Walked
  <2>3. CASE srcFile[c] # "ok"
    <3> PICK f : f = [kind |-> "source_json_schema", severity |-> "error", c |-> c]
      OBVIOUS
    <3>1. f \in SourceJSONSchema
      BY <2>2, <2>3 DEF SourceJSONSchema
    <3>2. f.severity = "error" /\ f.c = c /\ f \in Findings
      BY <3>1 DEF Findings
    <3> QED BY <3>2 DEF Errors
  <2>4. CASE modFile[c] # "ok"
    <3> PICK f : f = [kind |-> "module_bazel_present", severity |-> "error", c |-> c]
      OBVIOUS
    <3>1. f \in ModuleBazelPresent
      BY <2>2, <2>4 DEF ModuleBazelPresent
    <3>2. f.severity = "error" /\ f.c = c /\ f \in Findings
      BY <3>1 DEF Findings
    <3> QED BY <3>2 DEF Errors
  <2>5. CASE srcFile[c] = "ok" /\ blobFile[c] = "absent"
    <3> PICK f : f = [kind |-> "blob_missing", severity |-> "error", c |-> c]
      OBVIOUS
    <3>1. f \in BlobIntegrity
      BY <2>2, <2>5 DEF BlobIntegrity, ExpectsBlob
    <3>2. f.severity = "error" /\ f.c = c /\ f \in Findings
      BY <3>1 DEF Findings
    <3> QED BY <3>2 DEF Errors
  <2>6. CASE srcFile[c] = "ok" /\ blobFile[c] \notin {"ok", "absent"}
    <3> PICK f : f = [kind |-> "blob_integrity", severity |-> "error", c |-> c]
      OBVIOUS
    <3>1. f \in BlobIntegrity
      BY <2>2, <2>6 DEF BlobIntegrity
    <3>2. f.severity = "error" /\ f.c = c /\ f \in Findings
      BY <3>1 DEF Findings
    <3> QED BY <3>2 DEF Errors
  <2> QED BY <2>1, <2>3, <2>4, <2>5, <2>6 DEF OneFault
<1>2. ASSUME NEW c \in Errors, c \notin everHarmed
      PROVE  c \in {d \in Walked : "absent" \in {scan.source[d], scan.module[d]}}
  <2>0. /\ Walked \subseteq Mirrored /\ DOMAIN scan.hashed \subseteq Mirrored
        /\ \A d \in Mirrored : SeenInOrder(d)
    BY DEF VerifyInv, VerifyTypes, ScanRec, Learnt, Walked
  <2>1. PICK f \in Findings : f.severity = "error" /\ f.c = c
    BY DEF Errors
  <2>2. CASE f \in BlobIntegrity
    <3>1. \/ c \in Walked /\ ExpectsBlob(scan.source[c]) /\ c \notin scan.blobs
          \/ c \in DOMAIN scan.hashed /\ scan.hashed[c] # "ok"
      BY <2>1, <2>2 DEF BlobIntegrity
    <3> QED BY <3>1, <2>0, <1>2 DEF SeenInOrder, ExpectsBlob, Walked
  <2>3. CASE f \in SourceJSONSchema
    <3>1. c \in Walked /\ scan.source[c] # "ok"
      BY <2>1, <2>3 DEF SourceJSONSchema
    <3> QED BY <3>1, <2>0, <1>2 DEF SeenInOrder, Walked
  <2>4. CASE f \in ModuleBazelPresent
    <3>1. c \in Walked /\ scan.module[c] # "ok"
      BY <2>1, <2>4 DEF ModuleBazelPresent
    <3> QED BY <3>1, <2>0, <1>2 DEF SeenInOrder, Walked
  <2>5. CASE f \in DeepReport
    <3>1. c \in DOMAIN scan.hashed /\ scan.hashed[c] # "ok"
      BY <2>1, <2>5 DEF DeepReport
    <3> QED BY <3>1, <2>0, <1>2 DEF SeenInOrder
  <2>6. CASE f \in IndexMirrorAgreement \cup OrphanBlobs \cup ScipPresent
    BY <2>1, <2>6 DEF IndexMirrorAgreement, OrphanBlobs, ScipPresent
  <2> QED BY <2>1, <2>2, <2>3, <2>4, <2>5, <2>6 DEF Findings
<1> QED BY <1>1, <1>2

(* A verify that has not started knows of no version.                      *)
LEMMA NoScanEmpty ==
    /\ NoScan \in ScanRec /\ NoScan.pc = "idle" /\ DOMAIN NoScan.source = {}
    /\ DOMAIN NoScan.module = {} /\ DOMAIN NoScan.hashed = {} /\ NoScan.harmed = {}
<1> DEFINE none == [c \in {} |-> ""]
<1>1. none \in Learnt /\ DOMAIN none = {}
  <2>1. {} \in SUBSET Mirrored /\ none \in [{} -> FileStates]
    OBVIOUS
  <2> QED BY <2>1 DEF Learnt
<1>2. NoScan = [pc |-> "idle", left |-> {}, source |-> none, module |-> none, blobs |-> {}, index |-> none,
                hashed |-> none, db |-> TRUE, deep |-> FALSE, harmed |-> {}]
  BY DEF NoScan
<1> HIDE DEF none
<1>3. /\ NoScan.pc = "idle" /\ NoScan.source = none /\ NoScan.module = none /\ NoScan.hashed = none
      /\ NoScan.harmed = {}
  BY <1>2
<1>4. NoScan \in ScanRec
  BY <1>1, <1>2 DEF ScanRec
<1> QED BY <1>1, <1>3, <1>4

(* An empty mirror and no scan satisfy the invariant.                      *)
LEMMA VerifyInitInv == VerifyInit => VerifyInv
<1> SUFFICES ASSUME VerifyInit PROVE VerifyInv
  OBVIOUS
<1>1. /\ NoScan \in ScanRec /\ NoScan.pc = "idle" /\ DOMAIN NoScan.source = {}
      /\ DOMAIN NoScan.module = {} /\ DOMAIN NoScan.hashed = {} /\ NoScan.harmed = {}
  BY NoScanEmpty
<1>i. ingester \in IngesterRec /\ ingester.pc = "idle"
  <2>1. Resting \in IngesterRec /\ Resting.pc = "idle"
    BY DEF IngesterRec, Resting
  <2> QED BY <2>1 DEF VerifyInit
<1>2. VerifyTypes
  <2>1. /\ srcFile \in [Mirrored -> SourceFaults \cup {"absent", "ok"}]
        /\ modFile \in [Mirrored -> {"absent", "ok", "bad"}]
        /\ blobFile \in [Mirrored -> {"absent", "ok", "corrupt"}]
        /\ indexRow \in [Mirrored -> {"none", "row", "scip"}]
        /\ harmed \subseteq everHarmed /\ everHarmed \subseteq Mirrored
    BY DEF VerifyInit
  <2>2. scan \in ScanRec /\ DOMAIN scan.module = DOMAIN scan.source
    BY <1>1 DEF VerifyInit
  <2> QED BY <1>i, <2>1, <2>2 DEF VerifyTypes
<1>3. ASSUME NEW c \in Mirrored PROVE InWriteOrder(c) /\ OneFault(c) /\ FaultSeen(c) /\ SeenInOrder(c)
  BY <1>1, <1>i DEF VerifyInit, InWriteOrder, OneFault, FaultSeen, SeenInOrder
<1> QED BY <1>1, <1>2, <1>3 DEF VerifyInit, VerifyInv

(* No step of an ingest, of a scan or of the damage breaks the invariant.  *)
LEMMA VerifyStepInv == VerifyInv /\ [VerifyNext]_verifyVars => VerifyInv'
<1> SUFFICES ASSUME VerifyInv, [VerifyNext]_verifyVars PROVE VerifyInv'
  OBVIOUS
<1>t. /\ srcFile \in [Mirrored -> SourceFaults \cup {"absent", "ok"}]
      /\ modFile \in [Mirrored -> {"absent", "ok", "bad"}]
      /\ blobFile \in [Mirrored -> {"absent", "ok", "corrupt"}]
      /\ indexRow \in [Mirrored -> {"none", "row", "scip"}]
      /\ ingester \in IngesterRec /\ (ingester.pc # "idle" => ingester.c \in Mirrored)
      /\ scan \in ScanRec /\ DOMAIN scan.module = DOMAIN scan.source
      /\ harmed \subseteq everHarmed /\ everHarmed \subseteq Mirrored
  BY DEF VerifyInv, VerifyTypes
<1>c. ASSUME NEW c \in Mirrored PROVE InWriteOrder(c) /\ OneFault(c) /\ FaultSeen(c) /\ SeenInOrder(c)
  BY DEF VerifyInv
<1>v. /\ scan.pc = "idle" => scan.harmed = {} /\ DOMAIN scan.source = {} /\ DOMAIN scan.hashed = {}
      /\ scan.harmed \subseteq everHarmed
      /\ scan.pc = "walk" => DOMAIN scan.hashed = {}
  BY DEF VerifyInv
<1>1. CASE UNCHANGED verifyVars
  BY <1>1 DEF verifyVars, VerifyInv, VerifyTypes, InWriteOrder, OneFault, FaultSeen, SeenInOrder
\* A step that leaves the scan alone: what is harmed all along keeps its files,
\* and a blob of a version never harmed stays good.
<1>f. ASSUME scan' = scan, VerifyTypes', everHarmed \subseteq everHarmed',
             \A c \in harmed' : c \notin harmed => c \notin everHarmed,
             \A c \in harmed \cap harmed' : /\ srcFile'[c] = srcFile[c] /\ modFile'[c] = modFile[c]
                                            /\ blobFile'[c] = blobFile[c],
             \A c \in Mirrored \ everHarmed' : blobFile[c] = "ok" => blobFile'[c] = "ok",
             \A c \in Mirrored : InWriteOrder(c)' /\ OneFault(c)'
      PROVE  VerifyInv'
  <2>1. ASSUME NEW c \in Mirrored PROVE FaultSeen(c)'
    <3>1. SUFFICES ASSUME scan.pc # "idle", c \in scan.harmed, c \in harmed' PROVE FaultSeen(c)'
      BY <1>f DEF FaultSeen
    <3>2. c \in harmed
      BY <3>1, <1>f, <1>v
    <3>3. FaultSeen(c)
      BY <1>c
    <3> QED BY <3>1, <3>2, <3>3, <1>f DEF FaultSeen
  <2>2. ASSUME NEW c \in Mirrored PROVE SeenInOrder(c)'
    <3>1. c \notin everHarmed' => c \notin everHarmed
      BY <1>f
    <3> QED BY <3>1, <1>c, <1>f DEF SeenInOrder
  <2> QED BY <2>1, <2>2, <1>f, <1>v DEF VerifyInv
<1>i. /\ ingester.pc \in {"idle", "blob", "source", "module", "index"}
      /\ Resting \in IngesterRec /\ Resting.pc = "idle"
  BY <1>t DEF IngesterRec, Resting
\* The ingester moves on; the files stay.
<1>g. ASSUME NEW z \in IngesterRec, ingester' = z, z.pc # "idle" => z.c \in Mirrored,
             z.pc \notin {"source", "module", "index"}, indexRow' \in [Mirrored -> {"none", "row", "scip"}],
             UNCHANGED <<srcFile, modFile, blobFile, scan, harmed, everHarmed>>
      PROVE  VerifyInv'
  <2>1. VerifyTypes'
    BY <1>g, <1>t DEF VerifyTypes
  <2>2. ASSUME NEW c \in Mirrored PROVE InWriteOrder(c)' /\ OneFault(c)'
    BY <1>g, <1>c DEF InWriteOrder, OneFault
  <2> QED BY <2>1, <2>2, <1>f, <1>g
<1>2. ASSUME NEW c \in Mirrored, StartIngest(c) PROVE VerifyInv'
  <2> PICK z : z = [Resting EXCEPT !.pc = "blob", !.c = c]
    OBVIOUS
  <2>1. z \in IngesterRec /\ z.pc = "blob" /\ z.c = c
    BY DEF IngesterRec, Resting
  <2> QED BY <2>1, <1>2, <1>g, <1>t DEF StartIngest
<1>3. CASE WriteIndex \/ IngestDies
  <2> PICK z : z = Resting
    OBVIOUS
  <2>1. z \in IngesterRec /\ z.pc = "idle"
    BY <1>i
  <2>2. ingester' = z /\ UNCHANGED <<srcFile, modFile, blobFile, scan, harmed, everHarmed>>
    BY <1>3 DEF WriteIndex, IngestDies
  <2>3. indexRow' \in [Mirrored -> {"none", "row", "scip"}]
    BY <1>3, <1>t DEF WriteIndex, IngestDies
  <2> QED BY <2>1, <2>2, <2>3, <1>g
\* The ingester writes one good file of the version it has in hand, in order.
<1>h. ASSUME NEW p \in {"source", "module", "index"}, ingester.pc # "idle", Mended,
             ingester' \in IngesterRec, ingester'.pc = p, ingester'.c = ingester.c,
             \A d \in Mirrored : d # ingester.c =>
                /\ srcFile'[d] = srcFile[d] /\ modFile'[d] = modFile[d] /\ blobFile'[d] = blobFile[d],
             srcFile' \in [Mirrored -> SourceFaults \cup {"absent", "ok"}],
             modFile' \in [Mirrored -> {"absent", "ok", "bad"}],
             blobFile' \in [Mirrored -> {"absent", "ok", "corrupt"}],
             \* at most one file of the version changes, and it becomes good
             \/ /\ UNCHANGED <<srcFile, modFile>>
                /\ blobFile'[ingester.c] = IF blobFile[ingester.c] = "absent" THEN "ok"
                                            ELSE blobFile[ingester.c]
                /\ p = "source"
             \/ /\ UNCHANGED <<modFile, blobFile>> /\ srcFile'[ingester.c] = "ok"
                /\ ingester.pc = "source" /\ p = "module"
             \/ /\ UNCHANGED <<srcFile, blobFile>> /\ modFile'[ingester.c] = "ok"
                /\ ingester.pc = "module" /\ p = "index",
             UNCHANGED <<indexRow, scan, everHarmed>>
      PROVE  VerifyInv'
  <2> DEFINE k == ingester.c
  <2>1. k \in Mirrored /\ ingester' \in IngesterRec /\ ingester'.c = k /\ ingester'.pc = p
    BY <1>h, <1>t
  <2>2. harmed' = {c \in harmed : {srcFile'[c], modFile'[c], blobFile'[c]} # {"ok"}}
    BY <1>h DEF Mended
  <2>3. harmed' \subseteq harmed
    BY <2>2
  <2>4. VerifyTypes'
    BY <1>h, <2>1, <2>3, <1>t DEF VerifyTypes
  <2> HIDE DEF k
  <2>5. ASSUME NEW c \in harmed'
        PROVE  srcFile'[c] = srcFile[c] /\ modFile'[c] = modFile[c] /\ blobFile'[c] = blobFile[c]
    <3>1. c \in harmed /\ c \in Mirrored /\ OneFault(c)
      BY <2>3, <1>t, <1>c
    <3>2. ~(srcFile'[c] = "ok" /\ modFile'[c] = "ok" /\ blobFile'[c] = "ok")
      BY <2>2
    <3> QED BY <3>1, <3>2, <1>h DEF OneFault, k
  <2>6. ASSUME NEW c \in Mirrored PROVE InWriteOrder(c)'
    <3>1. CASE c \in harmed'
      BY <3>1 DEF InWriteOrder
    <3>2. CASE c \in harmed /\ c \notin harmed'
      <4>1. srcFile'[c] = "ok" /\ modFile'[c] = "ok" /\ blobFile'[c] = "ok"
        BY <3>2, <2>2
      <4> QED BY <4>1 DEF InWriteOrder
    <3>3. CASE c \notin harmed /\ c # k
      BY <3>3, <2>1, <1>h, <1>c DEF InWriteOrder, k
    <3>4. CASE c \notin harmed /\ c = k
      <4>1. InWriteOrder(k)
        BY <2>1, <1>c
      <4>2. /\ srcFile[k] \in {"absent", "ok"} /\ modFile[k] \in {"absent", "ok"} /\ blobFile[k] \in {"absent", "ok"}
            /\ srcFile[k] = "ok" => blobFile[k] = "ok"
            /\ modFile[k] = "ok" => srcFile[k] = "ok"
            /\ ingester.pc \in {"source", "module", "index"} => blobFile[k] = "ok"
            /\ ingester.pc \in {"module", "index"} => srcFile[k] = "ok"
        BY <4>1, <3>4 DEF InWriteOrder, k
      <4>3. /\ srcFile'[k] \in {"absent", "ok"} /\ modFile'[k] \in {"absent", "ok"} /\ blobFile'[k] = "ok"
            /\ modFile'[k] = "ok" => srcFile'[k] = "ok"
            /\ p \in {"module", "index"} => srcFile'[k] = "ok"
        BY <4>2, <1>h DEF k
      <4> QED BY <4>3, <3>4, <2>1 DEF InWriteOrder
    <3> QED BY <3>1, <3>2, <3>3, <3>4
  <2>7. ASSUME NEW c \in Mirrored PROVE OneFault(c)'
    BY <2>3, <2>5, <1>c DEF OneFault
  <2>8. ASSUME NEW c \in Mirrored, blobFile[c] = "ok" PROVE blobFile'[c] = "ok"
    BY <2>8, <1>h DEF k
  <2> QED BY <2>3, <2>4, <2>5, <2>6, <2>7, <2>8, <1>f, <1>h
<1>4. CASE CloseBlob
  <2>1. PICK f, l :
           /\ f = blobFile[ingester.c] /\ l = IF f = "absent" THEN "ok" ELSE f
           /\ blobFile' = [blobFile EXCEPT ![ingester.c] = l]
           /\ ingester' = [ingester EXCEPT !.pc = "source", !.found = f, !.left = l]
    BY <1>4 DEF CloseBlob
  <2>2. ingester.c \in Mirrored /\ ingester.pc = "blob"
    BY <1>4, <1>t DEF CloseBlob
  <2>3. f \in {"absent", "ok", "corrupt"} /\ l \in {"absent", "ok", "corrupt"}
    BY <2>1, <2>2, <1>t
  <2>4. ingester' \in IngesterRec /\ ingester'.pc = "source" /\ ingester'.c = ingester.c
    BY <2>1, <2>3, <1>t DEF IngesterRec
  <2> QED BY <1>4, <2>1, <2>2, <2>3, <2>4, <1>h, <1>t DEF CloseBlob
<1>m. ASSUME NEW p \in {"source", "module", "index"}, ingester' = [ingester EXCEPT !.pc = p]
      PROVE  ingester' \in IngesterRec /\ ingester'.pc = p /\ ingester'.c = ingester.c
  BY <1>m, <1>t DEF IngesterRec
<1>5. CASE WriteSourceFile
  BY <1>5, <1>h, <1>m, <1>t DEF WriteSourceFile
<1>6. CASE WriteModuleFile
  BY <1>6, <1>h, <1>m, <1>t DEF WriteModuleFile
<1>7. ASSUME NEW k \in Mirrored, Harm(k) PROVE VerifyInv'
  <2>1. /\ k \notin everHarmed /\ modFile[k] = "ok" /\ srcFile[k] = "ok"
        /\ harmed' = harmed \cup {k} /\ everHarmed' = everHarmed \cup {k}
        /\ UNCHANGED <<indexRow, ingester, scan>>
    BY <1>7 DEF Harm
  <2>2. \/ /\ \E f \in SourceFaults \cup {"absent"} : srcFile' = [srcFile EXCEPT ![k] = f]
           /\ UNCHANGED <<modFile, blobFile>>
        \/ /\ \E f \in {"absent", "bad"} : modFile' = [modFile EXCEPT ![k] = f]
           /\ UNCHANGED <<srcFile, blobFile>>
        \/ /\ \E f \in {"absent", "corrupt"} : blobFile' = [blobFile EXCEPT ![k] = f]
           /\ UNCHANGED <<srcFile, modFile>>
    BY <1>7 DEF Harm
  <2>3. /\ srcFile' \in [Mirrored -> SourceFaults \cup {"absent", "ok"}]
        /\ modFile' \in [Mirrored -> {"absent", "ok", "bad"}]
        /\ blobFile' \in [Mirrored -> {"absent", "ok", "corrupt"}]
    BY <2>2, <1>t
  <2>4. \A d \in Mirrored : d # k =>
           /\ srcFile'[d] = srcFile[d] /\ modFile'[d] = modFile[d] /\ blobFile'[d] = blobFile[d]
    BY <2>2, <1>t
  <2>5. VerifyTypes'
    BY <2>1, <2>3, <1>t DEF VerifyTypes
  <2>6. blobFile[k] = "ok"
    BY <2>1, <1>c, <1>t DEF InWriteOrder
  <2>7. OneFault(k)'
    <3>1. "ok" \notin SourceFaults
      BY DEF SourceFaults
    <3> QED BY <3>1, <2>1, <2>2, <2>6, <1>t DEF OneFault
  <2>8. ASSUME NEW c \in Mirrored PROVE InWriteOrder(c)' /\ OneFault(c)'
    <3>1. CASE c = k
      BY <3>1, <2>1, <2>7 DEF InWriteOrder
    <3>2. CASE c # k
      BY <3>2, <2>1, <2>4, <1>c DEF InWriteOrder, OneFault
    <3> QED BY <3>1, <3>2
  <2>9. \A c \in harmed \cap harmed' : c # k /\ c \in Mirrored
    BY <2>1, <1>t
  <2>10. \A c \in Mirrored \ everHarmed' : c # k
    BY <2>1
  <2> QED BY <2>1, <2>4, <2>5, <2>8, <2>9, <2>10, <1>f
\* A step of the scan.
<1>s. ASSUME UNCHANGED <<srcFile, modFile, blobFile, indexRow, ingester, harmed, everHarmed>>,
             scan' \in ScanRec, DOMAIN scan'.module = DOMAIN scan'.source,
             scan'.pc # "idle", scan'.harmed \subseteq everHarmed, scan'.pc = "walk" => DOMAIN scan'.hashed = {},
             \A c \in Mirrored : FaultSeen(c)' /\ SeenInOrder(c)'
      PROVE  VerifyInv'
  <2>1. VerifyTypes'
    BY <1>s, <1>t DEF VerifyTypes
  <2>2. ASSUME NEW c \in Mirrored PROVE InWriteOrder(c)' /\ OneFault(c)'
    BY <1>s, <1>c DEF InWriteOrder, OneFault
  <2> QED BY <1>s, <2>1, <2>2 DEF VerifyInv
\* The fields of the scan.
<1>p. /\ scan.left \in SUBSET Mirrored /\ scan.blobs \in SUBSET Mirrored /\ scan.source \in Learnt
      /\ scan.module \in Learnt /\ scan.hashed \in Learnt /\ scan.index \in Learnt
  BY <1>t DEF ScanRec
<1>d. /\ DOMAIN scan.source \in SUBSET Mirrored /\ indexRow \in Learnt
  <2>1. indexRow \in [Mirrored -> FileStates] /\ Mirrored \in SUBSET Mirrored
    BY <1>t DEF FileStates
  <2> QED BY <2>1, <1>p DEF Learnt
<1>8. CASE StartScan
  <2> PICK db \in BOOLEAN, deep \in BOOLEAN :
        scan' = [NoScan EXCEPT !.pc = "walk", !.left = Mirrored, !.db = db, !.deep = deep, !.harmed = harmed]
    BY <1>8 DEF StartScan
  <2>0. UNCHANGED <<srcFile, modFile, blobFile, indexRow, ingester, harmed, everHarmed>>
    BY <1>8 DEF StartScan
  <2>1. /\ scan'.pc = "walk" /\ scan'.left = Mirrored /\ scan'.source = NoScan.source
        /\ scan'.module = NoScan.module /\ scan'.hashed = NoScan.hashed /\ scan'.harmed = harmed
    BY NoScanEmpty DEF ScanRec
  <2>2. scan' \in ScanRec
    <3> DEFINE SM == SUBSET Mirrored
    <3>1. Mirrored \in SM /\ harmed \in SM
      BY <1>t
    <3>2. ScanRec = [pc : {"idle", "walk", "index", "hash", "done"}, left : SM, source : Learnt,
                     module : Learnt, blobs : SM, index : Learnt, hashed : Learnt, db : BOOLEAN,
                     deep : BOOLEAN, harmed : SM]
      BY DEF ScanRec
    <3> HIDE DEF SM
    <3> QED BY <3>1, <3>2, NoScanEmpty
  <2>3. ASSUME NEW c \in Mirrored PROVE FaultSeen(c)' /\ SeenInOrder(c)'
    BY <2>1, NoScanEmpty DEF FaultSeen, SeenInOrder
  <2> QED BY <2>0, <2>1, <2>2, <2>3, <1>s, <1>t, NoScanEmpty
<1>9. ASSUME NEW k \in Mirrored, WalkVersion(k) PROVE VerifyInv'
  <2> DEFINE rest == [scan EXCEPT !.left = @ \ {k}]
  <2>0. /\ scan.pc = "walk" /\ k \in scan.left
        /\ UNCHANGED <<srcFile, modFile, blobFile, indexRow, ingester, harmed, everHarmed>>
    BY <1>9 DEF WalkVersion
  <2>1. srcFile[k] \in FileStates /\ modFile[k] \in FileStates
    BY <1>t DEF FileStates
  <2>2. CASE DirExists(k)
    <3> PICK sv : sv = srcFile[k]
      OBVIOUS
    <3> PICK mv : mv = modFile[k]
      OBVIOUS
    <3> PICK sf : sf = scan.source
      OBVIOUS
    <3> PICK mf : mf = scan.module
      OBVIOUS
    <3>a. /\ sf \in Learnt /\ mf \in Learnt /\ DOMAIN mf = DOMAIN sf
          /\ sv \in FileStates /\ mv \in FileStates
      BY <1>p, <1>t, <2>1
    <3> PICK so : so = Learn(sf, k, sv)
      OBVIOUS
    <3> PICK mo : mo = Learn(mf, k, mv)
      OBVIOUS
    <3>b. /\ so \in Learnt /\ DOMAIN so = DOMAIN sf \cup {k} /\ so[k] = sv
          /\ \A d \in DOMAIN sf : d # k => so[d] = sf[d]
      BY ONLY <3>a, so = Learn(sf, k, sv), LearnAdds, k \in Mirrored
    <3>c. /\ mo \in Learnt /\ DOMAIN mo = DOMAIN mf \cup {k} /\ mo[k] = mv
          /\ \A d \in DOMAIN mf : d # k => mo[d] = mf[d]
      BY ONLY <3>a, mo = Learn(mf, k, mv), LearnAdds, k \in Mirrored
    <3>1. /\ so \in Learnt /\ DOMAIN so = DOMAIN scan.source \cup {k} /\ so[k] = srcFile[k]
          /\ \A d \in DOMAIN scan.source : d # k => so[d] = scan.source[d]
          /\ mo \in Learnt /\ DOMAIN mo = DOMAIN scan.source \cup {k} /\ mo[k] = modFile[k]
          /\ \A d \in DOMAIN scan.source : d # k => mo[d] = scan.module[d]
      BY <3>a, <3>b, <3>c
    <3>2. scan' = [rest EXCEPT !.source = Learn(@, k, srcFile[k]), !.module = Learn(@, k, modFile[k])]
      BY <1>9, <2>2 DEF WalkVersion
    <3>3. /\ rest \in ScanRec /\ rest.source = scan.source /\ rest.module = scan.module /\ rest.pc = scan.pc
          /\ rest.left = scan.left \ {k} /\ rest.hashed = scan.hashed /\ rest.harmed = scan.harmed
          /\ rest.blobs = scan.blobs
      BY <1>t DEF ScanRec
    <3> HIDE DEF rest
    <3>4. scan' = [rest EXCEPT !.source = so, !.module = mo]
      BY <3>2, <3>3
    <3>5. scan' \in ScanRec
      BY <3>1, <3>3, <3>4 DEF ScanRec
    <3>6. /\ scan'.source = so /\ scan'.module = mo /\ scan'.pc = "walk"
          /\ scan'.left = scan.left \ {k} /\ scan'.hashed = scan.hashed /\ scan'.harmed = scan.harmed
      BY <3>3, <3>4, <2>0 DEF ScanRec
    <3>7. ASSUME NEW c \in Mirrored PROVE FaultSeen(c)'
      BY <3>1, <3>6, <2>0, <1>c, <1>t DEF FaultSeen
    <3>8. ASSUME NEW c \in Mirrored PROVE SeenInOrder(c)'
      <4>1. CASE c # k
        BY <4>1, <3>1, <3>6, <2>0, <1>c DEF SeenInOrder
      <4>2. CASE c = k
        BY <4>2, <3>1, <3>6, <2>0, <1>c, <1>t, <1>v DEF SeenInOrder, InWriteOrder
      <4> QED BY <4>1, <4>2
    <3> QED BY <3>1, <3>5, <3>6, <3>7, <3>8, <2>0, <1>s, <1>v
  <2>3. CASE ~DirExists(k)
    <3>1. scan' = [scan EXCEPT !.left = @ \ {k}]
      BY <1>9, <2>3 DEF WalkVersion
    <3>2. /\ scan' \in ScanRec /\ scan'.source = scan.source /\ scan'.module = scan.module /\ scan'.pc = scan.pc
          /\ scan'.left = scan.left \ {k} /\ scan'.hashed = scan.hashed /\ scan'.harmed = scan.harmed
          /\ scan'.blobs = scan.blobs
      BY <3>1, <1>t DEF ScanRec
    <3>3. k \notin harmed
      BY <2>3, <1>c, <1>t DEF DirExists, OneFault
    <3>4. ASSUME NEW c \in Mirrored PROVE FaultSeen(c)' /\ SeenInOrder(c)'
      BY <3>2, <3>3, <2>0, <1>c DEF FaultSeen, SeenInOrder
    <3> QED BY <3>2, <3>4, <2>0, <1>s, <1>t, <1>v
  <2> QED BY <2>2, <2>3
<1>10. CASE ListBlobs
  <2>0. /\ scan.pc = "walk" /\ scan.left = {}
        /\ UNCHANGED <<srcFile, modFile, blobFile, indexRow, ingester, harmed, everHarmed>>
    BY <1>10 DEF ListBlobs
  <2> PICK bs : bs = {c \in Mirrored : blobFile[c] # "absent"}
    OBVIOUS
  <2>1. scan' = [scan EXCEPT !.pc = "index", !.blobs = bs]
    BY <1>10 DEF ListBlobs
  <2>2. /\ scan'.source = scan.source /\ scan'.module = scan.module /\ scan'.pc = "index"
        /\ scan'.hashed = scan.hashed /\ scan'.harmed = scan.harmed /\ scan'.blobs = bs
    BY <2>1, <1>t DEF ScanRec
  <2>3. scan' \in ScanRec
    BY <2>1, <1>t DEF ScanRec
  <2>4. ASSUME NEW c \in Mirrored PROVE FaultSeen(c)'
    BY <2>2, <2>0, <1>c DEF FaultSeen
  <2>5. ASSUME NEW c \in Mirrored PROVE SeenInOrder(c)'
    <3>1. c \in bs /\ c \notin everHarmed => blobFile[c] = "ok"
      BY <1>c, <1>t DEF InWriteOrder
    <3> QED BY <3>1, <2>2, <2>0, <1>c DEF SeenInOrder
  <2> QED BY <2>0, <2>2, <2>3, <2>4, <2>5, <1>s, <1>t, <1>v
<1>11. CASE LoadIndex
  <2>0. /\ scan.pc = "index"
        /\ UNCHANGED <<srcFile, modFile, blobFile, indexRow, ingester, harmed, everHarmed>>
    BY <1>11 DEF LoadIndex
  <2> PICK ix : ix = IF scan.db THEN indexRow ELSE scan.index
    OBVIOUS
  <2> PICK le : le = DOMAIN scan.source
    OBVIOUS
  <2>1. ix \in Learnt
    BY <1>p, <1>d
  <2>2. scan' = [scan EXCEPT !.pc = "hash", !.left = le, !.index = ix]
    BY <1>11 DEF LoadIndex
  <2>3. /\ scan'.source = scan.source /\ scan'.module = scan.module /\ scan'.pc = "hash" /\ scan'.left = le
        /\ scan'.hashed = scan.hashed /\ scan'.harmed = scan.harmed /\ scan'.blobs = scan.blobs
    BY <2>2, <1>t DEF ScanRec
  <2>4. scan' \in ScanRec
    BY <2>1, <2>2, <1>d, <1>t DEF ScanRec
  <2>5. ASSUME NEW c \in Mirrored PROVE FaultSeen(c)' /\ SeenInOrder(c)'
    BY <2>3, <2>0, <1>c DEF FaultSeen, SeenInOrder
  <2> QED BY <2>0, <2>3, <2>4, <2>5, <1>s, <1>t, <1>v
<1>12. ASSUME NEW k \in Mirrored, HashBlob(k) PROVE VerifyInv'
  <2> DEFINE rest == [scan EXCEPT !.left = @ \ {k}]
  <2>0. /\ scan.pc = "hash" /\ k \in scan.left
        /\ UNCHANGED <<srcFile, modFile, blobFile, indexRow, ingester, harmed, everHarmed>>
    BY <1>12 DEF HashBlob
  <2>1. /\ rest \in ScanRec /\ rest.source = scan.source /\ rest.module = scan.module /\ rest.pc = scan.pc
        /\ rest.left = scan.left \ {k} /\ rest.hashed = scan.hashed /\ rest.harmed = scan.harmed
        /\ rest.blobs = scan.blobs
    BY <1>t DEF ScanRec
  <2>2. CASE ExpectsBlob(scan.source[k]) /\ k \in scan.blobs
    <3> PICK ha : ha = Learn(scan.hashed, k, blobFile[k])
      OBVIOUS
    <3>1. /\ ha \in Learnt /\ DOMAIN ha = DOMAIN scan.hashed \cup {k} /\ ha[k] = blobFile[k]
          /\ \A d \in DOMAIN scan.hashed : d # k => ha[d] = scan.hashed[d]
      <4>1. scan.hashed \in Learnt /\ blobFile[k] \in FileStates
        BY <1>p, <1>t DEF FileStates
      <4> QED BY <4>1, LearnAdds
    <3>2. scan' = [rest EXCEPT !.hashed = Learn(@, k, blobFile[k])]
      BY <1>12, <2>2 DEF HashBlob
    <3> HIDE DEF rest
    <3>3. scan' = [rest EXCEPT !.hashed = ha]
      BY <3>2, <2>1
    <3>4. scan' \in ScanRec
      BY <3>1, <3>3, <2>1 DEF ScanRec
    <3>5. /\ scan'.source = scan.source /\ scan'.module = scan.module /\ scan'.pc = "hash"
          /\ scan'.left = scan.left \ {k} /\ scan'.hashed = ha /\ scan'.harmed = scan.harmed
          /\ scan'.blobs = scan.blobs
      BY <3>3, <2>0, <2>1 DEF ScanRec
    <3>6. ASSUME NEW c \in Mirrored PROVE FaultSeen(c)'
      BY <3>1, <3>5, <2>0, <1>c DEF FaultSeen
    <3>7. ASSUME NEW c \in Mirrored PROVE SeenInOrder(c)'
      BY <3>1, <3>5, <2>0, <2>2, <1>c DEF SeenInOrder
    <3> QED BY <3>4, <3>5, <3>6, <3>7, <2>0, <1>s, <1>t, <1>v
  <2>3. CASE ~(ExpectsBlob(scan.source[k]) /\ k \in scan.blobs)
    <3>1. scan' = rest
      BY <1>12, <2>3 DEF HashBlob
    <3> HIDE DEF rest
    <3>2. ASSUME NEW c \in Mirrored PROVE FaultSeen(c)'
      BY <3>1, <2>0, <2>1, <2>3, <1>c DEF FaultSeen, ExpectsBlob
    <3>3. ASSUME NEW c \in Mirrored PROVE SeenInOrder(c)'
      BY <3>1, <2>0, <2>1, <1>c DEF SeenInOrder
    <3> QED BY <3>1, <3>2, <3>3, <2>0, <2>1, <1>s, <1>t, <1>v
  <2> QED BY <2>2, <2>3
<1>13. CASE FinishScan
  <2>1. /\ scan.pc = "hash" /\ scan.left = {} /\ scan' = [scan EXCEPT !.pc = "done"]
        /\ UNCHANGED <<srcFile, modFile, blobFile, indexRow, ingester, harmed, everHarmed>>
    BY <1>13 DEF FinishScan
  <2>2. /\ scan' \in ScanRec /\ scan'.source = scan.source /\ scan'.module = scan.module /\ scan'.pc = "done"
        /\ scan'.hashed = scan.hashed /\ scan'.harmed = scan.harmed /\ scan'.blobs = scan.blobs
    BY <2>1, <1>t DEF ScanRec
  <2>3. ASSUME NEW c \in Mirrored PROVE FaultSeen(c)' /\ SeenInOrder(c)'
    BY <2>1, <2>2, <1>c DEF FaultSeen, SeenInOrder
  <2> QED BY <2>1, <2>2, <2>3, <1>s, <1>t, <1>v
<1> QED BY <1>1, <1>2, <1>3, <1>4, <1>5, <1>6, <1>7, <1>8, <1>9, <1>10, <1>11, <1>12, <1>13 DEF VerifyNext

(* A verify of any mirror, beside a running ingest and whatever the disks  *)
(* do, is exact: it reports every version that was damaged when it started *)
(* and was not written whole since, and blames no other version but one    *)
(* that lacked a file when it was walked (verify.go: loadModuleState       *)
(* before the blob listing, the hash last).                                *)
THEOREM VerifyStaysExact == VerifySpec => []VerifyIsExact
<1> QED BY VerifyInitInv, VerifyStepInv, VerifyInvExact, PTL DEF VerifySpec

(***************************************************************************)
(* The source cache (SourceCache)                                          *)
(***************************************************************************)
TreeRec == [exists : BOOLEAN, files : SUBSET (Nat \X Nat), sentinel : BOOLEAN]

\* Fields are left open where nothing depends on them.
IsCall(r) == r = [pc |-> r.pc, coord |-> r.coord, entry |-> r.entry, rev |-> r.rev, next |-> r.next]

\* A call has a coordinate, and counts members from one.
Placed(r) ==
    /\ r.rev \in Nat /\ r.next \in Nat
    /\ r.pc # "idle" => r.coord \in Coords
    /\ r.pc \in {"idle", "once", "check", "clear", "open"} => r.next = 1

SourceTypes ==
    /\ mirrored \in [Coords -> 0..MaxMirrored] /\ tree \in [Coords -> TreeRec]
    /\ call = [c \in SourceCalls |-> call[c]]
    /\ \A c \in SourceCalls : IsCall(call[c]) /\ Placed(call[c])

\* Nobody else unpacks a coordinate that was never unpacked twice at a time.
Alone == \A m \in Coords \ overlapped : \A c, d \in Unpackers(m) : c = d

\* What a call has unpacked so far, if it is alone.
Unpacked(c, m) ==
    /\ ~tree[m].sentinel
    /\ call[c].pc = "open" => tree[m].files = {}
    /\ call[c].pc = "extract" => /\ call[c].rev \in 1..MaxMirrored /\ call[c].next \in 1..Members
                                 /\ tree[m].files = {call[c].rev} \X (1..(call[c].next - 1))
    /\ call[c].pc = "seal" => /\ call[c].rev \in 1..MaxMirrored
                              /\ tree[m].files = {call[c].rev} \X (1..Members)

SourceInv ==
    /\ SourceTypes /\ Alone
    /\ \A m \in Coords \ overlapped : \A c \in Unpackers(m) : Unpacked(c, m)
    /\ SentinelIsHonest

(* Two members make a set larger than one.                                 *)
LEMMA TwoMembers ==
    ASSUME NEW S, IsFiniteSet(S), NEW c \in S, NEW d \in S, c # d
    PROVE  Cardinality(S) > 1
<1>1. IsFiniteSet({c}) /\ Cardinality({c}) = 1
  BY FS_Singleton
<1>2. IsFiniteSet({c} \cup {d}) /\ Cardinality({c} \cup {d}) = 2
  <2>1. d \notin {c}
    OBVIOUS
  <2>2. /\ IsFiniteSet({c} \cup {d})
        /\ Cardinality({c} \cup {d}) = IF d \in {c} THEN Cardinality({c}) ELSE Cardinality({c}) + 1
    BY <1>1, FS_AddElement, Zenon
  <2> QED BY <2>1, <2>2, <1>1
<1>3. Cardinality({c} \cup {d}) <= Cardinality(S)
  BY <1>2, FS_Subset
<1>4. Cardinality(S) \in Nat
  BY FS_CardinalityType
<1> QED BY <1>2, <1>3, <1>4

(* Two fields of a call change at a time.                                  *)
LEMMA CallUpdates ==
    ASSUME NEW q, IsCall(q), NEW x, NEW y
    PROVE  /\ [q EXCEPT !.pc = x, !.entry = y]
                = [pc |-> x, coord |-> q.coord, entry |-> y, rev |-> q.rev, next |-> q.next]
           /\ [q EXCEPT !.next = y, !.pc = x]
                = [pc |-> x, coord |-> q.coord, entry |-> q.entry, rev |-> q.rev, next |-> y]
<1>1. PICK p, b, e, v, n : q = [pc |-> p, coord |-> b, entry |-> e, rev |-> v, next |-> n]
  BY DEF IsCall
<1>2. /\ [q EXCEPT !.pc = x] = [pc |-> x, coord |-> b, entry |-> e, rev |-> v, next |-> n]
      /\ [q EXCEPT !.next = y] = [pc |-> p, coord |-> b, entry |-> e, rev |-> v, next |-> y]
  BY <1>1
<1>4. [q EXCEPT !.pc = x, !.entry = y] = [pc |-> x, coord |-> b, entry |-> y, rev |-> v, next |-> n]
  <2>1. PICK z : z = [q EXCEPT !.pc = x]
    OBVIOUS
  <2>2. [q EXCEPT !.pc = x, !.entry = y] = [z EXCEPT !.entry = y]
    BY <2>1
  <2>3. z = [pc |-> x, coord |-> b, entry |-> e, rev |-> v, next |-> n]
    BY <2>1, <1>2
  <2>4. [z EXCEPT !.entry = y] = [pc |-> x, coord |-> b, entry |-> y, rev |-> v, next |-> n]
    BY <2>3
  <2> QED BY <2>2, <2>4
<1>5. [q EXCEPT !.next = y, !.pc = x] = [pc |-> x, coord |-> b, entry |-> e, rev |-> v, next |-> y]
  <2>1. PICK z : z = [q EXCEPT !.next = y]
    OBVIOUS
  <2>2. [q EXCEPT !.next = y, !.pc = x] = [z EXCEPT !.pc = x]
    BY <2>1
  <2>3. z = [pc |-> p, coord |-> b, entry |-> e, rev |-> v, next |-> y]
    BY <2>1, <1>2
  <2>4. [z EXCEPT !.pc = x] = [pc |-> x, coord |-> b, entry |-> e, rev |-> v, next |-> y]
    BY <2>3
  <2> QED BY <2>2, <2>4
<1> QED BY <1>1, <1>4, <1>5

(* The call that opens a blob notes its revision.                          *)
LEMMA CallOpens ==
    ASSUME NEW q, IsCall(q), NEW y
    PROVE  [q EXCEPT !.pc = "extract", !.rev = y]
             = [pc |-> "extract", coord |-> q.coord, entry |-> q.entry, rev |-> y, next |-> q.next]
<1>1. PICK p, b, e, v, n : q = [pc |-> p, coord |-> b, entry |-> e, rev |-> v, next |-> n]
  BY DEF IsCall
<1>2. [q EXCEPT !.pc = "extract", !.rev = y] = [pc |-> "extract", coord |-> b, entry |-> e, rev |-> y, next |-> n]
  <2>1. PICK z : z = [q EXCEPT !.pc = "extract"]
    OBVIOUS
  <2>2. [q EXCEPT !.pc = "extract", !.rev = y] = [z EXCEPT !.rev = y]
    BY <2>1
  <2>3. z = [pc |-> "extract", coord |-> b, entry |-> e, rev |-> v, next |-> n]
    BY <2>1, <1>1
  <2>4. [z EXCEPT !.rev = y] = [pc |-> "extract", coord |-> b, entry |-> e, rev |-> y, next |-> n]
    BY <2>3
  <2> QED BY <2>2, <2>4
<1> QED BY <1>1, <1>2

(* An empty cache satisfies the invariant.                                 *)
LEMMA SourceInitInv == SourceInit => SourceInv
<1> SUFFICES ASSUME SourceInit PROVE SourceInv
  OBVIOUS
<1>1. SourceTypes
  <2>1. {} \in SUBSET (Nat \X Nat) /\ 0 \in 0..MaxMirrored
    BY SourceAssumption
  <2>2. NoTree \in TreeRec
    BY <2>1 DEF NoTree, TreeRec
  <2>3. IsCall(IdleCall) /\ Placed(IdleCall)
    BY DEF IdleCall, IsCall, Placed
  <2> QED BY <2>1, <2>2, <2>3 DEF SourceTypes, SourceInit
<1>2. \A m : Unpackers(m) = {}
  BY DEF SourceInit, Unpackers, IdleCall
<1>3. SentinelIsHonest
  BY DEF SourceInit, SentinelIsHonest, NoTree
<1> QED BY <1>1, <1>2, <1>3 DEF SourceInv, Alone

(* No step of a materialization, and no crash, breaks the invariant.       *)
LEMMA SourceStepInv == SourceInv /\ [SourceNext]_sourceVars => SourceInv'
<1> SUFFICES ASSUME SourceInv, [SourceNext]_sourceVars PROVE SourceInv'
  OBVIOUS
<1>t. /\ mirrored \in [Coords -> 0..MaxMirrored] /\ tree \in [Coords -> TreeRec]
      /\ call = [c \in SourceCalls |-> call[c]] /\ Alone /\ SentinelIsHonest
      /\ \A c \in SourceCalls : IsCall(call[c]) /\ Placed(call[c])
      /\ \A m \in Coords \ overlapped : \A c \in Unpackers(m) : Unpacked(c, m)
  BY DEF SourceInv, SourceTypes
\* A step of one call, which touches at most a tree it is unpacking.
<1>g. ASSUME NEW c \in SourceCalls, NEW r, IsCall(r), Placed(r),
             call' = [call EXCEPT ![c] = r], NoteOverlap, mirrored' = mirrored,
             tree' \in [Coords -> TreeRec],
             \A m \in Coords : tree'[m] # tree[m] => c \in Unpackers(m),
             \A m \in Coords \ overlapped' : c \in Unpackers(m)' => Unpacked(c, m)',
             \A m \in Coords \ overlapped' : tree'[m] # tree[m] /\ tree'[m].sentinel => Complete(tree'[m])
      PROVE  SourceInv'
  <2>1. /\ call' = [d \in SourceCalls |-> call'[d]] /\ call'[c] = r
        /\ \A d \in SourceCalls : d # c => call'[d] = call[d]
    BY <1>g, <1>t
  <2>2. SourceTypes'
    BY <1>g, <1>t, <2>1 DEF SourceTypes
  <2>3. overlapped \subseteq overlapped' /\ \A m \in Coords \ overlapped' : ~(Cardinality(Unpackers(m)') > 1)
    BY <1>g DEF NoteOverlap
  <2>4. Alone'
    <3> SUFFICES ASSUME NEW m \in Coords \ overlapped', NEW d \in Unpackers(m)', NEW e \in Unpackers(m)', d # e
                 PROVE  FALSE
      BY DEF Alone
    <3>1. IsFiniteSet(Unpackers(m)')
      <4>1. Unpackers(m)' \subseteq SourceCalls
        BY DEF Unpackers
      <4> QED BY <4>1, SourceAssumption, FS_Subset
    <3> QED BY <3>1, <2>3, TwoMembers
  <2>5. ASSUME NEW m \in Coords \ overlapped', NEW d \in Unpackers(m)' PROVE Unpacked(d, m)'
    <3>1. CASE d = c
      BY <3>1, <1>g, <2>5
    <3>2. CASE d # c
      <4>1. d \in SourceCalls /\ call'[d] = call[d]
        BY <3>2, <2>1 DEF Unpackers
      <4>2. d \in Unpackers(m)
        BY <4>1, <2>5 DEF Unpackers
      <4>3. tree'[m] = tree[m]
        BY <4>2, <3>2, <2>3, <1>g, <1>t DEF Alone
      <4>4. Unpacked(d, m)
        BY <4>2, <2>3, <1>t
      <4> QED BY <4>1, <4>3, <4>4 DEF Unpacked
    <3> QED BY <3>1, <3>2
  <2>6. SentinelIsHonest'
    <3> SUFFICES ASSUME NEW m \in Coords \ overlapped', tree'[m].sentinel PROVE Complete(tree'[m])
      BY DEF SentinelIsHonest, Complete
    <3>1. CASE tree'[m] = tree[m]
      BY <3>1, <2>3, <1>t DEF SentinelIsHonest
    <3>2. CASE tree'[m] # tree[m]
      BY <3>2, <1>g
    <3> QED BY <3>1, <3>2
  <2> QED BY <2>2, <2>4, <2>5, <2>6 DEF SourceInv
\* A step that ends a call, waits, or begins one: no tree changes hands.
<1>h. ASSUME NEW c \in SourceCalls, NEW r, IsCall(r), Placed(r),
             call' = [call EXCEPT ![c] = r], NoteOverlap, UNCHANGED <<mirrored, tree>>,
             r.pc \notin {"clear", "open", "extract", "seal"}
      PROVE  SourceInv'
  <2>1. call'[c] = r
    BY <1>h, <1>t
  <2>2. \A m \in Coords : c \notin Unpackers(m)'
    BY <1>h, <2>1 DEF Unpackers
  <2> QED BY <2>2, <1>g, <1>h, <1>t
<1>r. ASSUME NEW c \in SourceCalls, NEW p
      PROVE  /\ IsCall([call[c] EXCEPT !.pc = p]) /\ [call[c] EXCEPT !.pc = p].pc = p
             /\ [call[c] EXCEPT !.pc = p].coord = call[c].coord
             /\ [call[c] EXCEPT !.pc = p].rev = call[c].rev /\ [call[c] EXCEPT !.pc = p].next = call[c].next
  <2>1. [call[c] EXCEPT !.pc = p]
          = [pc |-> p, coord |-> call[c].coord, entry |-> call[c].entry, rev |-> call[c].rev, next |-> call[c].next]
    BY <1>t DEF IsCall
  <2> QED BY <2>1 DEF IsCall
\* A call that ends, waits or asks, with the trees as they were.
<1>e. ASSUME NEW c \in SourceCalls, NEW p, p \in {"check", "served", "failed"},
             call' = [call EXCEPT ![c].pc = p], call[c].pc # "idle",
             p = "check" => call[c].pc = "once", NoteOverlap, UNCHANGED <<mirrored, tree>>
      PROVE  SourceInv'
  <2>1. /\ call[c].coord \in Coords /\ call[c].rev \in Nat /\ call[c].next \in Nat
        /\ p = "check" => call[c].next = 1
    BY <1>e, <1>t DEF Placed
  <2>2. PICK r : r = [call[c] EXCEPT !.pc = p]
    OBVIOUS
  <2>3. call' = [call EXCEPT ![c] = r]
    BY <2>2, <1>e
  <2>4. IsCall(r) /\ r.pc = p /\ r.coord = call[c].coord /\ r.next = call[c].next /\ r.rev = call[c].rev
    BY <2>2, <1>r
  <2>5. r.pc \notin {"clear", "open", "extract", "seal"} /\ Placed(r)
    BY <2>1, <2>4, <1>e DEF Placed
  <2>6. NoteOverlap /\ UNCHANGED <<mirrored, tree>>
    BY <1>e
  <2> QED BY <2>3, <2>4, <2>5, <2>6, <1>h
<1>f. ASSUME NEW c \in SourceCalls, NEW ok \in BOOLEAN, Finish(c, ok), call[c].pc # "idle",
             NoteOverlap, UNCHANGED <<mirrored, tree>>
      PROVE  SourceInv'
  <2>1. \E p \in {"served", "failed"} : call' = [call EXCEPT ![c].pc = p]
    BY <1>f DEF Finish
  <2>2. PICK p \in {"served", "failed"} : call' = [call EXCEPT ![c].pc = p]
    BY <2>1
  <2> QED BY <1>f, <2>2, <1>e
<1>1. CASE UNCHANGED sourceVars
  BY <1>1, <1>t DEF sourceVars, SourceInv, SourceTypes, Alone, Unpackers, Unpacked, SentinelIsHonest, Complete
<1>2. ASSUME NEW m \in Coords, MirrorSource(m) PROVE SourceInv'
  <2>1. /\ mirrored[m] < MaxMirrored /\ mirrored' = [mirrored EXCEPT ![m] = @ + 1]
        /\ UNCHANGED <<tree, call, overlapped>>
    BY <1>2 DEF MirrorSource
  <2>2. mirrored' \in [Coords -> 0..MaxMirrored]
    BY <2>1, <1>t, SourceAssumption
  <2> QED BY <2>1, <2>2, <1>t DEF SourceInv, SourceTypes, Alone, Unpackers, Unpacked, SentinelIsHonest, Complete
<1>3. ASSUME NEW c \in SourceCalls, NEW m \in Coords, Materialize(c, m) PROVE SourceInv'
  <2>1. /\ call' = [call EXCEPT ![c] = [IdleCall EXCEPT !.pc = "check", !.coord = m]]
        /\ NoteOverlap /\ UNCHANGED <<mirrored, tree>>
    BY <1>3 DEF Materialize
  <2>2. PICK r : r = [IdleCall EXCEPT !.pc = "check", !.coord = m]
    OBVIOUS
  <2>3. IsCall(r) /\ r.pc = "check" /\ Placed(r)
    BY <2>2 DEF IdleCall, IsCall, Placed
  <2> QED BY <2>1, <2>2, <2>3, <1>h
<1>4. ASSUME NEW c \in SourceCalls, NEW m \in Coords, entryFor(c, m) PROVE SourceInv'
  <2>1. /\ \E e : call' = [call EXCEPT ![c] = [IdleCall EXCEPT !.pc = "once", !.coord = m, !.entry = e]]
        /\ NoteOverlap /\ UNCHANGED <<mirrored, tree>>
    BY <1>4 DEF entryFor
  <2>2. PICK e : call' = [call EXCEPT ![c] = [IdleCall EXCEPT !.pc = "once", !.coord = m, !.entry = e]]
    BY <2>1
  <2>3. PICK r : r = [IdleCall EXCEPT !.pc = "once", !.coord = m, !.entry = e]
    OBVIOUS
  <2>4. IsCall(r) /\ r.pc = "once" /\ Placed(r)
    BY <2>3 DEF IdleCall, IsCall, Placed
  <2> QED BY <2>1, <2>2, <2>3, <2>4, <1>h
<1>5. ASSUME NEW c \in SourceCalls, EnterOnce(c) PROVE SourceInv'
  <2>1. /\ call[c].pc = "once" /\ NoteOverlap /\ UNCHANGED <<mirrored, tree>>
        /\ \E p \in {"check", "served", "failed"} : call' = [call EXCEPT ![c].pc = p]
    BY <1>5 DEF EnterOnce, Finish
  <2> QED BY <2>1, <1>e
<1>6. ASSUME NEW c \in SourceCalls, CheckSentinel(c) PROVE SourceInv'
  <2>0. call[c].pc = "check" /\ call[c].coord \in Coords /\ call[c].next = 1 /\ NoteOverlap /\ UNCHANGED <<mirrored, tree>>
    BY <1>6, <1>t DEF CheckSentinel, Placed
  <2>1. CASE tree[call[c].coord].sentinel
    BY <2>0, <2>1, <1>6, <1>f DEF CheckSentinel
  <2>2. CASE ~tree[call[c].coord].sentinel
    <3>1. call' = [call EXCEPT ![c].pc = "clear"]
      BY <1>6, <2>2 DEF CheckSentinel
    <3>2. PICK r : r = [call[c] EXCEPT !.pc = "clear"]
      OBVIOUS
    <3>3. call' = [call EXCEPT ![c] = r] /\ IsCall(r) /\ r.coord = call[c].coord /\ r.pc = "clear"
      BY <3>1, <3>2, <1>r
    <3>p. Placed(r)
      BY <2>0, <3>2, <1>r, <1>t DEF Placed
    <3>4. call'[c] = r
      BY <3>3, <1>t
    <3>5. ASSUME NEW m \in Coords, c \in Unpackers(m)' PROVE Unpacked(c, m)'
      <4>1. m = call[c].coord
        BY <3>3, <3>4, <3>5 DEF Unpackers
      <4> QED BY <4>1, <3>3, <3>4, <2>0, <2>2 DEF Unpacked
    <3> QED BY <2>0, <3>3, <3>p, <3>5, <1>g, <1>t
  <2> QED BY <2>1, <2>2
<1>7. ASSUME NEW c \in SourceCalls, ClearPartial(c) PROVE SourceInv'
  <2>0. call[c].pc = "clear" /\ call[c].coord \in Coords /\ call[c].next = 1 /\ NoteOverlap /\ UNCHANGED mirrored
    BY <1>7, <1>t DEF ClearPartial, Placed
  <2> DEFINE m == call[c].coord
  <2>u. m \in Coords /\ c \in Unpackers(m)
    BY <2>0 DEF Unpackers
  <2>1. CASE /\ tree' = [tree EXCEPT ![m] = NoTree]
             /\ call' = [call EXCEPT ![c].pc = "open"]
    <3>1. NoTree \in TreeRec /\ ~NoTree.sentinel /\ NoTree.files = {}
      <4>1. {} \in SUBSET (Nat \X Nat)
        OBVIOUS
      <4> QED BY <4>1 DEF NoTree, TreeRec
    <3>2. PICK r : r = [call[c] EXCEPT !.pc = "open"]
      OBVIOUS
    <3>3. call' = [call EXCEPT ![c] = r] /\ IsCall(r) /\ r.coord = m /\ r.pc = "open"
      BY <2>1, <3>2, <1>r
    <3>p. Placed(r)
      BY <2>0, <3>2, <1>r, <1>t DEF Placed
    <3>4. call'[c] = r
      BY <3>3, <1>t
    <3>5. tree' \in [Coords -> TreeRec] /\ tree'[m] = NoTree /\ \A n \in Coords : n # m => tree'[n] = tree[n]
      BY <2>1, <2>u, <3>1, <1>t
    <3>6. ASSUME NEW n \in Coords, c \in Unpackers(n)' PROVE Unpacked(c, n)'
      <4>1. n = m
        BY <3>3, <3>4, <3>6 DEF Unpackers
      <4>2. tree'[n] = NoTree /\ call'[c].pc = "open"
        BY <4>1, <3>3, <3>4, <3>5
      <4> QED BY <4>2, <3>1 DEF Unpacked
    <3>7. \A n \in Coords : tree'[n] # tree[n] => c \in Unpackers(n)
      BY <3>5, <2>u
    <3>8. \A n \in Coords : tree'[n] # tree[n] => ~tree'[n].sentinel
      BY <3>1, <3>5
    <3> HIDE DEF m
    <3> QED BY <2>0, <3>3, <3>p, <3>5, <3>6, <3>7, <3>8, <1>g
  \* RemoveAll fails only beside another call, so the coordinate has overlapped.
  <2>2. CASE /\ \E d \in Unpackers(m) \ {c} : call[d].pc = "extract"
             /\ \E left \in SUBSET tree[m].files : tree' = [tree EXCEPT ![m].files = left]
             /\ Finish(c, FALSE)
    <3>1. m \in overlapped
      BY <2>2, <2>u, <1>t DEF Alone
    <3>2. overlapped \subseteq overlapped'
      BY <2>0 DEF NoteOverlap
    <3>3. PICK left \in SUBSET tree[m].files : tree' = [tree EXCEPT ![m].files = left]
      BY <2>2
    <3>4. tree' \in [Coords -> TreeRec] /\ \A n \in Coords : n # m => tree'[n] = tree[n]
      <4> DEFINE FF == SUBSET (Nat \X Nat)
      <4>1. TreeRec = [exists : BOOLEAN, files : FF, sentinel : BOOLEAN]
        BY DEF TreeRec
      <4>2. tree[m] \in TreeRec
        BY <2>u, <1>t
      <4>3. left \in FF
        BY <4>2, <3>3 DEF TreeRec
      <4> HIDE DEF FF, m
      <4> QED BY <4>1, <4>3, <3>3, <2>u, <1>t
    <3>5. PICK p \in {"served", "failed"} : call' = [call EXCEPT ![c].pc = p]
      BY <2>2 DEF Finish
    <3>6. PICK r : r = [call[c] EXCEPT !.pc = p]
      OBVIOUS
    <3>7. call' = [call EXCEPT ![c] = r] /\ IsCall(r) /\ r.coord = m /\ r.pc = p
      BY <3>5, <3>6, <1>r
    <3>p. Placed(r)
      BY <2>0, <3>5, <3>6, <3>7, <1>r, <1>t DEF Placed
    <3>8. call'[c] = r
      BY <3>7, <1>t
    <3>9. \A n \in Coords : c \notin Unpackers(n)'
      BY <3>7, <3>8 DEF Unpackers
    <3>10. \A n \in Coords : tree'[n] # tree[n] => c \in Unpackers(n) /\ n \in overlapped'
      BY <3>1, <3>2, <3>4, <2>u
    <3> HIDE DEF m
    <3> QED BY <2>0, <3>p, <3>4, <3>7, <3>9, <3>10, <1>g
  <2> QED BY <2>1, <2>2, <1>7 DEF ClearPartial
<1>8. ASSUME NEW c \in SourceCalls, OpenBlob(c) PROVE SourceInv'
  <2>0. call[c].pc = "open" /\ call[c].coord \in Coords /\ call[c].next = 1 /\ NoteOverlap /\ UNCHANGED mirrored
    BY <1>8, <1>t DEF OpenBlob, Placed
  <2> DEFINE m == call[c].coord
  <2>u. m \in Coords /\ c \in Unpackers(m)
    BY <2>0 DEF Unpackers
  <2>1. CASE /\ mirrored[m] > 0 /\ tree' = [tree EXCEPT ![m].exists = TRUE]
             /\ call' = [call EXCEPT ![c].pc = "extract", ![c].rev = mirrored[m]]
    <3>1. mirrored[m] \in 1..MaxMirrored
      BY <2>1, <2>u, <1>t, SourceAssumption
    <3>2. PICK r : r = [call[c] EXCEPT !.pc = "extract", !.rev = mirrored[m]]
      OBVIOUS
    <3>3. r = [pc |-> "extract", coord |-> m, entry |-> call[c].entry, rev |-> mirrored[m], next |-> call[c].next]
      <4>1. IsCall(call[c])
        BY <1>t
      <4>2. \A y : [call[c] EXCEPT !.pc = "extract", !.rev = y]
                    = [pc |-> "extract", coord |-> m, entry |-> call[c].entry, rev |-> y, next |-> call[c].next]
        BY <4>1, CallOpens
      <4> QED BY <3>2, <4>2
    <3>4. call' = [call EXCEPT ![c] = r] /\ IsCall(r)
      BY <2>1, <3>2, <3>3 DEF IsCall
    <3>5. call'[c] = r
      BY <3>4, <1>t
    <3>6. /\ tree' \in [Coords -> TreeRec] /\ tree'[m].files = tree[m].files /\ tree'[m].sentinel = tree[m].sentinel
          /\ \A n \in Coords : n # m => tree'[n] = tree[n]
      BY <2>1, <2>u, <1>t DEF TreeRec
    <3>7. ASSUME NEW n \in Coords \ overlapped', c \in Unpackers(n)' PROVE Unpacked(c, n)'
      <4>1. n = m
        BY <3>3, <3>5, <3>7 DEF Unpackers
      <4>2. n \notin overlapped
        BY <2>0 DEF NoteOverlap
      <4>3. Unpacked(c, n)
        BY <4>1, <4>2, <2>u, <1>t
      <4>4. tree[n].files = {} /\ ~tree[n].sentinel /\ call[c].next = 1
        BY <4>3, <2>0 DEF Unpacked
      <4>5. tree'[n].files = {} /\ ~tree'[n].sentinel
        BY <4>1, <4>4, <3>6
      <4>6. call'[c].pc = "extract" /\ call'[c].rev \in 1..MaxMirrored /\ call'[c].next = 1
        BY <3>1, <3>3, <3>5, <4>4
      <4>7. 1 \in 1..Members
        BY SourceAssumption
      <4>8. {call'[c].rev} \X (1..(call'[c].next - 1)) = {}
        BY <4>6
      <4> QED BY <4>5, <4>6, <4>7, <4>8 DEF Unpacked
    <3>8. \A n \in Coords : tree'[n] # tree[n] => c \in Unpackers(n)
      BY <3>6, <2>u
    <3>9. ASSUME NEW n \in Coords \ overlapped', tree'[n] # tree[n] PROVE ~tree'[n].sentinel
      <4>1. n = m /\ n \notin overlapped
        BY <3>6, <3>9, <2>0 DEF NoteOverlap
      <4> QED BY <4>1, <3>6, <2>u, <1>t DEF Unpacked
    <3>10. Placed(r)
      <4>1. call[c].next \in Nat /\ mirrored[m] \in Nat
        BY <2>0, <3>1, SourceAssumption
      <4> QED BY <4>1, <3>3, <2>u DEF Placed
    <3> HIDE DEF m
    <3> QED BY <2>0, <3>4, <3>6, <3>7, <3>8, <3>9, <3>10, <1>g
  <2>2. CASE Finish(c, FALSE) /\ tree' = tree
    BY <2>0, <2>2, <1>f
  <2> QED BY <2>1, <2>2, <1>8 DEF OpenBlob
<1>9. ASSUME NEW c \in SourceCalls, ExtractMember(c) PROVE SourceInv'
  <2>0. call[c].pc = "extract" /\ call[c].coord \in Coords /\ NoteOverlap /\ UNCHANGED mirrored
    BY <1>9, <1>t DEF ExtractMember, Placed
  <2> DEFINE m == call[c].coord
             k == call[c].next
             f == {g \in tree[m].files : g[2] # k} \cup {<<call[c].rev, k>>}
             p == IF k = Members THEN "seal" ELSE "extract"
  <2>u. m \in Coords /\ c \in Unpackers(m)
    BY <2>0 DEF Unpackers
  <2>1. CASE /\ tree' = [tree EXCEPT ![m].exists = TRUE, ![m].files = f]
             /\ call' = [call EXCEPT ![c].next = k + 1, ![c].pc = p]
    <3>1. PICK r : r = [call[c] EXCEPT !.next = k + 1, !.pc = p]
      OBVIOUS
    <3>2. r = [pc |-> p, coord |-> m, entry |-> call[c].entry, rev |-> call[c].rev, next |-> k + 1]
      <4>1. IsCall(call[c])
        BY <1>t
      <4>2. [call[c] EXCEPT !.next = k + 1, !.pc = p]
              = [pc |-> p, coord |-> m, entry |-> call[c].entry, rev |-> call[c].rev, next |-> k + 1]
        BY <4>1, CallUpdates, Zenon
      <4> QED BY <3>1, <4>2
    <3>3. call' = [call EXCEPT ![c] = r] /\ IsCall(r)
      BY <2>1, <3>1, <3>2 DEF IsCall
    <3>4. call'[c] = r /\ Placed(r)
      <4>1. call[c].rev \in Nat /\ k \in Nat /\ p \in {"seal", "extract"}
        BY <1>t DEF Placed
      <4> HIDE DEF p, k
      <4> QED BY <4>1, <3>2, <3>3, <2>u, <1>t DEF Placed
    \* Alone, the call adds the next member of its own revision.
    <3>5. ASSUME m \notin overlapped
          PROVE  /\ call[c].rev \in 1..MaxMirrored /\ k \in 1..Members /\ ~tree[m].sentinel
                 /\ f = {call[c].rev} \X (1..k)
      <4>1. /\ call[c].rev \in 1..MaxMirrored /\ k \in 1..Members /\ ~tree[m].sentinel
            /\ tree[m].files = {call[c].rev} \X (1..(k - 1))
        BY <3>5, <2>0, <2>u, <1>t DEF Unpacked
      <4>2. {g \in {call[c].rev} \X (1..(k - 1)) : g[2] # k} = {call[c].rev} \X (1..(k - 1))
        BY <4>1, SourceAssumption
      <4>3. {call[c].rev} \X (1..(k - 1)) \cup {<<call[c].rev, k>>} = {call[c].rev} \X (1..k)
        BY <4>1, SourceAssumption
      <4> QED BY <4>1, <4>2, <4>3
    <3>6. /\ tree' \in [Coords -> TreeRec] /\ tree'[m].files = f /\ tree'[m].sentinel = tree[m].sentinel
          /\ \A n \in Coords : n # m => tree'[n] = tree[n]
      <4> DEFINE FF == SUBSET (Nat \X Nat)
      <4>1. TreeRec = [exists : BOOLEAN, files : FF, sentinel : BOOLEAN]
        BY DEF TreeRec
      <4>2. tree[m] \in TreeRec /\ call[c].rev \in Nat /\ k \in Nat
        BY <2>u, <1>t DEF Placed
      <4>3. f \in FF
        BY <4>2 DEF TreeRec
      <4> HIDE DEF FF, f, m
      <4> QED BY <4>1, <4>3, <2>1, <2>u, <1>t
    <3>7. ASSUME NEW n \in Coords \ overlapped', c \in Unpackers(n)' PROVE Unpacked(c, n)'
      <4>1. n = m /\ n \notin overlapped
        BY <3>2, <3>4, <3>7, <2>0 DEF Unpackers, NoteOverlap
      <4>2. /\ call[c].rev \in 1..MaxMirrored /\ k \in 1..Members
            /\ ~tree'[n].sentinel /\ tree'[n].files = {call[c].rev} \X (1..k)
        BY <4>1, <3>5, <3>6
      <4>3. call'[c].pc = p /\ call'[c].rev = call[c].rev /\ call'[c].next = k + 1
        BY <3>2, <3>4
      <4>4. CASE k = Members
        BY <4>2, <4>3, <4>4 DEF Unpacked
      <4>5. CASE k # Members
        <5>1. k + 1 \in 1..Members /\ (k + 1) - 1 = k
          BY <4>2, <4>5, SourceAssumption
        <5> QED BY <5>1, <4>2, <4>3, <4>5 DEF Unpacked
      <4> QED BY <4>4, <4>5
    <3>8. \A n \in Coords : tree'[n] # tree[n] => c \in Unpackers(n)
      BY <3>6, <2>u
    <3>9. ASSUME NEW n \in Coords \ overlapped', tree'[n] # tree[n] PROVE ~tree'[n].sentinel
      <4>1. n = m /\ n \notin overlapped
        BY <3>6, <3>9, <2>0 DEF NoteOverlap
      <4> QED BY <4>1, <3>5, <3>6
    <3> HIDE DEF m, k, f, p
    <3> QED BY <2>0, <3>3, <3>4, <3>6, <3>7, <3>8, <3>9, <1>g
  <2>2. CASE Finish(c, FALSE) /\ tree' = tree
    BY <2>0, <2>2, <1>f
  <2> QED BY <2>1, <2>2, <1>9 DEF ExtractMember
<1>10. ASSUME NEW c \in SourceCalls, WriteSentinel(c) PROVE SourceInv'
  <2>0. call[c].pc = "seal" /\ call[c].coord \in Coords /\ NoteOverlap /\ UNCHANGED mirrored
    BY <1>10, <1>t DEF WriteSentinel, Placed
  <2> DEFINE m == call[c].coord
  <2>u. m \in Coords /\ c \in Unpackers(m)
    BY <2>0 DEF Unpackers
  <2>1. /\ tree' = [tree EXCEPT ![m].sentinel = @ \/ tree[m].exists]
        /\ \E p \in {"served", "failed"} : call' = [call EXCEPT ![c].pc = p]
    BY <1>10 DEF WriteSentinel, Finish
  <2>2. PICK p \in {"served", "failed"} : call' = [call EXCEPT ![c].pc = p]
    BY <2>1
  <2>3. PICK r : r = [call[c] EXCEPT !.pc = p]
    OBVIOUS
  <2>4. call' = [call EXCEPT ![c] = r] /\ IsCall(r) /\ r.coord = m /\ r.pc = p
    BY <2>2, <2>3, <1>r
  <2>5. call'[c] = r /\ Placed(r)
    BY <2>0, <2>2, <2>3, <2>4, <1>r, <1>t DEF Placed
  <2>6. \A n \in Coords : c \notin Unpackers(n)'
    BY <2>4, <2>5 DEF Unpackers
  <2>7. /\ tree' \in [Coords -> TreeRec] /\ tree'[m].files = tree[m].files
        /\ \A n \in Coords : n # m => tree'[n] = tree[n]
    <3> DEFINE b == (tree[m].sentinel \/ tree[m].exists)
    <3>1. b \in BOOLEAN
      OBVIOUS
    <3>2. tree' = [tree EXCEPT ![m].sentinel = b]
      BY <2>1
    <3> HIDE DEF b, m
    <3> QED BY <3>1, <3>2, <2>u, <1>t DEF TreeRec
  <2>8. \A n \in Coords : tree'[n] # tree[n] => c \in Unpackers(n)
    BY <2>7, <2>u
  <2>9. ASSUME NEW n \in Coords \ overlapped', tree'[n] # tree[n] PROVE Complete(tree'[n])
    <3>1. n = m /\ n \notin overlapped
      BY <2>7, <2>9, <2>0 DEF NoteOverlap
    <3>2. call[c].rev \in 1..MaxMirrored /\ tree[n].files = {call[c].rev} \X (1..Members)
      BY <3>1, <2>0, <2>u, <1>t DEF Unpacked
    <3> QED BY <3>1, <3>2, <2>7 DEF Complete
  <2> HIDE DEF m
  <2> QED BY <2>0, <2>4, <2>5, <2>6, <2>7, <2>8, <2>9, <1>g
<1>11. CASE CrashSources
  <2>1. /\ call' = [c \in SourceCalls |->
                      IF call[c].pc = "idle" THEN call[c] ELSE [call[c] EXCEPT !.pc = "gone", !.entry = 0]]
        /\ UNCHANGED <<mirrored, tree, overlapped>>
    BY <1>11 DEF CrashSources
  <2>2. ASSUME NEW c \in SourceCalls
        PROVE  IsCall(call'[c]) /\ Placed(call'[c]) /\ call'[c].pc \in {"idle", "gone"}
    <3>1. PICK q, b, e, v, n : call[c] = [pc |-> q, coord |-> b, entry |-> e, rev |-> v, next |-> n]
      BY <1>t DEF IsCall
    <3>2. CASE call[c].pc = "idle"
      BY <3>2, <2>1, <1>t
    <3>3. CASE call[c].pc # "idle"
      <4>1. call'[c] = [pc |-> "gone", coord |-> b, entry |-> 0, rev |-> v, next |-> n]
        <5>1. IsCall(call[c])
          BY <1>t
        <5>2. [call[c] EXCEPT !.pc = "gone", !.entry = 0]
                = [pc |-> "gone", coord |-> call[c].coord, entry |-> 0, rev |-> call[c].rev, next |-> call[c].next]
          BY <5>1, CallUpdates, Zenon
        <5>3. call'[c] = [call[c] EXCEPT !.pc = "gone", !.entry = 0]
          BY <3>3, <2>1
        <5> QED BY <5>2, <5>3, <3>1
      <4>2. b \in Coords /\ v \in Nat /\ n \in Nat
        BY <3>1, <3>3, <1>t DEF Placed
      <4> QED BY <4>1, <4>2 DEF IsCall, Placed
    <3> QED BY <3>2, <3>3
  <2>3. \A m : Unpackers(m)' = {}
    BY <2>2 DEF Unpackers
  <2>4. SourceTypes'
    BY <2>1, <2>2, <1>t DEF SourceTypes
  <2> QED BY <2>1, <2>3, <2>4, <1>t DEF SourceInv, Alone, SentinelIsHonest, Complete
<1> QED
  BY <1>1, <1>2, <1>3, <1>4, <1>5, <1>6, <1>7, <1>8, <1>9, <1>10, <1>11 DEF SourceNext

(* For any number of calls, coordinates, archives and crashes, a sentinel  *)
(* stands only over a whole tree of one revision, unless two calls have    *)
(* unpacked that coordinate at a time (unpackSource: the partial tree is   *)
(* cleared first and the sentinel written last).                           *)
THEOREM SentinelStaysHonest == SourceSpec => []SentinelIsHonest
<1>1. SourceInv => SentinelIsHonest
  BY DEF SourceInv
<1> QED BY <1>1, SourceInitInv, SourceStepInv, PTL DEF SourceSpec

(***************************************************************************)
(* From a coordinate to a source tree (Materialize)                        *)
(***************************************************************************)
MatRec == [pc : {"source", "check", "extract", "verify", "module", "ok", "cleaned", "failed"}, temp : BOOLEAN,
           next : Nat \ {0}, total : Nat, files : SUBSET (Nat \X Nat), hashed : {"none", "prefix", "all"},
           module : BOOLEAN, modBytes : BOOLEAN]

\* The entries before the next one are extracted, each in full.
Extracted ==
    \A i \in 1..Len(offer.entries) : i < mat.next /\ offer.entries[i].kind \in Regular
        => <<i, offer.entries[i].size>> \in mat.files

MatInv ==
    /\ mat \in MatRec /\ offer.entries \in Seq(Entries)
    /\ caller \in [capture : BOOLEAN, fallback : BOOLEAN]
    /\ mat.total <= MaxBytes
    /\ mat.pc \notin {"failed", "cleaned"} => Extracted
    /\ mat.pc \in {"extract", "verify", "module", "ok"} => mat.temp
    /\ mat.pc \in {"verify", "module", "ok"} => mat.next > Len(offer.entries)
    /\ mat.pc \in {"module", "ok"} /\ offer.integrity # "" =>
          offer.integrity = "sha256" /\ offer.intact /\ mat.hashed = "all"
    /\ mat.pc = "ok" /\ caller.fallback => mat.module
    /\ mat.pc = "failed" => ~mat.temp

(* The call that has done nothing yet satisfies the invariant.             *)
LEMMA MatInitInv == MatInit => MatInv
<1> SUFFICES ASSUME MatInit PROVE MatInv
  OBVIOUS
<1> USE MatAssumption
<1>1. mat = [pc |-> "source", temp |-> FALSE, next |-> 1, total |-> 0, files |-> {},
              hashed |-> "none", module |-> FALSE, modBytes |-> FALSE]
  BY DEF MatInit
<1>2. offer.entries \in Archives /\ caller \in [capture : BOOLEAN, fallback : BOOLEAN]
  BY DEF MatInit
<1>3. mat \in MatRec
  BY <1>1 DEF MatRec
<1>4. Extracted
  BY <1>1 DEF Extracted
<1> QED BY <1>1, <1>2, <1>3, <1>4 DEF MatInv

(* No step of the call breaks it: the budget check lets an entry through   *)
(* only when the LimitReader has copied all of it.                         *)
LEMMA MatStepInv == MatInv /\ [MatNext]_matVars => MatInv'
<1> SUFFICES ASSUME MatInv, [MatNext]_matVars PROVE MatInv'
  OBVIOUS
<1> USE MatAssumption
<1>t. /\ mat \in MatRec /\ offer.entries \in Seq(Entries) /\ mat.total <= MaxBytes
      /\ caller \in [capture : BOOLEAN, fallback : BOOLEAN]
  BY DEF MatInv
<1>p. /\ mat.next \in Nat \ {0} /\ mat.total \in Nat /\ Len(offer.entries) \in Nat
      /\ mat.files \in SUBSET (Nat \X Nat)
  BY <1>t DEF MatRec
<1>1. CASE UNCHANGED matVars
  BY <1>1 DEF matVars, MatInv, Extracted
<1>2. CASE Abort /\ UNCHANGED <<offer, caller>>
  <2>1. mat' = [mat EXCEPT !.pc = "failed", !.temp = FALSE, !.files = {}]
    BY <1>2 DEF Abort
  <2>2. mat' \in MatRec /\ mat'.pc = "failed" /\ ~mat'.temp /\ mat'.total = mat.total
    BY <2>1, <1>t DEF MatRec
  <2> QED BY <2>2, <1>2, <1>t DEF MatInv
\* A step of the call that extracts nothing.
<1>k. ASSUME mat' \in MatRec, UNCHANGED <<offer, caller>>, mat.pc \notin {"failed", "cleaned"},
             mat'.next = mat.next, mat'.total = mat.total, mat'.files = mat.files,
             mat'.pc \in {"extract", "verify", "module", "ok"} => mat'.temp,
             mat'.pc \in {"verify", "module", "ok"} => mat.next > Len(offer.entries),
             mat'.pc \in {"module", "ok"} /\ offer.integrity # "" =>
                 offer.integrity = "sha256" /\ offer.intact /\ mat'.hashed = "all",
             mat'.pc = "ok" /\ caller.fallback => mat'.module,
             mat'.pc # "failed"
      PROVE  MatInv'
  <2>1. Extracted /\ Extracted'
    BY <1>k DEF MatInv, Extracted
  <2> QED BY <2>1, <1>k, <1>t DEF MatInv
<1>3. CASE GetSource
  <2>0. mat.pc = "source" /\ UNCHANGED <<offer, caller>>
    BY <1>3 DEF GetSource
  <2>1. CASE Abort
    BY <2>0, <2>1, <1>2
  <2>2. CASE mat' = [mat EXCEPT !.pc = "check", !.modBytes = caller.capture]
    <3>1. mat' \in MatRec
      BY <2>2, <1>t DEF MatRec
    <3>2. /\ mat'.pc = "check" /\ mat'.next = mat.next /\ mat'.total = mat.total /\ mat'.files = mat.files
      BY <2>2, <1>t DEF MatRec
    <3> QED BY <3>1, <3>2, <2>0, <1>k
  <2> QED BY <2>1, <2>2, <1>3 DEF GetSource
<1>4. CASE FetchArchive
  <2>0. mat.pc = "check" /\ UNCHANGED <<offer, caller>>
    BY <1>4 DEF FetchArchive
  <2>1. CASE Abort
    BY <2>0, <2>1, <1>2
  <2>2. CASE mat' = [mat EXCEPT !.pc = "extract", !.temp = TRUE]
    <3>1. mat' \in MatRec
      BY <2>2, <1>t DEF MatRec
    <3>2. /\ mat'.pc = "extract" /\ mat'.next = mat.next /\ mat'.total = mat.total /\ mat'.files = mat.files
          /\ mat'.temp
      BY <2>2, <1>t DEF MatRec
    <3> QED BY <3>1, <3>2, <2>0, <1>k
  <2> QED BY <2>1, <2>2, <1>4 DEF FetchArchive
<1>5. CASE BufferZip
  <2>0. mat.pc = "extract" /\ UNCHANGED <<offer, caller>>
    BY <1>5 DEF BufferZip
  <2>1. CASE Abort
    BY <2>0, <2>1, <1>2
  <2>2. CASE mat' = [mat EXCEPT !.hashed = "all"]
    <3>1. mat' \in MatRec
      BY <2>2, <1>t DEF MatRec
    <3>2. /\ mat'.pc = "extract" /\ mat'.next = mat.next /\ mat'.total = mat.total /\ mat'.files = mat.files
          /\ mat'.temp = mat.temp
      BY <2>0, <2>2, <1>t DEF MatRec
    <3>3. mat.temp
      BY <2>0 DEF MatInv
    <3> QED BY <3>1, <3>2, <3>3, <2>0, <1>k
  <2> QED BY <2>1, <2>2, <1>5 DEF BufferZip
<1>6. CASE ExtractEntry
  <2> DEFINE k == mat.next
             e == offer.entries[k]
             n == Copied(e)
  <2>0. mat.pc = "extract" /\ k <= Len(offer.entries) /\ UNCHANGED <<offer, caller>>
    BY <1>6 DEF ExtractEntry, Readable
  <2>1. \/ Abort
        \/ e.kind \in {"dir", "link", "below"} /\ mat' = [mat EXCEPT !.next = @ + 1]
        \/ /\ e.kind \in Regular /\ Remaining > 0 /\ mat.total + n <= MaxBytes
           /\ mat' = [mat EXCEPT !.next = @ + 1, !.total = @ + n, !.files = @ \cup {<<mat.next, n>>},
                                 !.module = @ \/ e.kind = "MODULE.bazel"]
    BY <1>6 DEF ExtractEntry
  <2>2. Extracted /\ mat.temp
    BY <2>0 DEF MatInv
  <2>3. CASE Abort
    BY <2>0, <2>3, <1>2
  <2>4. CASE e.kind \in {"dir", "link", "below"} /\ mat' = [mat EXCEPT !.next = @ + 1]
    <3>1. mat' \in MatRec
      BY <2>4, <1>t, <1>p DEF MatRec
    <3>2. /\ mat'.pc = "extract" /\ mat'.next = k + 1 /\ mat'.total = mat.total /\ mat'.files = mat.files
          /\ mat'.temp = mat.temp
      BY <2>0, <2>4, <1>t DEF MatRec
    <3>3. ASSUME NEW i \in 1..Len(offer.entries), i < k + 1, offer.entries[i].kind \in Regular
          PROVE  <<i, offer.entries[i].size>> \in mat.files
      <4>1. i # k
        BY <2>4, <3>3 DEF Regular
      <4>2. i < k
        BY <3>3, <4>1, <1>p
      <4> QED BY <4>2, <3>3, <2>2 DEF Extracted
    <3>4. Extracted'
      BY <3>2, <3>3, <2>0 DEF Extracted
    <3> QED BY <3>1, <3>2, <3>4, <2>0, <2>2, <1>t DEF MatInv
  <2>5. CASE /\ e.kind \in Regular /\ Remaining > 0 /\ mat.total + n <= MaxBytes
             /\ mat' = [mat EXCEPT !.next = @ + 1, !.total = @ + n, !.files = @ \cup {<<mat.next, n>>},
                                   !.module = @ \/ e.kind = "MODULE.bazel"]
    <3>0. k \in 1..Len(offer.entries)
      BY <2>0, <1>p
    <3>1. e \in Entries
      BY <3>0, <1>t
    <3>2. e.size \in Nat
      BY <3>1 DEF Entries
    <3>3. n \in Nat /\ n = e.size
      BY <3>2, <2>5, <1>p, <1>t DEF Copied, Remaining
    <3> HIDE DEF n
    <3>4. <<k, n>> \in Nat \X Nat
      BY <3>0, <3>3
    <3> PICK fs : fs = mat.files \cup {<<k, n>>}
      OBVIOUS
    <3>5. fs \in SUBSET (Nat \X Nat)
      BY <3>4, <1>p
    <3> PICK b : b = (mat.module \/ e.kind = "MODULE.bazel")
      OBVIOUS
    <3>6. b \in BOOLEAN
      OBVIOUS
    <3>7. mat' = [mat EXCEPT !.next = @ + 1, !.total = @ + n, !.files = fs, !.module = b]
      BY <2>5
    <3>8. k + 1 \in Nat \ {0} /\ mat.total + n \in Nat
      BY <3>3, <1>p
    <3>9. mat' \in MatRec
      <4> DEFINE SF == SUBSET (Nat \X Nat)
      <4>1. MatRec = [pc : {"source", "check", "extract", "verify", "module", "ok", "cleaned", "failed"},
                      temp : BOOLEAN, next : Nat \ {0}, total : Nat, files : SF,
                      hashed : {"none", "prefix", "all"}, module : BOOLEAN, modBytes : BOOLEAN] /\ fs \in SF
        BY <3>5 DEF MatRec
      <4> HIDE DEF SF
      <4> QED BY <4>1, <3>6, <3>7, <3>8, <1>t
    <3>10. /\ mat'.pc = "extract" /\ mat'.next = k + 1 /\ mat'.total = mat.total + n /\ mat'.files = fs
           /\ mat'.temp = mat.temp
      BY <3>7, <2>0, <1>t DEF MatRec
    <3>11. ASSUME NEW i \in 1..Len(offer.entries), i < k + 1, offer.entries[i].kind \in Regular
           PROVE  <<i, offer.entries[i].size>> \in fs
      <4>1. CASE i = k
        BY <4>1, <3>3
      <4>2. CASE i # k
        <5>1. i < k
          BY <3>11, <4>2, <1>p
        <5> QED BY <5>1, <3>11, <2>2 DEF Extracted
      <4> QED BY <4>1, <4>2
    <3>12. Extracted'
      BY <3>10, <3>11, <2>0 DEF Extracted
    <3> QED BY <3>9, <3>10, <3>12, <2>0, <2>2, <2>5, <1>t DEF MatInv
  <2> QED BY <2>1, <2>3, <2>4, <2>5
<1>7. CASE EndOfArchive
  <2> PICK h : h = IF offer.kind = "tgz" /\ offer.tail THEN "prefix" ELSE "all"
    OBVIOUS
  <2>0. /\ mat.pc = "extract" /\ mat.next > Len(offer.entries) /\ UNCHANGED <<offer, caller>>
        /\ mat' = [mat EXCEPT !.pc = "verify", !.hashed = h]
    BY <1>7 DEF EndOfArchive, Readable
  <2>1. h \in {"prefix", "all"}
    OBVIOUS
  <2>2. mat' \in MatRec
    BY <2>0, <2>1, <1>t DEF MatRec
  <2>3. /\ mat'.pc = "verify" /\ mat'.next = mat.next /\ mat'.total = mat.total /\ mat'.files = mat.files
        /\ mat'.temp = mat.temp
    BY <2>0, <1>t DEF MatRec
  <2>4. mat.temp
    BY <2>0 DEF MatInv
  <2> QED BY <2>0, <2>2, <2>3, <2>4, <1>k
<1>8. CASE Verify
  <2>0. mat.pc = "verify" /\ UNCHANGED <<offer, caller>>
    BY <1>8 DEF Verify
  <2>1. CASE Abort
    BY <2>0, <2>1, <1>2
  <2>2. CASE /\ offer.integrity = "" \/ (offer.integrity = "sha256" /\ Matches)
             /\ mat' = [mat EXCEPT !.pc = "module"]
    <3>1. mat' \in MatRec
      BY <2>2, <1>t DEF MatRec
    <3>2. /\ mat'.pc = "module" /\ mat'.next = mat.next /\ mat'.total = mat.total /\ mat'.files = mat.files
          /\ mat'.temp = mat.temp /\ mat'.hashed = mat.hashed
      BY <2>2, <1>t DEF MatRec
    <3>3. mat.temp /\ mat.next > Len(offer.entries)
      BY <2>0 DEF MatInv
    <3>4. offer.integrity # "" => offer.integrity = "sha256" /\ offer.intact /\ mat'.hashed = "all"
      BY <2>2, <3>2 DEF Matches
    <3> QED BY <3>1, <3>2, <3>3, <3>4, <2>0, <1>k
  <2> QED BY <2>1, <2>2, <1>8 DEF Verify
<1>9. CASE ModuleFallback
  <2> DEFINE have == mat.modBytes \/ caller.fallback
  <2>0. mat.pc = "module" /\ UNCHANGED <<offer, caller>>
    BY <1>9 DEF ModuleFallback
  <2>1. CASE Abort
    BY <2>0, <2>1, <1>2
  <2>2. CASE mat' = [mat EXCEPT !.pc = "ok", !.module = @ \/ have]
    <3> PICK b : b = (mat.module \/ have)
      OBVIOUS
    <3>0. mat' = [mat EXCEPT !.pc = "ok", !.module = b] /\ b \in BOOLEAN /\ (caller.fallback => b)
      BY <2>2
    <3>1. mat' \in MatRec
      BY <3>0, <1>t DEF MatRec
    <3>2. /\ mat'.pc = "ok" /\ mat'.next = mat.next /\ mat'.total = mat.total /\ mat'.files = mat.files
          /\ mat'.temp = mat.temp /\ mat'.hashed = mat.hashed /\ mat'.module = b
      BY <3>0, <1>t DEF MatRec
    <3>3. /\ mat.temp /\ mat.next > Len(offer.entries)
          /\ offer.integrity # "" => offer.integrity = "sha256" /\ offer.intact /\ mat.hashed = "all"
      BY <2>0 DEF MatInv
    <3> QED BY <3>0, <3>1, <3>2, <3>3, <2>0, <1>k
  <2> QED BY <2>1, <2>2, <1>9 DEF ModuleFallback
<1>10. CASE Cleanup
  <2>1. mat.pc = "ok" /\ mat' = [mat EXCEPT !.pc = "cleaned", !.temp = FALSE] /\ UNCHANGED <<offer, caller>>
    BY <1>10 DEF Cleanup
  <2>2. mat' \in MatRec /\ mat'.pc = "cleaned" /\ mat'.total = mat.total
    BY <2>1, <1>t DEF MatRec
  <2> QED BY <2>1, <2>2, <1>t DEF MatInv
<1> QED BY <1>1, <1>3, <1>4, <1>5, <1>6, <1>7, <1>8, <1>9, <1>10 DEF MatNext

(* For any extraction budget and any archive, a tree that is handed out is *)
(* the whole archive its integrity names, every regular entry at its full  *)
(* size, and a failed call leaves no directory (resolve.FromSource with    *)
(* archive.extractTar and ExtractZip).                                     *)
THEOREM MaterializesWholeTrees == MatSpec => []MaterializedIsWhole
<1>1. MatInv => MaterializedIsWhole
  <2> SUFFICES ASSUME MatInv PROVE MaterializedIsWhole
    OBVIOUS
  <2>0. mat \in MatRec /\ offer.entries \in Seq(Entries)
    BY DEF MatInv
  <2>1. mat.next \in Nat /\ Len(offer.entries) \in Nat
    BY <2>0 DEF MatRec
  <2>2. ASSUME mat.pc = "ok", NEW i \in 1..Len(offer.entries), offer.entries[i].kind \in Regular
        PROVE  <<i, offer.entries[i].size>> \in mat.files
    <3>0. Extracted /\ mat.next > Len(offer.entries)
      BY <2>2 DEF MatInv
    <3>1. i < mat.next
      BY <3>0, <2>1
    <3> QED BY <3>0, <3>1, <2>2 DEF Extracted
  <2> QED BY <2>2 DEF MatInv, MaterializedIsWhole
<1> QED BY <1>1, MatInitInv, MatStepInv, PTL DEF MatSpec

(***************************************************************************)
(* Drift summaries (DriftSync)                                             *)
(***************************************************************************)
SummaryRec == [sha : Int, rev : Int]
WriterRec == [pc : {"idle", "snapshot", "next", "write"}, sha : Nat, to : Nat, left : SUBSET Rows,
              row : Rows \cup {"none"}, seen : [Modules -> Int], ok : BOOLEAN]

DriftTypes ==
    /\ upstreamRev \in Nat /\ mirrorHead \in Nat /\ refreshed \in Nat
    /\ mirrorHead <= upstreamRev /\ refreshed <= upstreamRev
    /\ rows \in [Rows -> SummaryRec] /\ writer \in [Writers -> WriterRec]

\* Revisions a writer reads come after the label it has noted, and the rows it
\* has to do are in the index.
Reading(w) ==
    /\ writer[w].sha <= upstreamRev
    /\ mirrorHead > 0 => writer[w].sha <= mirrorHead
    /\ \A m \in Modules : \/ writer[w].seen[m] \in {NotSeen, Failed}
                          \/ writer[w].sha <= writer[w].seen[m]
    /\ writer[w].pc \in {"idle", "snapshot"} => \A m \in Modules : writer[w].seen[m] = NotSeen
    /\ writer[w].pc = "write" => /\ writer[w].row \in Rows /\ rows[writer[w].row] # Absent
                                 /\ writer[w].seen[ModuleOf[writer[w].row]] \notin {NotSeen, Failed}
    /\ \A r \in writer[w].left : rows[r] # Absent

\* The mirror stands still under a sync run, and the rows it has done are at
\* its revision.
Syncing ==
    writer["sync"].pc # "idle" =>
        /\ mirrorHead = writer["sync"].to /\ writer["sync"].to > 0 /\ refreshed <= writer["sync"].to
        /\ \A m \in Modules : writer["sync"].seen[m] \in {NotSeen, Failed, writer["sync"].to}

RowsDone ==
    writer["sync"].pc \in {"next", "write"} /\ writer["sync"].ok =>
        \A r \in Rows \ lapsed :
            \/ rows[r] = Absent \/ r \in writer["sync"].left
            \/ writer["sync"].pc = "write" /\ r = writer["sync"].row
            \/ rows[r].rev >= writer["sync"].to

DriftInv ==
    /\ DriftTypes /\ (\A w \in Writers : Reading(w)) /\ Syncing /\ RowsDone /\ DriftRowsHonest

(* A writer at rest has read and noted nothing.                            *)
LEMMA IdleWriterType ==
    /\ IdleWriter \in WriterRec /\ IdleWriter.pc = "idle" /\ IdleWriter.sha = 0 /\ IdleWriter.left = {}
    /\ \A m \in Modules : IdleWriter.seen[m] = NotSeen
<1> DEFINE SR == SUBSET Rows
           sn == [m \in Modules |-> NotSeen]
<1>1. {} \in SR /\ sn \in [Modules -> Int] /\ \A m \in Modules : sn[m] = NotSeen
  BY DEF NotSeen
<1>2. WriterRec = [pc : {"idle", "snapshot", "next", "write"}, sha : Nat, to : Nat, left : SR,
                   row : Rows \cup {"none"}, seen : [Modules -> Int], ok : BOOLEAN]
  BY DEF WriterRec
<1>3. IdleWriter = [pc |-> "idle", sha |-> 0, to |-> 0, left |-> {}, row |-> "none", seen |-> sn, ok |-> TRUE]
  BY DEF IdleWriter
<1> HIDE DEF SR, sn
<1> QED BY <1>1, <1>2, <1>3

(* With no verdict in any row the invariant holds.                         *)
LEMMA DriftInitInv == DriftInit => DriftInv
<1> SUFFICES ASSUME DriftInit PROVE DriftInv
  OBVIOUS
<1>0. Absent \in SummaryRec /\ Unknown \in SummaryRec /\ Absent.sha = -1 /\ Absent.rev = -1
      /\ Unknown.sha = 0 /\ Unknown.rev = 0
  BY DEF Absent, Unknown, SummaryRec
<1>1. /\ upstreamRev = 1 /\ mirrorHead = 0 /\ refreshed = 0 /\ rows \in [Rows -> {Absent, Unknown}]
      /\ writer = [w \in Writers |-> IdleWriter]
  BY DEF DriftInit
<1>2. DriftTypes
  BY <1>0, <1>1, IdleWriterType DEF DriftTypes
<1>3. \A w \in Writers : Reading(w)
  BY <1>1, IdleWriterType DEF Reading
<1>4. Syncing /\ RowsDone
  BY <1>1, IdleWriterType DEF Syncing, RowsDone, Writers
<1>5. DriftRowsHonest
  BY <1>0, <1>1 DEF DriftRowsHonest
<1> QED BY <1>2, <1>3, <1>4, <1>5 DEF DriftInv

(* No commit, sync, refresh or backfill step breaks the invariant.         *)
LEMMA DriftStepInv == DriftInv /\ [DriftNext]_driftVars => DriftInv'
<1> SUFFICES ASSUME DriftInv, [DriftNext]_driftVars PROVE DriftInv'
  OBVIOUS
<1> USE DEF NotSeen, Failed
<1>t. /\ upstreamRev \in Nat /\ mirrorHead \in Nat /\ refreshed \in Nat
      /\ mirrorHead <= upstreamRev /\ refreshed <= upstreamRev
      /\ rows \in [Rows -> SummaryRec] /\ writer \in [Writers -> WriterRec]
      /\ (\A w \in Writers : Reading(w)) /\ Syncing /\ RowsDone /\ DriftRowsHonest
  BY DEF DriftInv, DriftTypes
<1>w. ASSUME NEW w \in Writers
      PROVE  /\ writer[w].pc \in {"idle", "snapshot", "next", "write"}
             /\ writer[w].sha \in Nat /\ writer[w].to \in Nat /\ writer[w].left \in SUBSET Rows
             /\ writer[w].seen \in [Modules -> Int] /\ writer[w].ok \in BOOLEAN
  BY <1>t DEF WriterRec
<1>r. \A r \in Rows : rows[r].sha \in Int /\ rows[r].rev \in Int
  BY <1>t DEF SummaryRec
<1>s. "sync" \in Writers
  BY DEF Writers
<1>1. CASE UNCHANGED driftVars
  BY <1>1, <1>t DEF driftVars, DriftInv, DriftTypes, Reading, Syncing, RowsDone, DriftRowsHonest
<1>2. CASE UpstreamCommit
  <2>1. upstreamRev' = upstreamRev + 1 /\ UNCHANGED <<mirrorHead, rows, writer, refreshed, lapsed>>
    BY <1>2 DEF UpstreamCommit
  <2>2. DriftTypes'
    BY <2>1, <1>t DEF DriftTypes
  <2>3. ASSUME NEW w \in Writers PROVE Reading(w)'
    BY <2>1, <1>w, <1>t DEF Reading
  <2> QED BY <2>1, <2>2, <2>3, <1>t DEF DriftInv, Syncing, RowsDone, DriftRowsHonest
<1>3. ASSUME NEW r \in Rows, AddRow(r) PROVE DriftInv'
  <2>1. /\ rows[r] = Absent /\ rows' = [rows EXCEPT ![r] = Unknown] /\ lapsed' = lapsed \cup {r}
        /\ UNCHANGED <<upstreamRev, mirrorHead, writer, refreshed>>
    BY <1>3 DEF AddRow
  <2>2. Unknown \in SummaryRec /\ Unknown.sha = 0 /\ Unknown.rev = 0 /\ Unknown # Absent
    BY DEF Unknown, SummaryRec, Absent
  <2>3. rows' \in [Rows -> SummaryRec] /\ rows'[r] = Unknown /\ \A q \in Rows : q # r => rows'[q] = rows[q]
    BY <2>1, <2>2, <1>t
  <2>4. DriftTypes'
    BY <2>1, <2>3, <1>t DEF DriftTypes
  <2>5. ASSUME NEW w \in Writers PROVE Reading(w)'
    <3>1. \A q \in Rows : rows[q] # Absent => rows'[q] # Absent
      BY <2>2, <2>3
    <3>2. writer[w].left \subseteq Rows /\ Reading(w)
      BY <1>w, <1>t
    <3> QED BY <3>1, <3>2, <2>1 DEF Reading
  <2>6. Syncing'
    BY <2>1, <1>t DEF Syncing
  <2>7. RowsDone' /\ DriftRowsHonest'
    BY <2>1, <2>2, <2>3, <1>t DEF RowsDone, DriftRowsHonest
  <2> QED BY <2>4, <2>5, <2>6, <2>7 DEF DriftInv
\* The mirror is moved to the newest revision, or lost, by nobody who refreshes.
<1>m. ASSUME writer["sync"].pc = "idle", mirrorHead' \in {0, upstreamRev},
             UNCHANGED <<upstreamRev, rows, writer, refreshed, lapsed>>
      PROVE  DriftInv'
  <2>1. DriftTypes'
    BY <1>m, <1>t DEF DriftTypes
  <2>2. ASSUME NEW w \in Writers PROVE Reading(w)'
    BY <1>m, <1>w, <1>t DEF Reading
  <2> QED BY <1>m, <2>1, <2>2, <1>t DEF DriftInv, Syncing, RowsDone, DriftRowsHonest
<1>4. CASE Bootstrap
  BY <1>4, <1>m DEF Bootstrap
\* A step that changes the record of one writer, and nothing it reads.
<1>z. ASSUME NEW w \in Writers, NEW z \in WriterRec, writer' = [writer EXCEPT ![w] = z]
      PROVE  /\ writer' \in [Writers -> WriterRec] /\ writer'[w] = z
             /\ \A v \in Writers : v # w => writer'[v] = writer[v]
  BY <1>z, <1>t
<1>o. ASSUME NEW w \in Writers, NEW v \in Writers, v # w, writer'[v] = writer[v],
             upstreamRev' = upstreamRev, mirrorHead' \in {mirrorHead, upstreamRev},
             \A r \in Rows : rows[r] # Absent => rows'[r] # Absent
      PROVE  Reading(v)'
  <2>1. Reading(v) /\ writer[v].left \subseteq Rows
    BY <1>t, <1>w
  <2> QED BY <1>o, <2>1 DEF Reading
<1>5. CASE SyncMirror
  <2>1. /\ writer["sync"].pc = "idle" /\ mirrorHead > 0
        /\ UNCHANGED <<upstreamRev, rows, refreshed, lapsed>>
    BY <1>5 DEF SyncMirror
  <2>2. CASE UNCHANGED <<mirrorHead, writer>>
    BY <2>1, <2>2, <1>t DEF DriftInv, DriftTypes, Reading, Syncing, RowsDone, DriftRowsHonest
  <2>3. CASE mirrorHead' = upstreamRev /\ UNCHANGED writer
    BY <2>1, <2>3, <1>m
  <2>4. CASE /\ mirrorHead' = upstreamRev
             /\ writer' = [writer EXCEPT !["sync"] = [IdleWriter EXCEPT !.pc = "snapshot", !.to = upstreamRev]]
    <3> PICK z : z = [IdleWriter EXCEPT !.pc = "snapshot", !.to = upstreamRev]
      OBVIOUS
    <3>1. /\ z.pc = "snapshot" /\ z.to = upstreamRev /\ z.sha = 0 /\ z.left = {}
          /\ \A m \in Modules : z.seen[m] = NotSeen
      BY IdleWriterType DEF IdleWriter
    <3>2. z \in WriterRec
      BY IdleWriterType, <1>t DEF WriterRec
    <3>3. writer' = [writer EXCEPT !["sync"] = z]
      BY <2>4
    <3>4. /\ writer' \in [Writers -> WriterRec] /\ writer'["sync"] = z
          /\ \A v \in Writers : v # "sync" => writer'[v] = writer[v]
      BY <1>z, <3>2, <3>3, <1>s
    <3>5. DriftTypes'
      BY <3>4, <2>1, <2>4, <1>t DEF DriftTypes
    <3>6. Reading("sync")'
      BY <3>1, <3>4, <2>1, <2>4, <1>t DEF Reading
    <3>7. ASSUME NEW v \in Writers PROVE Reading(v)'
      BY <3>4, <3>6, <2>1, <2>4, <1>o, <1>s
    <3>8. Syncing' /\ RowsDone'
      BY <3>1, <3>4, <2>1, <2>4, <1>t DEF Syncing, RowsDone
    <3> QED BY <3>5, <3>7, <3>8, <2>1, <1>t DEF DriftInv, DriftRowsHonest
  <2> QED BY <2>1, <2>2, <2>3, <2>4, <1>5 DEF SyncMirror
<1>6. ASSUME NEW w \in Writers, StartWriter(w) PROVE DriftInv'
  <2>1. /\ w # "sync" /\ writer[w].pc = "idle" /\ writer' = [writer EXCEPT ![w].pc = "snapshot"]
        /\ UNCHANGED <<upstreamRev, mirrorHead, rows, refreshed, lapsed>>
    BY <1>6 DEF StartWriter
  <2> PICK z : z = [writer[w] EXCEPT !.pc = "snapshot"]
    OBVIOUS
  <2>2. z \in WriterRec /\ z.pc = "snapshot" /\ z.sha = writer[w].sha /\ z.left = writer[w].left /\ z.seen = writer[w].seen
    BY <1>t DEF WriterRec
  <2>3. writer' = [writer EXCEPT ![w] = z]
    BY <2>1
  <2>4. /\ writer' \in [Writers -> WriterRec] /\ writer'[w] = z
        /\ \A v \in Writers : v # w => writer'[v] = writer[v]
    BY <1>z, <2>2, <2>3
  <2>5. Reading(w)'
    BY <2>1, <2>2, <2>4, <1>t DEF Reading
  <2>6. ASSUME NEW v \in Writers PROVE Reading(v)'
    BY <2>1, <2>4, <2>5, <1>o
  <2>7. DriftTypes'
    BY <2>1, <2>4, <1>t DEF DriftTypes
  <2>8. writer'["sync"] = writer["sync"]
    BY <2>1, <2>4, <1>s
  <2> QED BY <2>1, <2>6, <2>7, <2>8, <1>t DEF DriftInv, Syncing, RowsDone, DriftRowsHonest
<1>7. ASSUME NEW w \in Writers, Snapshot(w) PROVE DriftInv'
  <2>1. /\ writer[w].pc = "snapshot"
        /\ writer' = [writer EXCEPT ![w].pc = "next", ![w].sha = mirrorHead, ![w].left = RowsOf(w)]
        /\ UNCHANGED <<upstreamRev, mirrorHead, rows, refreshed, lapsed>>
    BY <1>7 DEF Snapshot
  <2> PICK z : z = [writer[w] EXCEPT !.pc = "next", !.sha = mirrorHead, !.left = RowsOf(w)]
    OBVIOUS
  <2>a. RowsOf(w) \in SUBSET Rows /\ \A r \in RowsOf(w) : rows[r] # Absent
    BY DEF RowsOf
  <2>2. /\ z.pc = "next" /\ z.sha = mirrorHead /\ z.left = RowsOf(w) /\ z.seen = writer[w].seen
        /\ z.to = writer[w].to
    BY <1>t DEF WriterRec
  <2>b. z \in WriterRec
    BY <1>t, <2>a DEF WriterRec
  <2>3. writer' = [writer EXCEPT ![w] = z]
    BY <2>1, <1>t DEF WriterRec
  <2>4. /\ writer' \in [Writers -> WriterRec] /\ writer'[w] = z
        /\ \A v \in Writers : v # w => writer'[v] = writer[v]
    BY <1>z, <2>b, <2>3
  <2>5. Reading(w)'
    <3>1. \A m \in Modules : z.seen[m] = NotSeen
      BY <2>1, <2>2, <1>t DEF Reading
    <3> QED BY <3>1, <2>1, <2>2, <2>4, <2>a, <1>t DEF Reading
  <2>6. ASSUME NEW v \in Writers PROVE Reading(v)'
    BY <2>1, <2>4, <2>5, <1>o
  <2>7. DriftTypes'
    BY <2>1, <2>4, <1>t DEF DriftTypes
  <2>8. CASE w # "sync"
    <3>1. writer'["sync"] = writer["sync"]
      BY <2>8, <2>4, <1>s
    <3> QED BY <3>1, <2>1, <2>6, <2>7, <1>t DEF DriftInv, Syncing, RowsDone, DriftRowsHonest
  <2>9. CASE w = "sync"
    <3>1. Syncing'
      BY <2>9, <2>1, <2>2, <2>4, <1>t DEF Syncing
    <3>2. \A r \in Rows : rows[r] = Absent \/ r \in RowsOf(w)
      BY <2>9 DEF RowsOf
    <3>3. RowsDone'
      BY <3>2, <2>9, <2>1, <2>2, <2>4 DEF RowsDone
    <3> QED BY <3>1, <3>3, <2>1, <2>6, <2>7, <1>t DEF DriftInv, DriftRowsHonest
  <2> QED BY <2>8, <2>9
<1>8. ASSUME NEW w \in Writers, NextRow(w) PROVE DriftInv'
  <2> PICK r \in writer[w].left : \E got \in Look(w, ModuleOf[r]) :
        /\ writer' = [writer EXCEPT ![w] = InHand(w, r, got)]
        /\ IF got = Failed THEN PassOver(w, r) ELSE UNCHANGED lapsed
    BY <1>8 DEF NextRow
  <2> PICK got \in Look(w, ModuleOf[r]) :
        /\ writer' = [writer EXCEPT ![w] = InHand(w, r, got)]
        /\ IF got = Failed THEN PassOver(w, r) ELSE UNCHANGED lapsed
    OBVIOUS
  <2>1. writer[w].pc = "next" /\ UNCHANGED <<upstreamRev, mirrorHead, rows, refreshed>>
    BY <1>8 DEF NextRow
  <2>2. r \in Rows /\ rows[r] # Absent /\ ModuleOf[r] \in Modules /\ Reading(w)
    BY <1>w, <1>t DEF Reading, Modules
  <2>3. got \in Int /\ got # NotSeen /\ (got = Failed \/ writer[w].sha <= got)
    BY <2>2, <1>t, <1>w DEF Look, Reading
  <2> PICK sn : sn = [writer[w].seen EXCEPT ![ModuleOf[r]] = got]
    OBVIOUS
  <2>4. /\ sn \in [Modules -> Int] /\ sn[ModuleOf[r]] = got
        /\ \A m \in Modules : m # ModuleOf[r] => sn[m] = writer[w].seen[m]
    BY <2>2, <2>3, <1>w
  <2> PICK c : c = IF got = Failed THEN "next" ELSE "write"
    OBVIOUS
  <2>c. (c = "next" /\ got = Failed) \/ (c = "write" /\ got # Failed)
    BY <2>3
  <2> PICK z : z = [writer[w] EXCEPT !.left = @ \ {r}, !.row = r, !.seen = sn, !.pc = c]
    OBVIOUS
  <2>5. /\ z.pc = c /\ z.sha = writer[w].sha /\ z.left = writer[w].left \ {r} /\ z.seen = sn
        /\ z.to = writer[w].to /\ z.row = r /\ z.ok = writer[w].ok
    BY <1>t DEF WriterRec
  <2>6. z \in WriterRec
    <3>0. c \in {"next", "write"}
      OBVIOUS
    <3> DEFINE SR == SUBSET Rows
    <3>1. writer[w].left \ {r} \in SR
      BY <1>w
    <3>2. WriterRec = [pc : {"idle", "snapshot", "next", "write"}, sha : Nat, to : Nat, left : SR,
                       row : Rows \cup {"none"}, seen : [Modules -> Int], ok : BOOLEAN]
      BY DEF WriterRec
    <3> HIDE DEF SR
    <3>3. writer[w] \in WriterRec
      BY <1>t
    <3> PICK x : x = writer[w].left \ {r}
      OBVIOUS
    <3>4. z = [writer[w] EXCEPT !.left = x, !.row = r, !.seen = sn, !.pc = c] /\ x \in SR
      BY <3>1
    <3> QED BY <3>0, <3>2, <3>3, <3>4, <2>4, <2>2
  <2>7. writer' = [writer EXCEPT ![w] = z]
    <3>1. z = InHand(w, r, got)
      BY Zenon DEF InHand
    <3> QED BY <3>1
  <2>8. /\ writer' \in [Writers -> WriterRec] /\ writer'[w] = z
        /\ \A v \in Writers : v # w => writer'[v] = writer[v]
    BY <1>z, <2>6, <2>7
  <2>9. \A m \in Modules : sn[m] \in {NotSeen, Failed} \/ writer[w].sha <= sn[m]
    BY <2>2, <2>3, <2>4 DEF Reading
  <2>10. Reading(w)'
    <3>1. /\ z.sha <= upstreamRev /\ (mirrorHead > 0 => z.sha <= mirrorHead)
          /\ \A q \in z.left : rows[q] # Absent
      BY <2>2, <2>5 DEF Reading
    <3>2. z.pc \in {"next", "write"} /\ (z.pc = "write" => got # Failed)
      BY <2>5, <2>c
    <3>3. \A m \in Modules : z.seen[m] \in {NotSeen, Failed} \/ z.sha <= z.seen[m]
      BY <2>5, <2>9
    <3>4. z.pc = "write" => z.row \in Rows /\ rows[z.row] # Absent /\ z.seen[ModuleOf[z.row]] \notin {NotSeen, Failed}
      BY <3>2, <2>2, <2>3, <2>4, <2>5
    <3>5. /\ z.sha <= upstreamRev' /\ (mirrorHead' > 0 => z.sha <= mirrorHead') /\ rows' = rows
          /\ \A q \in z.left : rows'[q] # Absent
      BY <3>1, <2>1
    <3>6. z.pc \notin {"idle", "snapshot"}
      BY <3>2
    <3> HIDE DEF NotSeen, Failed
    <3> QED BY <3>3, <3>4, <3>5, <3>6, <2>8 DEF Reading
  <2>11. ASSUME NEW v \in Writers PROVE Reading(v)'
    BY <2>1, <2>8, <2>10, <1>o
  <2>12. DriftTypes'
    BY <2>1, <2>8, <1>t DEF DriftTypes
  <2>13. \/ got = Failed /\ w = "sync" /\ lapsed' = lapsed \cup {r}
         \/ (got # Failed \/ w # "sync") /\ lapsed' = lapsed
    BY DEF PassOver
  <2>14. DriftRowsHonest'
    BY <2>1, <2>13, <1>t DEF DriftRowsHonest
  <2>15. CASE w # "sync"
    <3>1. writer'["sync"] = writer["sync"] /\ lapsed' = lapsed
      BY <2>15, <2>8, <1>s, <2>13
    <3> QED BY <3>1, <2>1, <2>11, <2>12, <2>14, <1>t DEF DriftInv, Syncing, RowsDone
  <2>16. CASE w = "sync"
    <3>1. got \in {Failed, writer[w].to}
      BY <2>16, <2>1, <2>2, <2>3, <1>t DEF Look, Syncing
    <3>2. Syncing'
      <4>1. /\ mirrorHead = writer[w].to /\ writer[w].to > 0 /\ refreshed <= writer[w].to
            /\ \A m \in Modules : writer[w].seen[m] \in {NotSeen, Failed, writer[w].to}
        BY <2>1, <2>16, <1>t DEF Syncing
      <4>2. \A m \in Modules : sn[m] \in {NotSeen, Failed, writer[w].to}
        BY <4>1, <3>1, <2>4
      <4>3. /\ mirrorHead' = z.to /\ z.to > 0 /\ refreshed' <= z.to
            /\ \A m \in Modules : z.seen[m] \in {NotSeen, Failed, z.to}
        BY <4>1, <4>2, <2>1, <2>5
      <4> HIDE DEF NotSeen, Failed
      <4> QED BY <4>3, <2>8, <2>16 DEF Syncing
    <3>3. ASSUME z.ok, NEW q \in Rows \ lapsed'
          PROVE  rows[q] = Absent \/ q \in z.left \/ (z.pc = "write" /\ q = z.row) \/ rows[q].rev >= z.to
      <4>1. rows[q] = Absent \/ q \in writer[w].left \/ rows[q].rev >= writer[w].to
        BY <3>3, <2>16, <2>1, <2>5, <2>13, <1>t DEF RowsDone
      <4> QED BY <4>1, <3>3, <2>16, <2>5, <2>13
    <3>4. RowsDone'
      <4>1. writer'["sync"] = z /\ rows' = rows
        BY <2>8, <2>16, <2>1
      <4> QED BY <4>1, <3>3 DEF RowsDone
    <3> QED BY <3>2, <3>4, <2>11, <2>12, <2>14 DEF DriftInv
  <2> QED BY <2>15, <2>16
<1>9. ASSUME NEW w \in Writers, WriteRow(w) PROVE DriftInv'
  <2> DEFINE r == writer[w].row
             rev == writer[w].seen[ModuleOf[r]]
             new == [sha |-> writer[w].sha, rev |-> rev]
  <2>1. /\ writer[w].pc = "write" /\ writer' = [writer EXCEPT ![w].pc = "next"]
        /\ UNCHANGED <<upstreamRev, mirrorHead, refreshed>>
    BY <1>9 DEF WriteRow
  <2>2. \/ /\ rows' = [rows EXCEPT ![r] = new]
           /\ lapsed' = IF rev < rows[r].rev THEN lapsed \cup {r}
                        ELSE IF w = "sync" THEN lapsed \ {r} ELSE lapsed
        \/ PassOver(w, r) /\ UNCHANGED rows
    BY <1>9 DEF WriteRow
  <2>3. Reading(w)
    BY <1>t
  <2>4. r \in Rows /\ rows[r] # Absent /\ ModuleOf[r] \in Modules
    BY <2>1, <2>3 DEF Reading, Modules
  <2>5. rev \in Int /\ writer[w].sha \in Nat /\ writer[w].sha <= rev /\ rev >= 0
    BY <2>1, <2>3, <2>4, <1>w DEF Reading
  <2>6. new \in SummaryRec /\ new # Absent /\ new.sha = writer[w].sha /\ new.rev = rev
    BY <2>5 DEF SummaryRec, Absent
  <2> HIDE DEF new
  <2>7. /\ rows' \in [Rows -> SummaryRec] /\ (rows'[r] = new \/ rows'[r] = rows[r])
        /\ \A q \in Rows : q # r => rows'[q] = rows[q]
    BY <2>2, <2>4, <2>6, <1>t
  <2> PICK z : z = [writer[w] EXCEPT !.pc = "next"]
    OBVIOUS
  <2>8. /\ z \in WriterRec /\ z.pc = "next" /\ z.sha = writer[w].sha /\ z.left = writer[w].left
        /\ z.seen = writer[w].seen /\ z.to = writer[w].to /\ z.ok = writer[w].ok
    BY <1>t DEF WriterRec
  <2>9. writer' = [writer EXCEPT ![w] = z]
    BY <2>1
  <2>10. /\ writer' \in [Writers -> WriterRec] /\ writer'[w] = z
         /\ \A v \in Writers : v # w => writer'[v] = writer[v]
    BY <1>z, <2>8, <2>9
  <2>11. \A q \in Rows : rows[q] # Absent => rows'[q] # Absent
    BY <2>4, <2>6, <2>7
  <2>12. Reading(w)'
    <3>1. \A q \in z.left : rows'[q] # Absent
      BY <2>3, <2>8, <2>11, <1>w DEF Reading
    <3> QED BY <3>1, <2>1, <2>3, <2>8, <2>10 DEF Reading
  <2>13. ASSUME NEW v \in Writers PROVE Reading(v)'
    BY <2>1, <2>10, <2>11, <2>12, <1>o
  <2>14. DriftTypes'
    BY <2>1, <2>7, <2>10, <1>t DEF DriftTypes
  <2>15. Syncing'
    BY <2>1, <2>8, <2>10, <1>t, <1>s DEF Syncing
  <2>16. w = "sync" => rev = writer[w].to /\ refreshed <= rev
    <3>1. SUFFICES ASSUME w = "sync" PROVE rev = writer[w].to /\ refreshed <= rev
      OBVIOUS
    <3>2. rev \notin {NotSeen, Failed}
      BY <2>1, <2>3 DEF Reading
    <3> QED BY <3>1, <3>2, <2>1, <2>4, <1>t DEF Syncing
  \* A row that is not lapsed afterwards is as new as before, or was just synced.
  <2>17. ASSUME NEW q \in Rows \ lapsed'
         PROVE  \/ q \notin lapsed /\ rows'[q].rev >= rows[q].rev /\ (w = "sync" /\ q = r => rows'[q].rev = rev)
                \/ w = "sync" /\ q = r /\ rows'[q].rev = rev
    <3>1. rows[q].rev \in Int
      BY <1>r
    <3>2. CASE UNCHANGED rows /\ PassOver(w, r)
      BY <3>1, <3>2 DEF PassOver
    <3>3. CASE /\ rows' = [rows EXCEPT ![r] = new]
               /\ lapsed' = IF rev < rows[r].rev THEN lapsed \cup {r}
                            ELSE IF w = "sync" THEN lapsed \ {r} ELSE lapsed
      <4>1. rows'[r] = new
        BY <3>3, <2>4, <1>t
      <4>2. CASE q # r
        BY <4>2, <3>1, <3>3, <2>7
      <4>3. CASE q = r
        BY <4>1, <4>3, <3>1, <3>3, <2>5, <2>6
      <4> QED BY <4>2, <4>3
    <3> QED BY <2>2, <3>2, <3>3
  <2>18. DriftRowsHonest'
    <3> SUFFICES ASSUME NEW q \in Rows
                 PROVE  /\ rows'[q].sha <= rows'[q].rev
                        /\ q \notin lapsed' => rows'[q] = Absent \/ rows'[q].rev >= refreshed
      BY <2>1 DEF DriftRowsHonest
    <3>1. rows'[q].sha <= rows'[q].rev
      BY <2>5, <2>6, <2>7, <1>t DEF DriftRowsHonest
    <3>2. ASSUME q \notin lapsed', rows'[q] # Absent PROVE rows'[q].rev >= refreshed
      <4>1. rows'[q].rev \in Int /\ rows[q].rev \in Int
        BY <2>7, <1>r DEF SummaryRec
      <4>2. CASE w = "sync" /\ q = r /\ rows'[q].rev = rev
        BY <4>2, <2>16, <2>5, <1>t
      <4>3. CASE q \notin lapsed /\ rows'[q].rev >= rows[q].rev
        <5>1. rows[q] # Absent
          BY <3>2, <2>4, <2>7
        <5>2. rows[q].rev >= refreshed
          BY <5>1, <4>3, <1>t DEF DriftRowsHonest
        <5> QED BY <5>2, <4>1, <4>3, <1>t
      <4> QED BY <2>17, <3>2, <4>2, <4>3
    <3> QED BY <3>1, <3>2
  <2>19. RowsDone'
    <3>1. writer'["sync"].left = writer["sync"].left /\ writer'["sync"].to = writer["sync"].to
          /\ writer'["sync"].ok = writer["sync"].ok /\ writer["sync"].to \in Nat
          /\ writer["sync"].row = IF w = "sync" THEN r ELSE writer["sync"].row
      BY <2>8, <2>10, <1>s, <1>w
    <3>2. /\ w # "sync" => writer'["sync"] = writer["sync"]
          /\ w = "sync" => writer["sync"].pc = "write"
      BY <2>1, <2>10, <1>s
    <3> SUFFICES ASSUME writer'["sync"].pc \in {"next", "write"}, writer'["sync"].ok, NEW q \in Rows \ lapsed'
                 PROVE  \/ rows'[q] = Absent \/ q \in writer'["sync"].left
                        \/ writer'["sync"].pc = "write" /\ q = writer'["sync"].row
                        \/ rows'[q].rev >= writer'["sync"].to
      BY DEF RowsDone
    <3>3. rows'[q].rev \in Int /\ rows[q].rev \in Int
      BY <2>7, <1>r DEF SummaryRec
    <3>4. CASE w = "sync" /\ q = r /\ rows'[q].rev = rev
      BY <3>1, <3>4, <2>16, <2>5
    <3>5. CASE q \notin lapsed /\ rows'[q].rev >= rows[q].rev /\ ~(w = "sync" /\ q = r)
      <4>1. \/ rows[q] = Absent \/ q \in writer["sync"].left
            \/ writer["sync"].pc = "write" /\ q = writer["sync"].row
            \/ rows[q].rev >= writer["sync"].to
        BY <3>1, <3>2, <3>5, <1>t DEF RowsDone
      <4>2. rows[q] = Absent => rows'[q] = Absent
        BY <2>4, <2>7
      <4>3. writer["sync"].pc = "write" /\ q = writer["sync"].row => writer'["sync"] = writer["sync"]
        BY <3>1, <3>2, <3>5
      <4>4. rows[q].rev >= writer["sync"].to => rows'[q].rev >= writer["sync"].to
        BY <3>1, <3>3, <3>5
      <4> QED BY <4>1, <4>2, <4>3, <4>4, <3>1
    <3> QED BY <2>17, <3>4, <3>5
  <2> QED BY <2>13, <2>14, <2>15, <2>18, <2>19 DEF DriftInv
<1>10. ASSUME NEW w \in Writers, ListBreaks(w) PROVE DriftInv'
  <2>1. /\ writer[w].pc = "next" /\ writer' = [writer EXCEPT ![w].left = {}, ![w].ok = FALSE]
        /\ UNCHANGED <<upstreamRev, mirrorHead, rows, refreshed, lapsed>>
    BY <1>10 DEF ListBreaks
  <2> PICK z : z = [writer[w] EXCEPT !.left = {}, !.ok = FALSE]
    OBVIOUS
  <2>2. /\ z.pc = "next" /\ z.sha = writer[w].sha /\ z.left = {} /\ z.ok = FALSE
        /\ z.seen = writer[w].seen /\ z.to = writer[w].to
    BY <2>1, <1>t DEF WriterRec
  <2>3. z \in WriterRec
    BY <1>t DEF WriterRec
  <2>4. writer' = [writer EXCEPT ![w] = z]
    BY <2>1, <1>t DEF WriterRec
  <2>5. /\ writer' \in [Writers -> WriterRec] /\ writer'[w] = z
        /\ \A v \in Writers : v # w => writer'[v] = writer[v]
    BY <1>z, <2>3, <2>4
  <2>6. Reading(w)'
    BY <2>1, <2>2, <2>5, <1>t DEF Reading
  <2>7. ASSUME NEW v \in Writers PROVE Reading(v)'
    BY <2>1, <2>5, <2>6, <1>o
  <2>8. DriftTypes'
    BY <2>1, <2>5, <1>t DEF DriftTypes
  <2>9. Syncing' /\ RowsDone'
    BY <2>1, <2>2, <2>5, <1>t, <1>s DEF Syncing, RowsDone
  <2> QED BY <2>1, <2>7, <2>8, <2>9, <1>t DEF DriftInv, DriftRowsHonest
<1>11. ASSUME NEW w \in Writers, FinishWriter(w) PROVE DriftInv'
  <2>1. /\ writer[w].pc = "next" /\ writer[w].left = {} /\ writer' = [writer EXCEPT ![w] = IdleWriter]
        /\ refreshed' = IF w = "sync" /\ writer[w].ok THEN writer[w].to ELSE refreshed
        /\ UNCHANGED <<upstreamRev, mirrorHead, rows, lapsed>>
    BY <1>11 DEF FinishWriter
  <2>2. /\ writer' \in [Writers -> WriterRec] /\ writer'[w] = IdleWriter
        /\ \A v \in Writers : v # w => writer'[v] = writer[v]
    BY <1>z, <2>1, IdleWriterType
  <2>3. Reading(w)'
    BY <2>1, <2>2, <1>t, IdleWriterType DEF Reading
  <2>4. ASSUME NEW v \in Writers PROVE Reading(v)'
    BY <2>1, <2>2, <2>3, <1>o
  <2>5. CASE w # "sync"
    <3>1. refreshed' = refreshed /\ writer'["sync"] = writer["sync"]
      BY <2>5, <2>1, <2>2, <1>s
    <3>2. DriftTypes'
      BY <3>1, <2>1, <2>2, <1>t DEF DriftTypes
    <3> QED BY <3>1, <3>2, <2>1, <2>4, <1>t DEF DriftInv, Syncing, RowsDone, DriftRowsHonest
  <2>6. CASE w = "sync"
    <3>1. refreshed' \in {refreshed, mirrorHead}
      BY <2>6, <2>1, <1>t DEF Syncing
    <3>2. DriftTypes'
      BY <3>1, <2>1, <2>2, <1>t DEF DriftTypes
    <3>3. Syncing' /\ RowsDone'
      BY <2>2, <2>6, IdleWriterType DEF Syncing, RowsDone
    <3>4. DriftRowsHonest'
      BY <2>1, <2>6, <1>t DEF DriftRowsHonest, RowsDone
    <3> QED BY <3>2, <3>3, <3>4, <2>4 DEF DriftInv
  <2> QED BY <2>5, <2>6
<1> QED BY <1>1, <1>2, <1>3, <1>4, <1>5, <1>6, <1>7, <1>8, <1>9, <1>10, <1>11 DEF DriftNext

(* Whatever refreshes, backfills, syncs and ingests interleave, the label  *)
(* of a drift verdict never claims a newer upstream than the one its       *)
(* metadata was read from, and after a sync run has reported its refresh   *)
(* every row is at its revision but those passed over, ingested meanwhile, *)
(* or overwritten by a slower writer (BackfillDriftSummary, SyncRun).      *)
THEOREM DriftLabelsHonest == DriftSpec => []DriftRowsHonest
<1>1. DriftInv => DriftRowsHonest
  BY DEF DriftInv
<1> QED BY <1>1, DriftInitInv, DriftStepInv, PTL DEF DriftSpec

(***************************************************************************)
(* Repository facts (GitHubMeta)                                           *)
(***************************************************************************)
MetaRowRec == [meta : Nat, status : Nat]
RefreshRec == [pc : {"idle", "fetch", "upsert"}, prior : MetaRowRec, meta : Nat, status : Nat]

MetaTypes ==
    /\ facts \in Nat \ {0}
    /\ metaRow \in MetaRowRec /\ refresher \in [Refreshers -> RefreshRec]

\* An answer in hand carries facts, or comes with a status that hides them; a
\* 304 is about the facts of the row that was read.
AnswerHasFacts(r) ==
    refresher[r].pc = "upsert" =>
        /\ refresher[r].status = 200 => refresher[r].meta # 0
        /\ refresher[r].status = 304 => /\ refresher[r].meta = refresher[r].prior.meta
                                        /\ refresher[r].meta # 0

MetaInv == MetaTypes /\ (\A r \in Refreshers : AnswerHasFacts(r)) /\ ShownMetaHasFacts

(* The initial state, before any refresh, satisfies the invariant.         *)
LEMMA MetaInitInv == MetaInit => MetaInv
<1> SUFFICES ASSUME MetaInit PROVE MetaInv
  OBVIOUS
<1>1. NoRow \in MetaRowRec /\ NoRow.status = 0
  BY DEF NoRow, MetaRowRec
<1>2. NoRefresh \in RefreshRec /\ NoRefresh.pc = "idle"
  BY <1>1 DEF NoRefresh, RefreshRec
<1>3. /\ facts = 1 /\ metaRow = NoRow /\ refresher = [r \in Refreshers |-> NoRefresh]
  BY DEF MetaInit
<1> QED
  BY <1>1, <1>2, <1>3 DEF MetaInv, MetaTypes, AnswerHasFacts, ShownMetaHasFacts, GetGitHubMeta

(* No edit at GitHub and no step of a refresh breaks the invariant.        *)
LEMMA MetaStepInv == MetaInv /\ [MetaNext]_metaVars => MetaInv'
<1> SUFFICES ASSUME MetaInv, [MetaNext]_metaVars PROVE MetaInv'
  OBVIOUS
<1>t. /\ facts \in Nat \ {0} /\ metaRow \in MetaRowRec /\ refresher \in [Refreshers -> RefreshRec]
      /\ (\A r \in Refreshers : AnswerHasFacts(r)) /\ ShownMetaHasFacts
  BY DEF MetaInv, MetaTypes
<1>n. NoRow \in MetaRowRec /\ NoRow.status = 0 /\ NoRow.meta = 0
  BY DEF NoRow, MetaRowRec
<1>i. NoRefresh \in RefreshRec /\ NoRefresh.pc = "idle"
  BY <1>n DEF NoRefresh, RefreshRec
<1>1. CASE UNCHANGED metaVars
  BY <1>1, <1>t DEF metaVars, MetaInv, MetaTypes, AnswerHasFacts, ShownMetaHasFacts, GetGitHubMeta
<1>2. CASE RepoChanges
  <2>1. facts' \in Nat \ {0} /\ UNCHANGED <<metaRow, refresher, crossed>>
    BY <1>2, <1>t DEF RepoChanges
  <2> QED BY <2>1, <1>t DEF MetaInv, MetaTypes, AnswerHasFacts, ShownMetaHasFacts, GetGitHubMeta
\* A step of one refresh that leaves the row alone.
<1>z. ASSUME NEW r \in Refreshers, NEW z \in RefreshRec, refresher' = [refresher EXCEPT ![r] = z],
             z.pc = "upsert" => /\ z.status = 200 => z.meta # 0
                                /\ z.status = 304 => z.meta = z.prior.meta /\ z.meta # 0,
             UNCHANGED <<facts, metaRow, crossed>>
      PROVE  MetaInv'
  <2>1. /\ refresher' \in [Refreshers -> RefreshRec] /\ refresher'[r] = z
        /\ \A q \in Refreshers : q # r => refresher'[q] = refresher[q]
    BY <1>z, <1>t
  <2>2. ASSUME NEW q \in Refreshers PROVE AnswerHasFacts(q)'
    BY <2>1, <1>z, <1>t DEF AnswerHasFacts
  <2> QED BY <1>z, <1>t, <2>1, <2>2 DEF MetaInv, MetaTypes, ShownMetaHasFacts, GetGitHubMeta
<1>3. ASSUME NEW r \in Refreshers, ReadPrior(r) PROVE MetaInv'
  <2> PICK read \in BOOLEAN :
        refresher' = [refresher EXCEPT ![r] = [NoRefresh EXCEPT !.pc = "fetch",
                                                 !.prior = IF read THEN metaRow ELSE NoRow]]
    BY <1>3 DEF ReadPrior
  <2> PICK p : p = IF read THEN metaRow ELSE NoRow
    OBVIOUS
  <2>1. p \in MetaRowRec
    BY <1>t, <1>n
  <2> PICK z : z = [NoRefresh EXCEPT !.pc = "fetch", !.prior = p]
    OBVIOUS
  <2>2. z \in RefreshRec /\ z.pc = "fetch"
    BY <2>1, <1>i DEF RefreshRec
  <2>3. refresher' = [refresher EXCEPT ![r] = z]
    BY Zenon
  <2> QED BY <2>2, <2>3, <1>3, <1>z DEF ReadPrior
<1>4. ASSUME NEW r \in Refreshers, FetchMeta(r) PROVE MetaInv'
  <2>0. UNCHANGED <<facts, metaRow, crossed>>
    BY <1>4 DEF FetchMeta
  <2>1. CASE refresher' = [refresher EXCEPT ![r] = NoRefresh]
    BY <2>0, <2>1, <1>i, <1>z
  <2>2. ASSUME NEW a \in Answers(refresher[r].prior),
               refresher' = [refresher EXCEPT ![r].pc = "upsert", ![r].meta = a.meta, ![r].status = a.status]
        PROVE  MetaInv'
    <3>1. refresher[r] \in RefreshRec /\ refresher[r].prior \in MetaRowRec /\ refresher[r].prior.meta \in Nat
      BY <1>t DEF RefreshRec, MetaRowRec
    <3>2. /\ a.meta \in Nat /\ a.status \in Nat
          /\ a.status = 200 => a.meta # 0
          /\ a.status = 304 => a.meta = refresher[r].prior.meta /\ a.meta # 0
      BY <3>1, <1>t DEF Answers
    <3> PICK z : z = [refresher[r] EXCEPT !.pc = "upsert", !.meta = a.meta, !.status = a.status]
      OBVIOUS
    <3>3. /\ z.pc = "upsert" /\ z.meta = a.meta /\ z.status = a.status
          /\ z.prior = refresher[r].prior
      BY <3>1 DEF RefreshRec
    <3>4. z \in RefreshRec
      BY <3>1, <3>2 DEF RefreshRec
    <3>5. refresher' = [refresher EXCEPT ![r] = z]
      BY <2>2, <1>t
    <3> QED BY <2>0, <3>2, <3>3, <3>4, <3>5, <1>z
  <2> QED BY <2>1, <2>2, <1>4 DEF FetchMeta
<1>5. ASSUME NEW r \in Refreshers, WriteMeta(r) PROVE MetaInv'
  <2>1. /\ refresher[r].pc = "upsert" /\ refresher' = [refresher EXCEPT ![r] = NoRefresh]
        /\ metaRow' = UpsertGitHubMeta(metaRow, refresher[r].meta, refresher[r].status)
        /\ crossed' = (metaRow # refresher[r].prior) /\ facts' = facts
    BY <1>5 DEF WriteMeta
  <2>2. /\ refresher' \in [Refreshers -> RefreshRec] /\ refresher'[r] = NoRefresh
        /\ \A q \in Refreshers : q # r => refresher'[q] = refresher[q]
    BY <2>1, <1>i, <1>t
  <2>3. ASSUME NEW q \in Refreshers PROVE AnswerHasFacts(q)'
    BY <2>2, <1>i, <1>t DEF AnswerHasFacts
  <2>4. /\ refresher[r].meta \in Nat /\ refresher[r].status \in Nat /\ metaRow.meta \in Nat
        /\ AnswerHasFacts(r)
    BY <1>t DEF RefreshRec, MetaRowRec
  <2>5. CASE refresher[r].status = 304 /\ metaRow # NoRow
    <3>1. metaRow' = [metaRow EXCEPT !.status = 304]
      BY <2>1, <2>5 DEF UpsertGitHubMeta
    <3>2. metaRow' \in MetaRowRec /\ metaRow'.meta = metaRow.meta
      BY <3>1, <1>t DEF MetaRowRec
    <3>3. metaRow.meta = 0 => metaRow # refresher[r].prior
      BY <2>1, <2>4, <2>5 DEF AnswerHasFacts
    <3>4. ShownMetaHasFacts'
      BY <3>2, <3>3, <2>1 DEF ShownMetaHasFacts, GetGitHubMeta
    <3> QED BY <3>2, <3>4, <2>1, <2>2, <2>3, <1>t DEF MetaInv, MetaTypes
  <2>6. CASE ~(refresher[r].status = 304 /\ metaRow # NoRow)
    <3>1. metaRow' = [meta |-> refresher[r].meta, status |-> refresher[r].status]
      BY <2>1, <2>6 DEF UpsertGitHubMeta
    <3>2. metaRow' \in MetaRowRec /\ metaRow'.meta = refresher[r].meta /\ metaRow'.status = refresher[r].status
      BY <3>1, <2>4 DEF MetaRowRec
    <3>3. ShownMetaHasFacts'
      BY <3>2, <2>1, <2>4 DEF ShownMetaHasFacts, GetGitHubMeta, AnswerHasFacts
    <3> QED BY <3>2, <3>3, <2>1, <2>2, <2>3, <1>t DEF MetaInv, MetaTypes
  <2> QED BY <2>5, <2>6
<1> QED BY <1>1, <1>2, <1>3, <1>4, <1>5 DEF MetaNext

(* However many background refreshes of a module overlap, an empty record  *)
(* is shown as GitHub's only after two of them crossed                     *)
(* (RefreshGitHubMeta, UpsertGitHubMeta).                                  *)
THEOREM MetaIsNeverBlank == MetaSpec => []ShownMetaHasFacts
<1>1. MetaInv => ShownMetaHasFacts
  BY DEF MetaInv
<1> QED BY <1>1, MetaInitInv, MetaStepInv, PTL DEF MetaSpec

(***************************************************************************)
(* The report on one module (DriftReport)                                  *)
(***************************************************************************)
(* A nonempty set of numbers has a least one.                              *)
LEMMA LeastOf ==
    ASSUME NEW T \in SUBSET Nat, T # {}
    PROVE  \E m \in T : \A k \in T : m <= k
<1>1. PICK m \in T : \A k \in T : ~ (<<k, m>> \in OpToRel(<, Nat))
    BY WFMin, NatLessThanWellFounded, Zenon
<1>2. \A k \in T : ~ (k < m)
    BY <1>1, Zenon DEF OpToRel
<1> QED
    BY <1>2

\* Sequences of segments of digits: the versions a number order is about.
NumberedSeqs == {v \in Seq(Segments) : Numbered(v)}

(* Within a numbered version every number is an integer.                   *)
LEMMA NumbersAreInts ==
    ASSUME NEW v \in NumberedSeqs, NEW i \in DOMAIN v
    PROVE  v[i] \in DOMAIN Number /\ Number[v[i]] \in Int /\ v[i] # "" /\ i \in Nat \ {0}
<1>1. v \in Seq(Segments) /\ v[i] \in DOMAIN Number
    BY DEF NumberedSeqs, Numbered
<1>2. \A n \in DOMAIN Number : Number[n] \in Int /\ n # ""
    BY ReportAssumption
<1>3. i \in 1..Len(v) /\ Len(v) \in Nat
    BY <1>1
<1>4. i \in Nat \ {0}
    BY <1>3
<1>5. Number[v[i]] \in Int /\ v[i] # ""
    BY <1>1, <1>2
<1> QED
    BY <1>1, <1>4, <1>5

(* Of numbers, segments compare as the numbers do, and after a missing one.*)
LEMMA SegmentsCompare ==
    ASSUME NEW a \in NumberedSeqs, NEW b \in NumberedSeqs, NEW i \in DOMAIN a \cup DOMAIN b
    PROVE  /\ i \in DOMAIN a \cap DOMAIN b =>
                 /\ cmp(Seg(a, i), Seg(b, i)) = 0 <=> Number[a[i]] = Number[b[i]]
                 /\ cmp(Seg(a, i), Seg(b, i)) > 0 <=> Number[a[i]] > Number[b[i]]
           /\ i \notin DOMAIN b => cmp(Seg(a, i), Seg(b, i)) = 1
           /\ i \notin DOMAIN a => cmp(Seg(a, i), Seg(b, i)) = -1
<1>1. CASE i \in DOMAIN a \cap DOMAIN b
    <2>1. /\ a[i] \in DOMAIN Number /\ Number[a[i]] \in Int
          /\ b[i] \in DOMAIN Number /\ Number[b[i]] \in Int
        BY <1>1, NumbersAreInts
    <2>2. Seg(a, i) = a[i] /\ Seg(b, i) = b[i]
        BY <1>1 DEF Seg
    <2> QED
        BY <1>1, <2>1, <2>2 DEF cmp
<1>2. CASE i \notin DOMAIN b
    <2>1. i \in DOMAIN a /\ a[i] # "" /\ a[i] \in Segments
        <3>1. i \in DOMAIN a
            BY <1>2
        <3>2. a[i] # "" /\ a[i] \in DOMAIN Number
            BY <3>1, NumbersAreInts
        <3> QED
            BY <3>1, <3>2, ReportAssumption
    <2>2. Seg(a, i) = a[i] /\ Seg(b, i) = ""
        BY <1>2, <2>1 DEF Seg
    <2>3. "" \notin DOMAIN Number /\ <<a[i], "">> \notin SegmentLess
        BY <2>1, ReportAssumption
    <2> QED
        BY <1>2, <2>1, <2>2, <2>3 DEF cmp, stringsCompare
<1>3. CASE i \notin DOMAIN a
    <2>1. i \in DOMAIN b /\ b[i] # "" /\ b[i] \in Segments
        <3>1. i \in DOMAIN b
            BY <1>3
        <3>2. b[i] # "" /\ b[i] \in DOMAIN Number
            BY <3>1, NumbersAreInts
        <3> QED
            BY <3>1, <3>2, ReportAssumption
    <2>2. Seg(b, i) = b[i] /\ Seg(a, i) = ""
        BY <1>3, <2>1 DEF Seg
    <2>3. "" \notin DOMAIN Number /\ <<"", b[i]>> \in SegmentLess
        BY <2>1, ReportAssumption
    <2> QED
        BY <1>3, <2>1, <2>2, <2>3 DEF cmp, stringsCompare
<1> QED
    BY <1>1, <1>2, <1>3

(* Where two numbered versions first differ; without such a place they     *)
(* have the same numbers.                                                  *)
DifferAt(a, b, i) ==
    /\ i \in DOMAIN a \cup DOMAIN b
    /\ i \in DOMAIN a \cap DOMAIN b => Number[a[i]] # Number[b[i]]
FirstDiffer(a, b, i) == DifferAt(a, b, i) /\ \A j \in 1..(i - 1) : ~DifferAt(a, b, j)
Alike(a, b) == DOMAIN a = DOMAIN b /\ \A i \in DOMAIN a : Number[a[i]] = Number[b[i]]

(* There is a first place, or none.                                        *)
LEMMA DifferOrAlike ==
    ASSUME NEW a \in NumberedSeqs, NEW b \in NumberedSeqs
    PROVE  Alike(a, b) \/ \E i \in Nat \ {0} : FirstDiffer(a, b, i)
<1> DEFINE T == {i \in DOMAIN a \cup DOMAIN b : DifferAt(a, b, i)}
<1>1. DOMAIN a = 1..Len(a) /\ DOMAIN b = 1..Len(b) /\ Len(a) \in Nat /\ Len(b) \in Nat
    BY DEF NumberedSeqs
<1>2. CASE T = {}
    <2>1. \A i \in DOMAIN a \cup DOMAIN b : ~DifferAt(a, b, i)
        BY <1>2
    <2>2. Alike(a, b)
        BY <2>1 DEF DifferAt, Alike
    <2> QED
        BY <2>2
<1>3. CASE T # {}
    <2>1. T \in SUBSET Nat
        BY <1>1
    <2>2. PICK m \in T : \A k \in T : m <= k
        BY <1>3, <2>1, LeastOf
    <2>3. m \in Nat \ {0} /\ DifferAt(a, b, m)
        BY <1>1
    <2>4. \A j \in 1..(m - 1) : ~DifferAt(a, b, j)
        BY <2>2, <2>3 DEF DifferAt
    <2> QED
        BY <2>3, <2>4 DEF FirstDiffer
<1> QED
    BY <1>2, <1>3

(* Before the first difference both versions have the same numbers; at it  *)
(* one of the two is newer.                                                *)
LEMMA NewerAtFirst ==
    ASSUME NEW a \in NumberedSeqs, NEW b \in NumberedSeqs, NEW i \in Nat \ {0}, FirstDiffer(a, b, i)
    PROVE  /\ Newer(a, b) <=> i \in DOMAIN a /\ (i \notin DOMAIN b \/ Number[a[i]] > Number[b[i]])
           /\ Newer(a, b) \/ Newer(b, a)
<1>1. DOMAIN a = 1..Len(a) /\ DOMAIN b = 1..Len(b) /\ Len(a) \in Nat /\ Len(b) \in Nat
    BY DEF NumberedSeqs
<1>2. \A j \in 1..(i - 1) : j \in DOMAIN a /\ j \in DOMAIN b /\ Number[a[j]] = Number[b[j]]
    BY <1>1 DEF FirstDiffer, DifferAt
<1>3. \A k \in DOMAIN a : Number[a[k]] \in Int
    BY NumbersAreInts
<1>4. \A k \in DOMAIN b : Number[b[k]] \in Int
    BY NumbersAreInts
<1>5. DifferAt(a, b, i)
    BY DEF FirstDiffer
<1>6. i \in DOMAIN a /\ (i \notin DOMAIN b \/ Number[a[i]] > Number[b[i]]) => Newer(a, b)
    BY <1>2 DEF Newer
<1>7. i \in DOMAIN b /\ (i \notin DOMAIN a \/ Number[b[i]] > Number[a[i]]) => Newer(b, a)
    BY <1>2 DEF Newer
<1>8. ASSUME Newer(a, b) PROVE i \in DOMAIN a /\ (i \notin DOMAIN b \/ Number[a[i]] > Number[b[i]])
    <2>1. PICK k \in DOMAIN a : /\ \A j \in 1..(k - 1) : j \in DOMAIN b /\ Number[a[j]] = Number[b[j]]
                                /\ k \notin DOMAIN b \/ Number[a[k]] > Number[b[k]]
        BY <1>8 DEF Newer
    <2>2. k \in Nat \ {0}
        BY <1>1
    <2>3. ~(k < i)
        BY <1>2, <1>3, <1>4, <2>1, <2>2
    <2>4. ~(i < k)
        <3>1. SUFFICES ASSUME i < k PROVE FALSE
            OBVIOUS
        <3>2. i \in 1..(k - 1) /\ i \in DOMAIN a
            BY <1>1, <2>2, <3>1
        <3> QED
            BY <1>5, <2>1, <3>2 DEF DifferAt
    <2>5. k = i
        BY <2>2, <2>3, <2>4
    <2> QED
        BY <2>1, <2>5
<1> QED
    BY <1>3, <1>4, <1>5, <1>6, <1>7, <1>8 DEF DifferAt

(* compareVersions finds the newer of two numbered versions.               *)
LEMMA ComparesNumbers ==
    ASSUME NEW a \in NumberedSeqs, NEW b \in NumberedSeqs
    PROVE  compareVersions(a, b) > 0 <=> Newer(a, b)
<1> DEFINE differ == {i \in DOMAIN a \cup DOMAIN b : cmp(Seg(a, i), Seg(b, i)) # 0}
<1>1. DOMAIN a = 1..Len(a) /\ DOMAIN b = 1..Len(b) /\ Len(a) \in Nat /\ Len(b) \in Nat
    BY DEF NumberedSeqs
<1>2. \A i : i \in differ <=> DifferAt(a, b, i)
    <2>1. ASSUME NEW i \in DOMAIN a \cup DOMAIN b
          PROVE  cmp(Seg(a, i), Seg(b, i)) # 0 <=> DifferAt(a, b, i)
        BY <2>1, SegmentsCompare DEF DifferAt
    <2> QED
        BY <2>1 DEF DifferAt
<1>3. CASE differ = {}
    <2>1. Alike(a, b)
        <3> HIDE DEF differ
        <3>1. ~ \E i : DifferAt(a, b, i)
            BY <1>2, <1>3
        <3> QED
            BY <3>1, DifferOrAlike DEF FirstDiffer
    <2>2. ~Newer(a, b)
        <3>1. \A k \in DOMAIN a : Number[a[k]] \in Int /\ Number[a[k]] = Number[b[k]] /\ k \in DOMAIN b
            BY <2>1, NumbersAreInts DEF Alike
        <3> QED
            BY <3>1 DEF Newer
    <2>3. compareVersions(a, b) = 0
        BY <1>3 DEF compareVersions
    <2> QED
        BY <2>2, <2>3
<1>4. CASE differ # {}
    <2> DEFINE m == CHOOSE i \in differ : \A j \in differ : i <= j
    <2>1. compareVersions(a, b) = cmp(Seg(a, m), Seg(b, m))
        BY <1>4 DEF compareVersions
    <2>2. differ \in SUBSET Nat /\ differ # {}
        BY <1>1, <1>4
    <2>3. m \in differ /\ \A j \in differ : m <= j
        <3> HIDE DEF differ
        <3> QED
            BY <2>2, LeastOf
    <2>4. m \in Nat \ {0} /\ m \in DOMAIN a \cup DOMAIN b
        BY <1>1, <2>3
    <2> HIDE DEF m
    <2>5. FirstDiffer(a, b, m)
        <3> HIDE DEF differ
        <3>1. ASSUME NEW j \in 1..(m - 1) PROVE ~DifferAt(a, b, j)
            BY <1>2, <2>3, <2>4, <3>1
        <3> QED
            BY <1>2, <2>3, <3>1 DEF FirstDiffer
    <2>6. Newer(a, b) <=> m \in DOMAIN a /\ (m \notin DOMAIN b \/ Number[a[m]] > Number[b[m]])
        BY <2>4, <2>5, NewerAtFirst
    <2>7. cmp(Seg(a, m), Seg(b, m)) > 0 <=> m \in DOMAIN a /\ (m \notin DOMAIN b \/ Number[a[m]] > Number[b[m]])
        BY <2>4, SegmentsCompare
    <2> QED
        BY <2>1, <2>6, <2>7
<1> QED
    BY <1>3, <1>4

(* A version newer than a newer one is newer.                              *)
LEMMA NewerTransitive ==
    ASSUME NEW x \in NumberedSeqs, NEW b \in NumberedSeqs, NEW c \in NumberedSeqs,
           Newer(x, b), Newer(b, c)
    PROVE  Newer(x, c)
<1>0. /\ DOMAIN x = 1..Len(x) /\ DOMAIN b = 1..Len(b) /\ DOMAIN c = 1..Len(c)
      /\ Len(x) \in Nat /\ Len(b) \in Nat /\ Len(c) \in Nat
    BY DEF NumberedSeqs
<1>n. /\ \A k \in DOMAIN x : Number[x[k]] \in Int
      /\ \A k \in DOMAIN b : Number[b[k]] \in Int
      /\ \A k \in DOMAIN c : Number[c[k]] \in Int
    BY NumbersAreInts
<1>1. PICK i \in DOMAIN x : /\ \A j \in 1..(i - 1) : j \in DOMAIN b /\ Number[x[j]] = Number[b[j]]
                            /\ i \notin DOMAIN b \/ Number[x[i]] > Number[b[i]]
    BY DEF Newer
<1>2. PICK k \in DOMAIN b : /\ \A j \in 1..(k - 1) : j \in DOMAIN c /\ Number[b[j]] = Number[c[j]]
                            /\ k \notin DOMAIN c \/ Number[b[k]] > Number[c[k]]
    BY DEF Newer
<1>3. i \in Nat \ {0} /\ k \in Nat \ {0}
    BY <1>0
<1>4. CASE i <= k
    <2>1. \A j \in 1..(i - 1) : j \in DOMAIN c /\ Number[x[j]] = Number[c[j]]
        BY <1>1, <1>2, <1>3, <1>4
    <2>2. i \in DOMAIN b
        BY <1>0, <1>3, <1>4
    <2>3. i \notin DOMAIN c \/ Number[x[i]] > Number[c[i]]
        BY <1>n, <1>1, <1>2, <1>3, <1>4, <2>2
    <2> QED
        BY <2>1, <2>3 DEF Newer
<1>5. CASE k < i
    <2>1. k \in DOMAIN x /\ k \in 1..(i - 1)
        BY <1>0, <1>3, <1>5
    <2>2. \A j \in 1..(k - 1) : j \in DOMAIN c /\ Number[x[j]] = Number[c[j]]
        BY <1>1, <1>2, <1>3, <1>5
    <2>3. k \notin DOMAIN c \/ Number[x[k]] > Number[c[k]]
        BY <1>1, <1>2, <2>1
    <2> QED
        BY <2>1, <2>2, <2>3 DEF Newer
<1> QED
    BY <1>3, <1>4, <1>5

(* Newer is the order of numbers: irreflexive, transitive, and what is     *)
(* newer than a version is newer than all that are not.                    *)
LEMMA NewerOrders ==
    ASSUME NEW a \in NumberedSeqs, NEW b \in NumberedSeqs, NEW c \in NumberedSeqs
    PROVE  /\ ~Newer(a, a)
           /\ Newer(a, b) /\ Newer(b, c) => Newer(a, c)
           /\ Newer(a, c) /\ ~Newer(b, c) => Newer(a, b)
<1>1. /\ DOMAIN a = 1..Len(a) /\ DOMAIN b = 1..Len(b) /\ DOMAIN c = 1..Len(c)
      /\ Len(a) \in Nat /\ Len(b) \in Nat /\ Len(c) \in Nat
    BY DEF NumberedSeqs
<1>2. /\ \A k \in DOMAIN a : Number[a[k]] \in Int
      /\ \A k \in DOMAIN b : Number[b[k]] \in Int
      /\ \A k \in DOMAIN c : Number[c[k]] \in Int
    BY NumbersAreInts
<1>3. ~Newer(a, a)
    BY <1>2 DEF Newer
<1>4. Newer(a, b) /\ Newer(b, c) => Newer(a, c)
    BY NewerTransitive
<1>5. ASSUME Newer(a, c), ~Newer(b, c) PROVE Newer(a, b)
    <2>1. CASE Alike(a, b)
        <3>1. PICK i \in DOMAIN a : /\ \A j \in 1..(i - 1) : j \in DOMAIN c /\ Number[a[j]] = Number[c[j]]
                                    /\ i \notin DOMAIN c \/ Number[a[i]] > Number[c[i]]
            BY <1>5 DEF Newer
        <3>2. i \in DOMAIN b /\ \A j \in 1..(i - 1) : j \in DOMAIN a /\ Number[b[j]] = Number[a[j]]
            BY <1>1, <2>1, <3>1 DEF Alike
        <3>3. Newer(b, c)
            BY <2>1, <3>1, <3>2 DEF Alike, Newer
        <3> QED
            BY <1>5, <3>3
    <2>2. CASE \E i \in Nat \ {0} : FirstDiffer(a, b, i)
        <3>1. Newer(a, b) \/ Newer(b, a)
            BY <2>2, NewerAtFirst
        <3>2. Newer(b, a) => Newer(b, c)
            <4>1. ASSUME Newer(b, a) PROVE Newer(b, c)
                BY <1>5, <4>1, NewerTransitive
            <4> QED
                BY <4>1
        <3> QED
            BY <1>5, <3>1, <3>2
    <2> QED
        BY <2>1, <2>2, DifferOrAlike
<1> QED
    BY <1>3, <1>4, <1>5

\* What pickLatest's loop knows before it looks at the n-th version.
Best(list, best, n) ==
    /\ list = << >> => best = << >>
    /\ list # << >> => best \in Range(list)
    /\ (\A v \in Range(list) : Numbered(v)) => \A k \in DOMAIN list : k < n => ~Newer(list[k], best)

(* The versions of a numbered list are in the order of numbers.            *)
LEMMA ListedAreNumbered ==
    ASSUME NEW list \in Seq(Versions), \A v \in Range(list) : Numbered(v)
    PROVE  \A v \in Range(list) : v \in NumberedSeqs
<1>1. \A v \in Range(list) : v \in Versions
    BY DEF Range
<1>2. \A v \in Versions : v \in Seq(Segments)
    BY ReportAssumption
<1> QED
    BY <1>1, <1>2 DEF NumberedSeqs

(* The loop starts with the first version, and takes each one that is      *)
(* newer than the best so far.                                             *)
LEMMA BestStarts ==
    ASSUME NEW list \in Seq(Versions) PROVE Best(list, First(list), 2)
<1>1. DOMAIN list = 1..Len(list) /\ Len(list) \in Nat
    OBVIOUS
<1>2. CASE list = << >>
    BY <1>2 DEF Best, First
<1>3. CASE list # << >>
    <2>1. 1 \in DOMAIN list /\ First(list) = list[1]
        BY <1>1, <1>3 DEF First
    <2>2. list[1] \in Range(list)
        BY <2>1 DEF Range
    <2>3. ASSUME \A v \in Range(list) : Numbered(v) PROVE ~Newer(list[1], list[1])
        BY <2>2, <2>3, ListedAreNumbered, NewerOrders
    <2>4. \A k \in DOMAIN list : k < 2 => k = 1
        BY <1>1
    <2> QED
        BY <1>3, <2>1, <2>2, <2>3, <2>4 DEF Best
<1> QED
    BY <1>2, <1>3

(* One turn of pickLatest's loop keeps the best of what it has seen.       *)
LEMMA BestExtends ==
    ASSUME NEW list \in Seq(Versions), NEW best, NEW n \in DOMAIN list, Best(list, best, n)
    PROVE  Best(list, IF compareVersions(list[n], best) > 0 THEN list[n] ELSE best, n + 1)
<1> DEFINE then == IF compareVersions(list[n], best) > 0 THEN list[n] ELSE best
<1>1. DOMAIN list = 1..Len(list) /\ Len(list) \in Nat /\ n \in Nat
    OBVIOUS
<1>2. list # << >> /\ best \in Range(list) /\ list[n] \in Range(list)
    BY <1>1 DEF Best, Range
<1>3. then \in Range(list)
    BY <1>2
<1>4. ASSUME \A v \in Range(list) : Numbered(v), NEW k \in DOMAIN list, k < n + 1
      PROVE  ~Newer(list[k], then)
    <2>1. list[k] \in Range(list)
        BY DEF Range
    <2>2. list[k] \in NumberedSeqs /\ list[n] \in NumberedSeqs /\ best \in NumberedSeqs
        BY <1>2, <1>4, <2>1, ListedAreNumbered
    <2>3. compareVersions(list[n], best) > 0 <=> Newer(list[n], best)
        BY <2>2, ComparesNumbers
    <2>4. k < n => ~Newer(list[k], best)
        BY <1>4 DEF Best
    <2>5. k < n \/ k = n
        BY <1>1, <1>4
    <2>6. ~Newer(list[n], list[n])
        BY <2>2, NewerOrders
    <2>7. Newer(list[k], list[n]) /\ Newer(list[n], best) => Newer(list[k], best)
        BY <2>2, NewerOrders
    <2>8. CASE Newer(list[n], best)
        <3>1. then = list[n]
            BY <2>3, <2>8
        <3> QED
            BY <2>4, <2>5, <2>6, <2>7, <2>8, <3>1
    <2>9. CASE ~Newer(list[n], best)
        <3>1. then = best
            BY <2>3, <2>9
        <3> QED
            BY <2>4, <2>5, <2>9, <3>1
    <2> QED
        BY <2>8, <2>9
<1> HIDE DEF then
<1>5. Best(list, then, n + 1)
    BY <1>2, <1>3, <1>4 DEF Best
<1> QED
    BY <1>5 DEF then

Verdict ==
    IF YankedAtUpstream # {} THEN "yanked-upstream"
    ELSE IF NewerUpstream # {} THEN "behind"
    ELSE "in-sync"

ReportTypes ==
    /\ report = [pc |-> report.pc, lists |-> report.lists, latest |-> report.latest,
                 next |-> report.next, yanked |-> report.yanked, status |-> report.status]
    /\ report.pc \in {"read", "local", "upstream", "done"}
    /\ report.lists = [local |-> report.lists.local, upstream |-> report.lists.upstream]
    /\ report.lists.local \in Seq(Versions) /\ report.lists.upstream \in Seq(Versions)
    /\ report.latest = [local |-> report.latest.local, upstream |-> report.latest.upstream]
    /\ report.next \in Nat \ {0}

\* Both loops on their way and at their end, and the verdict drawn from them.
ReportInv ==
    /\ ReportTypes
    /\ report.pc = "local" => Best(report.lists.local, report.latest.local, report.next)
    /\ report.pc = "upstream" =>
          /\ Best(report.lists.local, report.latest.local, Len(report.lists.local) + 1)
          /\ Best(report.lists.upstream, report.latest.upstream, report.next)
    /\ report.pc = "done" /\ report.status \notin {"local-only", "upstream-error"} =>
          /\ Best(report.lists.local, report.latest.local, Len(report.lists.local) + 1)
          /\ Best(report.lists.upstream, report.latest.upstream, Len(report.lists.upstream) + 1)
          /\ report.status = Verdict

(* Past the end of a list the loop has looked at all of it.                *)
LEMMA BestEnds ==
    ASSUME NEW list \in Seq(Versions), NEW best, NEW n \in Nat \ {0}, n \notin DOMAIN list,
           Best(list, best, n)
    PROVE  Best(list, best, Len(list) + 1)
<1>1. \A k \in DOMAIN list : k < n
    OBVIOUS
<1> QED
    BY <1>1 DEF Best

(* A report that has not begun satisfies the invariant.                    *)
LEMMA ReportStarts == ReportInit => ReportInv
<1> SUFFICES ASSUME ReportInit PROVE ReportInv
    OBVIOUS
<1>1. << >> \in Seq(Versions)
    OBVIOUS
<1>2. /\ report.pc = "read" /\ report.next = 2
      /\ report.lists = [local |-> << >>, upstream |-> << >>]
      /\ report.latest = [local |-> << >>, upstream |-> << >>]
      /\ report = [pc |-> report.pc, lists |-> report.lists, latest |-> report.latest,
                   next |-> report.next, yanked |-> report.yanked, status |-> report.status]
    BY DEF ReportInit
<1>3. /\ report.lists.local \in Seq(Versions) /\ report.lists.upstream \in Seq(Versions)
      /\ report.lists = [local |-> report.lists.local, upstream |-> report.lists.upstream]
      /\ report.latest = [local |-> report.latest.local, upstream |-> report.latest.upstream]
    BY <1>1, <1>2
<1> QED
    BY <1>2, <1>3 DEF ReportInv, ReportTypes

(* A sorted listing lists versions.                                        *)
LEMMA SortedLists ==
    ASSUME NEW list \in Seq(Versions), NEW s \in SortStrings(list) PROVE s \in Seq(Versions)
<1>1. PICK p \in Bijection(DOMAIN list, DOMAIN list) : s = [i \in DOMAIN list |-> list[p[i]]]
    BY DEF SortStrings
<1>2. p \in [DOMAIN list -> DOMAIN list]
    BY DEF Bijection, Injection
<1>3. DOMAIN list = 1..Len(list) /\ Len(list) \in Nat /\ \A i \in DOMAIN list : list[i] \in Versions
    OBVIOUS
<1>4. s \in [1..Len(list) -> Versions]
    BY <1>1, <1>2, <1>3
<1> QED
    BY <1>3, <1>4

(* Every step of a drift report preserves it.                              *)
LEMMA ReportStep == ReportInv /\ [ReportNext]_reportVars => ReportInv'
<1> SUFFICES ASSUME ReportInv, [ReportNext]_reportVars PROVE ReportInv'
    OBVIOUS
<1>1. CASE readMirrorModules
    <2>0. PICK found \in Listings : \E local \in SortStrings(found) :
             report' = [report EXCEPT !.pc = "local", !.lists.local = local,
                                      !.latest.local = First(local), !.next = 2]
        BY <1>1 DEF readMirrorModules
    <2>1. PICK local \in SortStrings(found) :
             report' = [report EXCEPT !.pc = "local", !.lists.local = local,
                                      !.latest.local = First(local), !.next = 2]
        BY <2>0
    <2>2. local \in Seq(Versions)
        BY ReportAssumption, SortedLists
    <2>3. Best(local, First(local), 2)
        BY <2>2, BestStarts
    <2>4. report' = [pc |-> "local", next |-> 2, yanked |-> report.yanked, status |-> report.status,
                     lists |-> [local |-> local, upstream |-> report.lists.upstream],
                     latest |-> [local |-> First(local), upstream |-> report.latest.upstream]]
        BY <2>1 DEF ReportInv, ReportTypes
    <2>5. ReportTypes'
        BY <2>2, <2>4 DEF ReportInv, ReportTypes
    <2> QED
        BY <2>3, <2>4, <2>5 DEF ReportInv
<1>2. CASE pickLatest
    <2> DEFINE of == report.pc
               v == report.lists[of][report.next]
               then == IF compareVersions(v, report.latest[of]) > 0 THEN v ELSE report.latest[of]
    <2>1. /\ of \in {"local", "upstream"} /\ report.next \in DOMAIN report.lists[of]
          /\ report' = [report EXCEPT !.next = report.next + 1, !.latest[of] = then]
        BY <1>2 DEF pickLatest
    <2>2. report.lists[of] \in Seq(Versions) /\ Best(report.lists[of], report.latest[of], report.next)
        BY <2>1 DEF ReportInv, ReportTypes
    <2>3. Best(report.lists[of], then, report.next + 1)
        BY <2>1, <2>2, BestExtends
    <2> HIDE DEF then
    <2>4. /\ report'.pc = of /\ report'.next = report.next + 1 /\ report'.lists = report.lists
          /\ report'.latest = [report.latest EXCEPT ![of] = then]
          /\ report' = [pc |-> of, lists |-> report.lists, latest |-> report'.latest,
                        next |-> report.next + 1, yanked |-> report.yanked, status |-> report.status]
        BY <2>1 DEF ReportInv, ReportTypes
    <2>t. ReportTypes'
        BY <2>1, <2>4 DEF ReportInv, ReportTypes
    <2>5. CASE of = "local"
        <3>1. report'.latest.local = then
            BY <2>4, <2>5 DEF ReportInv, ReportTypes
        <3> QED
            BY <2>3, <2>4, <2>5, <2>t, <3>1 DEF ReportInv
    <2>6. CASE of = "upstream"
        <3>1. report'.latest.upstream = then /\ report'.latest.local = report.latest.local
            BY <2>4, <2>6 DEF ReportInv, ReportTypes
        <3> QED
            BY <2>3, <2>4, <2>6, <2>t, <3>1 DEF ReportInv
    <2> QED
        BY <2>1, <2>5, <2>6
<1>3. CASE GetMetadata
    <2>1. CASE report'.pc = "done"
        <3>1. ReportTypes' /\ report'.status \in {"local-only", "upstream-error"}
            BY <1>3, <2>1 DEF GetMetadata, ReportInv, ReportTypes
        <3> QED
            BY <2>1, <3>1 DEF ReportInv
    <2>2. CASE report'.pc # "done"
        <3>1. PICK versions \in Listings, yanked \in YankSets :
                 report' = [report EXCEPT !.pc = "upstream", !.lists.upstream = versions, !.next = 2,
                                          !.latest.upstream = First(versions), !.yanked = yanked]
            BY <1>3, <2>2 DEF GetMetadata, ReportInv, ReportTypes
        <3>2. versions \in Seq(Versions)
            BY ReportAssumption
        <3>3. Best(versions, First(versions), 2)
            BY <3>2, BestStarts
        <3>4. Best(report.lists.local, report.latest.local, Len(report.lists.local) + 1)
            <4>1. /\ report.pc = "local" /\ report.next \notin DOMAIN report.lists.local
                  /\ report.lists.local \in Seq(Versions) /\ report.next \in Nat \ {0}
                BY <1>3 DEF GetMetadata, ReportInv, ReportTypes
            <4> QED
                BY <4>1, BestEnds DEF ReportInv
        <3>5. report' = [pc |-> "upstream", next |-> 2, yanked |-> yanked, status |-> report.status,
                         lists |-> [local |-> report.lists.local, upstream |-> versions],
                         latest |-> [local |-> report.latest.local, upstream |-> First(versions)]]
            BY <3>1 DEF ReportInv, ReportTypes
        <3>6. ReportTypes'
            BY <3>2, <3>5 DEF ReportInv, ReportTypes
        <3> QED
            BY <3>3, <3>4, <3>5, <3>6 DEF ReportInv
    <2> QED
        BY <2>1, <2>2
<1>4. CASE compareOne
    <2>1. /\ report.pc = "upstream" /\ report.next \notin DOMAIN report.lists.upstream
          /\ report' = [report EXCEPT !.pc = "done", !.status = Verdict]
        BY <1>4 DEF compareOne, Verdict
    <2>2. Best(report.lists.upstream, report.latest.upstream, Len(report.lists.upstream) + 1)
        <3>1. report.lists.upstream \in Seq(Versions) /\ report.next \in Nat \ {0}
            BY DEF ReportInv, ReportTypes
        <3> QED
            BY <2>1, <3>1, BestEnds DEF ReportInv
    <2>3. /\ report'.pc = "done" /\ report'.status = Verdict /\ ReportTypes'
          /\ report'.lists = report.lists /\ report'.latest = report.latest
          /\ report'.yanked = report.yanked
        <3> HIDE DEF Verdict
        <3> QED
            BY <2>1 DEF ReportInv, ReportTypes
    <2>4. Verdict' = Verdict
        BY <2>3 DEF Verdict, YankedAtUpstream, NewerUpstream, MissingLocally, Held, Upstream
    <2> QED
        BY <2>1, <2>2, <2>3, <2>4 DEF ReportInv
<1>5. CASE UNCHANGED reportVars
    <2>1. report' = report
        BY <1>5 DEF reportVars
    <2>2. Verdict' = Verdict
        BY <2>1 DEF Verdict, YankedAtUpstream, NewerUpstream, MissingLocally, Held, Upstream
    <2> QED
        BY <2>1, <2>2 DEF ReportInv, ReportTypes
<1> QED
    BY <1>1, <1>2, <1>3, <1>4, <1>5 DEF ReportNext

(* The end of both loops makes the verdict exact.                          *)
LEMMA VerdictIsExact == ReportInv => ReportIsExact
<1> SUFFICES ASSUME ReportInv, report.pc = "done",
                    report.status \in {"yanked-upstream", "behind", "in-sync"},
                    \A v \in Held \cup Upstream : Numbered(v)
             PROVE  /\ report.status = "behind" <=>
                          YankedAtUpstream = {} /\ \E u \in Upstream : \A v \in Held : Newer(u, v)
                    /\ \A u \in Upstream : ~Newer(u, report.latest.upstream)
                    /\ Held # {} /\ report.status # "yanked-upstream" =>
                          ComputeForVersion(report.latest.local).status = report.status
    BY DEF ReportIsExact
<1> DEFINE L == report.lists.local
           U == report.lists.upstream
           b == report.latest.local
<1>1. L \in Seq(Versions) /\ U \in Seq(Versions) /\ Held = Range(L) /\ Upstream = Range(U)
    BY DEF ReportInv, ReportTypes, Held, Upstream
<1>2. Best(L, b, Len(L) + 1) /\ Best(U, report.latest.upstream, Len(U) + 1)
    BY DEF ReportInv
<1>v. report.status = Verdict
    BY DEF ReportInv
<1>3. /\ \A v \in Held : v \in NumberedSeqs
      /\ \A u \in Upstream : u \in NumberedSeqs /\ u # << >>
    <2>1. \A u \in Upstream : u # << >>
        <3>1. \A u \in Upstream : u \in Versions
            BY <1>1 DEF Range
        <3> QED
            BY <3>1, ReportAssumption
    <2> QED
        BY <1>1, <2>1, ListedAreNumbered
<1>4. b \in NumberedSeqs /\ (Held = {} => b = << >>) /\ (Held # {} => b \in Held)
    <2>1. L = << >> <=> Held = {}
        <3>1. L = << >> <=> DOMAIN L = {}
            <4> HIDE DEF L
            <4>1. L \in Seq(Versions)
                BY <1>1
            <4> QED
                BY <4>1
        <3>2. Held = {} <=> DOMAIN L = {}
            BY <1>1 DEF Range
        <3> QED
            BY <3>1, <3>2
    <2>2. << >> \in NumberedSeqs
        BY DEF NumberedSeqs, Numbered
    <2> QED
        BY <1>1, <1>2, <1>3, <2>1, <2>2 DEF Best
<1>5. \A v \in Held : ~Newer(v, b)
    <2>1. \A k \in DOMAIN L : k < Len(L) + 1
        BY <1>1
    <2> QED
        BY <1>1, <1>2, <2>1 DEF Best, Range
<1>6. \A u \in Upstream : ~Newer(u, report.latest.upstream)
    <2>1. \A k \in DOMAIN U : k < Len(U) + 1
        BY <1>1
    <2> QED
        BY <1>1, <1>2, <2>1 DEF Best, Range
<1>7. \A u \in Upstream : compareVersions(u, b) > 0 <=> Newer(u, b)
    BY <1>3, <1>4, ComparesNumbers
<1>8. \A u \in Upstream : Newer(u, b) <=> \A v \in Held : Newer(u, v)
    <2>1. ASSUME NEW u \in Upstream, Newer(u, b), NEW v \in Held PROVE Newer(u, v)
        <3>1. u \in NumberedSeqs /\ v \in NumberedSeqs /\ ~Newer(v, b)
            BY <1>3, <1>5
        <3> QED
            BY <1>4, <2>1, <3>1, NewerOrders
    <2>2. ASSUME NEW u \in Upstream, \A v \in Held : Newer(u, v) PROVE Newer(u, b)
        <3>1. CASE Held # {}
            BY <1>4, <2>2, <3>1
        <3>2. CASE Held = {}
            <4>1. b = << >> /\ u \in Seq(Segments) /\ u # << >>
                BY <1>3, <1>4, <3>2 DEF NumberedSeqs
            <4>2. 1 \in DOMAIN u /\ DOMAIN b = {}
                BY <4>1
            <4> QED
                BY <4>2 DEF Newer
        <3> QED
            BY <3>1, <3>2
    <2> QED
        BY <2>1, <2>2
<1>9. NewerUpstream = {u \in Upstream : Newer(u, b)}
    BY <1>5, <1>7 DEF NewerUpstream, MissingLocally
<1>10. report.status = "behind" <=>
          YankedAtUpstream = {} /\ \E u \in Upstream : \A v \in Held : Newer(u, v)
    <2>1. NewerUpstream # {} <=> \E u \in Upstream : \A v \in Held : Newer(u, v)
        BY <1>8, <1>9
    <2>2. report.status = "behind" <=> YankedAtUpstream = {} /\ NewerUpstream # {}
        BY <1>v DEF Verdict
    <2> QED
        BY <2>1, <2>2
<1>11. ASSUME Held # {}, report.status # "yanked-upstream"
       PROVE  ComputeForVersion(b).status = report.status
    <2>1. YankedAtUpstream = {} /\ b \notin report.yanked
        <3>1. YankedAtUpstream = {}
            BY <1>v, <1>11 DEF Verdict
        <3> QED
            BY <1>4, <1>11, <3>1 DEF YankedAtUpstream
    <2>2. {i \in DOMAIN U : compareVersions(U[i], b) > 0} # {} <=> NewerUpstream # {}
        BY <1>1, <1>7, <1>9 DEF Range
    <2> QED
        BY <1>v, <2>1, <2>2 DEF ComputeForVersion, Verdict
<1> QED
    BY <1>6, <1>10, <1>11

(* For every set of versions, of any number of segments, and every listing *)
(* on either side: the report of a module whose versions are numbered is   *)
(* exact (pickLatest, compareVersions, compareOne, ComputeForVersion).     *)
THEOREM ReportStaysExact == ReportSpec => []ReportIsExact
BY ReportStarts, ReportStep, VerdictIsExact, PTL DEF ReportSpec
=============================================================================
