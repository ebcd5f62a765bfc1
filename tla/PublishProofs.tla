---------------------------- MODULE PublishProofs ----------------------------
(***************************************************************************)
(* Proofs about Publish, for any coordinates, any number of calls, of      *)
(* sibling commits and of merges, with or without faults of git, the disk, *)
(* the process and the forge: the registry repository loses nothing, a     *)
(* pull request carries its entry, a direct publish that nobody disturbed  *)
(* only fails on what is already there, and a pull request is refused as   *)
(* existing for nothing but that and the debris of its own version.        *)
(***************************************************************************)
EXTENDS Publish, TLAPS

(***************************************************************************)
(* The inductive invariant                                                 *)
(***************************************************************************)
JobRec == [pc : {"idle", "sync", "exists", "branch", "write", "merge", "stage", "commit", "push", "open"},
           c : Coord \cup {NoCoord}, attempt : {0, 1}, disturbed : BOOLEAN]

Shapes ==
    /\ disk = TreeOf(disk)
    /\ job \in JobRec
    /\ main.n \in Nat /\ local.n \in Nat /\ local.n <= main.n

\* A tree lists only what it holds, and lists something of every module it
\* has files of: a metadata.json comes with the directories beside it.
Sound(t) == t.listed \subseteq t.dirs
Headed(t) == \A c \in t.dirs : \E d \in t.listed : d[1] = c[1]
Extends(t, u) == u.dirs \subseteq t.dirs /\ u.listed \subseteq t.listed
Has(t, c) == c \in t.dirs /\ c \in t.listed

TreesSound ==
    /\ Sound(main) /\ Sound(local) /\ Sound(index) /\ Sound(disk)
    /\ Headed(main) /\ Headed(local) /\ Headed(index)
    /\ \A b \in branches : Sound(b) /\ Headed(b) /\ Has(b, b.c)

\* What the clone holds between the re-sync and the push: it builds on the
\* commit it was reset to, and that is the tip unless the tip has moved.
Synced == {"exists", "branch", "write", "merge", "stage"}
CloneBuilds ==
    /\ job.pc \in Synced => index = TreeOf(local) /\ index.listed \subseteq disk.listed
    /\ job.pc = "commit" => Extends(index, local)
    /\ job.pc \in Synced \cup {"commit"} =>
           (local.n = main.n => local.dirs = main.dirs /\ local.listed = main.listed)
    /\ job.pc = "push" => (local.n = main.n => Extends(local, main))
    /\ job.pc \in Synced \cup {"commit", "push"} /\ ~job.disturbed => local.n = main.n

\* How far the entry of the call has come.
EntryCarried ==
    /\ job.pc \in {"merge", "stage"} => job.c \in disk.dirs
    /\ job.pc = "stage" => job.c \in disk.listed
    /\ job.pc = "commit" => Has(index, job.c)
    /\ job.pc = "push" => Has(local, job.c)
    /\ job.pc = "open" => job.c \notin prs /\ \E b \in branches : b.c = job.c

PublishInv ==
    /\ Shapes /\ TreesSound /\ CloneBuilds /\ EntryCarried
    /\ landed \subseteq main.dirs \cap main.listed
    /\ PRCarriesEntry /\ UndisturbedSucceeds

-----------------------------------------------------------------------------
(* An empty repository and its fresh clone satisfy the invariant.          *)
LEMMA PublishInitInv == PublishInit => PublishInv
  BY DEF PublishInit, PublishInv, Shapes, TreesSound, CloneBuilds, EntryCarried, PRCarriesEntry,
         UndisturbedSucceeds, JobRec, Idle, Commit, Bare, TreeOf, Sound, Headed, Synced

(* Every step of the publishers, the other committers and the forge        *)
(* preserves it.                                                           *)
LEMMA PublishStep == PublishInv /\ [PublishNext]_publishVars => PublishInv'
<1> SUFFICES ASSUME PublishInv, [PublishNext]_publishVars PROVE PublishInv'
  OBVIOUS
<1>s. Shapes /\ TreesSound /\ CloneBuilds /\ EntryCarried
      /\ landed \subseteq main.dirs \cap main.listed /\ PRCarriesEntry /\ UndisturbedSucceeds
  BY DEF PublishInv
<1>i. Idle \in JobRec /\ Idle.pc = "idle"
  BY DEF Idle, JobRec
<1> USE DEF remote, clone, At, GoTo
\* A call that returns leaves the trees as they are.
<1>r. ASSUME NEW res, Return(res), UNCHANGED <<remote, disk, index, landed>>, UNCHANGED local,
             mode = "git-direct" /\ res \in {"empty", "rejected"} /\ ~job.disturbed => job.c \in main.dirs
      PROVE  PublishInv'
  BY <1>r, <1>s, <1>i DEF Return, PublishInv, Shapes, TreesSound, CloneBuilds, EntryCarried,
     PRCarriesEntry, UndisturbedSucceeds, Synced, TreeOf, Sound, Headed, Has
<1>1. CASE UNCHANGED publishVars
  BY <1>1, <1>s DEF publishVars, PublishInv, Shapes, TreesSound, CloneBuilds, EntryCarried,
     PRCarriesEntry, UndisturbedSucceeds, Extends, TreeOf, Sound, Headed, Has
<1>2. ASSUME NEW c \in Coord, Publish(c) PROVE PublishInv'
  <2>1. job' \in JobRec /\ job'.pc = "sync"
    BY <1>2 DEF Publish, JobRec, Idle
  <2> QED BY <1>2, <2>1, <1>s DEF Publish, PublishInv, Shapes, TreesSound, CloneBuilds, EntryCarried,
     PRCarriesEntry, UndisturbedSucceeds, Synced, TreeOf, Sound, Headed, Has
<1>3. CASE Sync
  <2>1. job' \in JobRec /\ job'.pc \in {"exists", "write"} /\ job'.disturbed = job.disturbed
    BY <1>3, <1>s DEF Sync, Shapes, JobRec
  <2>2. /\ disk'.dirs = main.dirs \cup (disk.dirs \ index.dirs)
        /\ disk'.listed = main.listed \cup {c \in disk.listed : OfName(main.listed \cup index.listed, c[1]) = {}}
        /\ disk' = TreeOf(disk')
        /\ index' = TreeOf(main) /\ local' = main
    BY <1>3 DEF Sync, ResetHard, TreeOf
  <2>3. Sound(disk')
    <3> SUFFICES ASSUME NEW c \in disk'.listed PROVE c \in disk'.dirs
      BY DEF Sound
    <3>1. CASE c \in main.listed
      BY <3>1, <2>2, <1>s DEF TreesSound, Sound
    <3>2. CASE c \in disk.listed /\ OfName(main.listed \cup index.listed, c[1]) = {}
      <4>1. c \notin index.dirs
        BY <3>2, <1>s DEF TreesSound, Headed, OfName
      <4> QED BY <4>1, <3>2, <2>2, <1>s DEF TreesSound, Sound
    <3> QED BY <3>1, <3>2, <2>2
  <2>4. Shapes'
    BY <1>3, <2>1, <2>2, <1>s DEF Sync, Shapes
  <2>5. TreesSound'
    BY <1>3, <2>2, <2>3, <1>s DEF Sync, TreesSound, Sound, Headed, TreeOf
  <2>6. CloneBuilds' /\ EntryCarried'
    BY <1>3, <2>1, <2>2 DEF Sync, CloneBuilds, EntryCarried, Synced, TreeOf
  <2>7. (landed \subseteq main.dirs \cap main.listed /\ PRCarriesEntry /\ UndisturbedSucceeds)'
    BY <1>3, <1>s DEF Sync, PRCarriesEntry, UndisturbedSucceeds
  <2> QED BY <2>4, <2>5, <2>6, <2>7 DEF PublishInv
<1>4. CASE WriteFiles
  <2>1. job' \in JobRec /\ job' = [job EXCEPT !.pc = "merge"] /\ job'.pc = "merge" /\ job'.c = job.c
        /\ job'.disturbed = job.disturbed /\ job.pc = "write"
    BY <1>4, <1>s DEF WriteFiles, Shapes, JobRec
  <2>2. disk'.dirs = disk.dirs \cup {job.c} /\ disk'.listed = disk.listed /\ disk' = TreeOf(disk')
    BY <1>4, <1>s DEF WriteFiles, Shapes, TreeOf
  <2> QED BY <1>4, <2>1, <2>2, <1>s DEF WriteFiles, PublishInv, Shapes, TreesSound, CloneBuilds,
       EntryCarried, PRCarriesEntry, UndisturbedSucceeds, Synced, TreeOf, Sound, Headed, Has
<1>5. CASE MergeMetadata
  <2>1. job' \in JobRec /\ job'.pc = "stage" /\ job'.c = job.c
        /\ job'.disturbed = job.disturbed /\ job.pc = "merge"
    BY <1>5, <1>s DEF MergeMetadata, Shapes, JobRec
  <2>2. disk'.dirs = disk.dirs /\ disk'.listed = disk.listed \cup {job.c} /\ disk' = TreeOf(disk')
    BY <1>5, <1>s DEF MergeMetadata, Shapes, TreeOf
  <2> QED BY <1>5, <2>1, <2>2, <1>s DEF MergeMetadata, PublishInv, Shapes, TreesSound, CloneBuilds,
       EntryCarried, PRCarriesEntry, UndisturbedSucceeds, Synced, TreeOf, Sound, Headed, Has
<1>6. CASE Stage
  <2>1. job' \in JobRec /\ job'.pc = "commit" /\ job'.c = job.c
        /\ job'.disturbed = job.disturbed /\ job.pc = "stage"
    BY <1>6, <1>s DEF Stage, Shapes, JobRec
  <2>2. /\ index'.dirs = index.dirs \cup OfName(disk.dirs, job.c[1])
        /\ index'.listed = (index.listed \ OfName(index.listed, job.c[1])) \cup OfName(disk.listed, job.c[1])
    BY <1>6 DEF Stage
  <2>3. Sound(index)' /\ Has(index, job.c)'
    BY <2>1, <2>2, <1>s DEF TreesSound, EntryCarried, Sound, Has, OfName
  <2>4. Headed(index)'
    <3> SUFFICES ASSUME NEW c \in index'.dirs PROVE \E d \in index'.listed : d[1] = c[1]
      BY DEF Headed
    <3>1. CASE c[1] = job.c[1]
      BY <3>1, <2>1, <2>3 DEF Has
    <3>2. CASE c[1] # job.c[1]
      <4>1. PICK d \in index.listed : d[1] = c[1]
        BY <3>2, <2>2, <1>s DEF OfName, TreesSound, Headed
      <4> QED BY <4>1, <3>2, <2>2 DEF OfName
    <3> QED BY <3>1, <3>2
  <2>5. Extends(index, local)'
    BY <1>6, <2>1, <2>2, <1>s DEF Stage, CloneBuilds, Synced, Extends, OfName, TreeOf
  <2>6. Shapes' /\ TreesSound'
    BY <1>6, <2>1, <2>3, <2>4, <1>s DEF Stage, Shapes, TreesSound, Sound, Headed, TreeOf, Has
  <2>7. CloneBuilds' /\ EntryCarried'
    BY <1>6, <2>1, <2>3, <2>5, <1>s DEF Stage, CloneBuilds, EntryCarried, Synced
  <2>8. (landed \subseteq main.dirs \cap main.listed /\ PRCarriesEntry /\ UndisturbedSucceeds)'
    BY <1>6, <1>s DEF Stage, PRCarriesEntry, UndisturbedSucceeds
  <2> QED BY <2>6, <2>7, <2>8 DEF PublishInv
<1>7. CASE CommitWith
  <2>1. CASE index # TreeOf(local)
    <3>1. job' \in JobRec /\ job'.pc = "push" /\ job'.c = job.c
          /\ job'.disturbed = job.disturbed /\ job.pc = "commit" /\ UNCHANGED last
      BY <1>7, <2>1, <1>s DEF CommitWith, Shapes, JobRec
    <3>2. local'.n = local.n /\ local'.dirs = index.dirs /\ local'.listed = index.listed
      BY <1>7, <2>1 DEF CommitWith, Commit
    <3>3. Shapes' /\ TreesSound'
      BY <1>7, <3>1, <3>2, <1>s DEF CommitWith, Shapes, TreesSound, Sound, Headed, TreeOf, Has
    <3>4. CloneBuilds' /\ EntryCarried'
      BY <1>7, <3>1, <3>2, <1>s DEF CommitWith, CloneBuilds, EntryCarried, Synced, Extends, Has
    <3>5. (landed \subseteq main.dirs \cap main.listed /\ PRCarriesEntry /\ UndisturbedSucceeds)'
      BY <1>7, <3>1, <1>s DEF CommitWith, PRCarriesEntry, UndisturbedSucceeds
    <3> QED BY <3>3, <3>4, <3>5 DEF PublishInv
  <2>2. CASE index = TreeOf(local)
    <3>1. ~job.disturbed => job.c \in main.dirs
      BY <1>7, <2>2, <1>s DEF CommitWith, CloneBuilds, EntryCarried, Has, TreeOf
    <3> QED BY <1>7, <2>2, <3>1, <1>r DEF CommitWith
  <2> QED BY <2>1, <2>2
<1>8. CASE Push
  <2>p. job.pc = "push" /\ mode = "git-direct"
    BY <1>8 DEF Push
  <2>1. CASE FastForward /\ main' = Commit(main.n + 1, local)
    <3>1. /\ main'.n = main.n + 1 /\ main'.dirs = local.dirs /\ main'.listed = local.listed
          /\ UNCHANGED <<mode, branches, prs, clone, unopened>>
      BY <1>8, <2>1 DEF Push, Commit
    <3>3. Extends(local, main) /\ Has(local, job.c)
      BY <2>1, <2>p, <1>s DEF FastForward, CloneBuilds, EntryCarried
    <3>4. job' = Idle /\ last'.res \in {"ok", "fault"} /\ landed' \subseteq landed \cup {job.c}
      BY <1>8, <2>1 DEF Push, Return, Commit
    <3>5. Shapes' /\ TreesSound'
      BY <3>1, <3>4, <1>i, <1>s DEF Shapes, TreesSound, Sound, Headed, TreeOf, Has
    <3>6. CloneBuilds' /\ EntryCarried'
      BY <3>4, <1>i DEF CloneBuilds, EntryCarried, Synced
    <3>7. (landed \subseteq main.dirs \cap main.listed /\ PRCarriesEntry /\ UndisturbedSucceeds)'
      BY <3>1, <3>3, <3>4, <1>s DEF PRCarriesEntry, UndisturbedSucceeds, Extends, Has
    <3> QED BY <3>5, <3>6, <3>7 DEF PublishInv
  <2>2. CASE ~FastForward
    <3>1. job.disturbed
      BY <2>2, <2>p, <1>s DEF FastForward, CloneBuilds
    <3>2. CASE job.attempt = 0 /\ job' = [job EXCEPT !.pc = "sync", !.attempt = 1] /\ UNCHANGED last
      <4>1. job' \in JobRec /\ job'.pc = "sync"
        BY <3>2, <1>s DEF Shapes, JobRec
      <4>2. UNCHANGED <<remote, clone, last, landed>>
        BY <1>8, <2>2, <3>2 DEF Push
      <4> QED BY <4>1, <4>2, <1>s DEF PublishInv, Shapes, TreesSound, CloneBuilds, EntryCarried,
           PRCarriesEntry, UndisturbedSucceeds, Synced, TreeOf, Sound, Headed, Has
    <3>3. CASE Return("rejected")
      BY <1>8, <2>2, <3>1, <3>3, <1>r DEF Push
    <3> QED BY <1>8, <2>2, <3>2, <3>3 DEF Push
  <2> QED BY <1>8, <2>1, <2>2 DEF Push
<1>9. CASE VersionDirExists
  <2>1. CASE Return("exists")
    BY <1>9, <2>1, <1>r DEF VersionDirExists
  <2>2. CASE GoTo("branch") /\ UNCHANGED last
    <3>1. job' \in JobRec /\ job'.pc = "branch" /\ job'.c = job.c
          /\ job'.disturbed = job.disturbed /\ job.pc = "exists"
      BY <1>9, <2>2, <1>s DEF VersionDirExists, Shapes, JobRec
    <3> QED BY <1>9, <2>2, <3>1, <1>s DEF VersionDirExists, PublishInv, Shapes, TreesSound, CloneBuilds,
         EntryCarried, PRCarriesEntry, UndisturbedSucceeds, Synced, TreeOf, Sound, Headed, Has
  <2> QED BY <1>9, <2>1, <2>2 DEF VersionDirExists
<1>10. CASE CreateBranch
  <2>1. CASE Return("branch")
    BY <1>10, <2>1, <1>r DEF CreateBranch
  <2>2. CASE GoTo("write") /\ UNCHANGED last
    <3>1. job' \in JobRec /\ job'.pc = "write" /\ job'.c = job.c
          /\ job'.disturbed = job.disturbed /\ job.pc = "branch"
      BY <1>10, <2>2, <1>s DEF CreateBranch, Shapes, JobRec
    <3> QED BY <1>10, <2>2, <3>1, <1>s DEF CreateBranch, PublishInv, Shapes, TreesSound, CloneBuilds,
         EntryCarried, PRCarriesEntry, UndisturbedSucceeds, Synced, TreeOf, Sound, Headed, Has
  <2> QED BY <1>10, <2>1, <2>2 DEF CreateBranch
<1>11. CASE PushBranch
  <2>1. CASE Return("rejected") /\ UNCHANGED branches
    <3>1. mode = "git-pr"
      BY <1>11 DEF PushBranch
    <3> QED BY <1>11, <2>1, <3>1, <1>r DEF PushBranch
  <2>2. CASE \A b \in branches : b.c # job.c
    <3> DEFINE nb == [c |-> job.c, dirs |-> local.dirs, listed |-> local.listed]
    <3>1. job' \in JobRec /\ job'.pc = "open" /\ job'.c = job.c /\ job.pc = "push"
          /\ branches' = branches \cup {nb} /\ UNCHANGED last
      BY <1>11, <2>2, <1>s DEF PushBranch, Shapes, JobRec
    <3>2. Sound(nb) /\ Headed(nb) /\ Has(nb, nb.c)
      BY <3>1, <1>s DEF TreesSound, EntryCarried, Sound, Headed, Has
    <3>3. job.c \notin prs
      BY <2>2, <1>s DEF PRCarriesEntry
    <3>4. nb.c = job.c
      OBVIOUS
    <3> HIDE DEF nb
    <3>5. Shapes' /\ TreesSound'
      BY <1>11, <3>1, <3>2, <1>s DEF PushBranch, Shapes, TreesSound, Sound, Headed, TreeOf, Has
    <3>6. CloneBuilds' /\ EntryCarried'
      BY <1>11, <3>1, <3>3, <3>4 DEF PushBranch, CloneBuilds, EntryCarried, Synced
    <3>7. (landed \subseteq main.dirs \cap main.listed /\ PRCarriesEntry /\ UndisturbedSucceeds)'
      BY <1>11, <3>1, <1>s DEF PushBranch, PRCarriesEntry, UndisturbedSucceeds
    <3> QED BY <3>5, <3>6, <3>7 DEF PublishInv
  <2> QED BY <1>11, <2>1, <2>2 DEF PushBranch
<1>12. CASE OpenPR
  <2>1. job.pc = "open" /\ job' = Idle /\ prs' \subseteq prs \cup {job.c} /\ last'.res \in {"ok", "forge"}
        /\ UNCHANGED <<mode, main, branches, clone, landed>>
    BY <1>12 DEF OpenPR, Return
  <2>2. PICK b \in branches : b.c = job.c
    BY <2>1, <1>s DEF EntryCarried
  <2>3. job.c \in b.dirs \cap b.listed
    BY <2>2, <1>s DEF TreesSound, Has
  <2>4. PRCarriesEntry'
    BY <2>1, <2>2, <2>3, <1>s DEF PRCarriesEntry
  <2>5. Shapes' /\ TreesSound'
    BY <2>1, <1>i, <1>s DEF Shapes, TreesSound, Sound, Headed, TreeOf, Has
  <2>6. CloneBuilds' /\ EntryCarried'
    BY <2>1, <1>i DEF CloneBuilds, EntryCarried, Synced
  <2>7. (landed \subseteq main.dirs \cap main.listed /\ UndisturbedSucceeds)'
    BY <2>1, <1>s DEF UndisturbedSucceeds
  <2> QED BY <2>4, <2>5, <2>6, <2>7 DEF PublishInv
\* The base branch moves under the call in progress.
<1>m. ASSUME main'.n = main.n + 1, Extends(main', main), Sound(main'), Headed(main'), Disturb,
             UNCHANGED <<mode, clone, last>>, branches' \subseteq branches,
             job.pc = "open" => job.c \notin prs' /\ \E b \in branches' : b.c = job.c,
             landed' \subseteq main'.dirs \cap main'.listed, PRCarriesEntry'
      PROVE  PublishInv'
  <2>1. job' \in JobRec /\ job'.pc = job.pc /\ job'.c = job.c /\ (job.pc # "idle" => job'.disturbed)
    BY <1>m, <1>s DEF Disturb, Shapes, JobRec
  <2>2. Shapes' /\ TreesSound'
    BY <1>m, <2>1, <1>s DEF Shapes, TreesSound, Sound, Headed, TreeOf, Has
  <2>3. CloneBuilds'
    <3>1. local'.n # main'.n
      BY <1>m, <1>s DEF Shapes
    <3> QED BY <1>m, <2>1, <3>1, <1>s DEF CloneBuilds, Synced, Extends, TreeOf
  <2>4. EntryCarried'
    BY <1>m, <2>1, <1>s DEF EntryCarried, Has
  <2>5. UndisturbedSucceeds'
    BY <1>m, <1>s DEF UndisturbedSucceeds, Extends
  <2> QED BY <1>m, <2>2, <2>3, <2>4, <2>5 DEF PublishInv
<1>13. ASSUME NEW c \in Coord, SiblingCommit(c) PROVE PublishInv'
  <2>1. /\ main'.n = main.n + 1 /\ main'.dirs = main.dirs \cup {c} /\ main'.listed = main.listed \cup {c}
        /\ UNCHANGED <<mode, branches, prs, clone, last>> /\ landed' = landed \cup {c} /\ Disturb
    BY <1>13 DEF SiblingCommit
  <2>2. Extends(main', main) /\ Sound(main') /\ Headed(main')
    BY <2>1, <1>s DEF Extends, Sound, Headed, TreesSound
  <2>3. landed' \subseteq main'.dirs \cap main'.listed /\ PRCarriesEntry'
    BY <2>1, <1>s DEF PRCarriesEntry
  <2>4. job.pc = "open" => job.c \notin prs' /\ \E b \in branches' : b.c = job.c
    BY <2>1, <1>s DEF EntryCarried
  <2> QED BY <2>1, <2>2, <2>3, <2>4, <1>m
<1>14. ASSUME NEW b \in branches, MergePR(b) PROVE PublishInv'
  <2>1. /\ main'.n = main.n + 1 /\ main'.dirs = main.dirs \cup b.dirs /\ main'.listed = main.listed \cup b.listed
        /\ UNCHANGED <<mode, clone, last>> /\ landed' = landed \cup {b.c} /\ Disturb
        /\ branches' = branches \ {b} /\ prs' = prs \ {b.c} /\ b.c \in prs
    BY <1>14 DEF MergePR
  <2>2. Sound(b) /\ Headed(b) /\ Has(b, b.c)
    BY <1>s DEF TreesSound
  <2>3. Extends(main', main) /\ Sound(main')
    BY <2>1, <2>2, <1>s DEF Extends, Sound, TreesSound
  <2>4. Headed(main')
    BY <2>1, <2>2, <1>s DEF Headed, TreesSound
  <2>5. landed' \subseteq main'.dirs \cap main'.listed
    BY <2>1, <2>2, <1>s DEF Has
  <2>6. PRCarriesEntry'
    BY <2>1, <1>s DEF PRCarriesEntry
  <2>7. job.pc = "open" => job.c \notin prs' /\ \E d \in branches' : d.c = job.c
    BY <2>1, <1>s DEF EntryCarried
  <2> QED BY <2>1, <2>3, <2>4, <2>5, <2>6, <2>7, <1>m
<1>15. CASE Fail
  BY <1>15, <1>r DEF Fail
<1> QED
  BY <1>1, <1>2, <1>3, <1>4, <1>5, <1>6, <1>7, <1>8, <1>9, <1>10, <1>11, <1>12, <1>13, <1>14, <1>15
  DEF PublishNext

(* The invariant holds for ever.                                           *)
LEMMA PublishInvariant == PublishSpec => []PublishInv
  BY PublishInitInv, PublishStep, PTL DEF PublishSpec

(* NothingLost, through every re-sync, retry, merge and crash: what        *)
(* somebody was told is on the base branch stays there, listed and with    *)
(* its files, and no tree that leaves the clone lists what it lacks.       *)
THEOREM RegistryLosesNothing == PublishSpec => []NothingLost
<1>1. PublishInv => NothingLost
  BY DEF PublishInv, TreesSound, Sound, NothingLost
<1> QED BY <1>1, PublishInvariant, PTL

(* PRCarriesEntry: the branch of every open pull request holds the files   *)
(* and the listing of the version it proposes.                             *)
THEOREM PullRequestsCarryEntries == PublishSpec => []PRCarriesEntry
<1>1. PublishInv => PRCarriesEntry
  BY DEF PublishInv
<1> QED BY <1>1, PublishInvariant, PTL

(* UndisturbedSucceeds: whatever earlier calls left in the working tree or *)
(* committed without pushing, a direct publish that no commit raced and no *)
(* fault hit fails only for a version that is on the base branch.          *)
THEOREM DirectPublishHeals == PublishSpec => []UndisturbedSucceeds
<1>1. PublishInv => UndisturbedSucceeds
  BY DEF PublishInv
<1> QED BY <1>1, PublishInvariant, PTL

-----------------------------------------------------------------------------
(***************************************************************************)
(* What versionDirExists may find                                          *)
(***************************************************************************)
\* The working tree holds what git tracks, what the call in progress has
\* written, and the debris of calls that ended before git add; and what a
\* call was reset to stays on the base branch.
Unstaged == {c \in {job.c} : job.pc \in {"merge", "stage"}}
DebrisInv ==
    /\ disk.dirs \subseteq index.dirs \cup cutShort \cup Unstaged
    /\ job.pc \in Synced => local.dirs \subseteq main.dirs
    /\ RefusalsExplained

(* Only a sync, a write and git add touch what the working tree holds      *)
(* beyond the index, and the base branch never shrinks under a call.       *)
LEMMA DebrisStep == PublishInv /\ DebrisInv /\ [PublishNext]_publishVars => DebrisInv'
<1> SUFFICES ASSUME PublishInv, DebrisInv, [PublishNext]_publishVars PROVE DebrisInv'
  OBVIOUS
<1> USE DEF remote, clone, At, GoTo
<1>s. /\ disk.dirs \subseteq index.dirs \cup cutShort \cup Unstaged /\ RefusalsExplained
      /\ job.pc \in Synced => local.dirs \subseteq main.dirs /\ index = TreeOf(local)
  BY DEF DebrisInv, PublishInv, CloneBuilds
<1>j. job \in JobRec /\ Idle.pc = "idle"
  BY DEF PublishInv, Shapes, Idle
\* The base branch and the debris only grow, the trees stay as they are, and
\* the call goes on with the same files to stage or returns.
<1>q. ASSUME main.dirs \subseteq main'.dirs, cutShort \subseteq cutShort', UNCHANGED <<disk, index, local>>,
             Unstaged \subseteq Unstaged' \cup cutShort',
             job'.pc \in Synced => job.pc \in Synced,
             \/ UNCHANGED last
             \/ last'.res # "exists"
             \/ last'.c = job.c /\ job.c \in main.dirs \cup cutShort
      PROVE  DebrisInv'
  BY <1>q, <1>s DEF DebrisInv, RefusalsExplained
<1>1. CASE UNCHANGED publishVars
  BY <1>1, <1>q DEF publishVars, Unstaged
<1>2. ASSUME NEW c \in Coord, Publish(c) PROVE DebrisInv'
  <2>1. job'.pc = "sync" /\ job.pc = "idle" /\ UNCHANGED <<main, disk, index, local, last, cutShort>>
    BY <1>2 DEF Publish, Idle
  <2> QED
    BY <2>1, <1>q DEF Unstaged, Synced
<1>3. CASE Sync
  <2>1. job'.pc \in {"exists", "write"} /\ job.pc = "sync" /\ UNCHANGED <<main, last, cutShort>>
    BY <1>3, <1>j DEF Sync, JobRec
  <2>2. disk'.dirs = main.dirs \cup (disk.dirs \ index.dirs) /\ index'.dirs = main.dirs /\ local' = main
    BY <1>3 DEF Sync, ResetHard, TreeOf
  <2> QED
    BY <1>s, <2>1, <2>2 DEF DebrisInv, RefusalsExplained, Unstaged
<1>4. CASE WriteFiles
  <2>1. /\ job.pc = "write" /\ job'.pc = "merge" /\ job'.c = job.c
        /\ UNCHANGED <<main, index, local, last, cutShort>>
    BY <1>4, <1>j DEF WriteFiles, JobRec
  <2>2. disk'.dirs = disk.dirs \cup {job.c}
    BY <1>4 DEF WriteFiles, PublishInv, Shapes, TreeOf
  <2> QED
    BY <1>s, <2>1, <2>2 DEF DebrisInv, RefusalsExplained, Unstaged, Synced
<1>5. CASE MergeMetadata
  <2>1. /\ job.pc = "merge" /\ job'.pc = "stage" /\ job'.c = job.c
        /\ UNCHANGED <<main, index, local, last, cutShort>>
    BY <1>5, <1>j DEF MergeMetadata, JobRec
  <2>2. disk'.dirs = disk.dirs
    BY <1>5 DEF MergeMetadata, PublishInv, Shapes, TreeOf
  <2> QED
    BY <1>s, <2>1, <2>2 DEF DebrisInv, RefusalsExplained, Unstaged, Synced
<1>6. CASE Stage
  <2>1. /\ job.pc = "stage" /\ job'.pc = "commit" /\ UNCHANGED <<main, disk, local, last, cutShort>>
        /\ index'.dirs = index.dirs \cup OfName(disk.dirs, job.c[1])
    BY <1>6, <1>j DEF Stage, JobRec
  <2>2. job.c \in OfName(disk.dirs, job.c[1])
    BY <2>1 DEF PublishInv, EntryCarried, OfName
  <2> QED
    BY <1>s, <2>1, <2>2 DEF DebrisInv, RefusalsExplained, Unstaged, Synced
<1>7. CASE CommitWith
  <2>1. /\ job.pc = "commit" /\ job'.pc \in {"push", "idle"} /\ UNCHANGED <<main, disk, index, cutShort>>
        /\ UNCHANGED last \/ last'.res = "empty"
    BY <1>7, <1>j DEF CommitWith, Return, JobRec
  <2> QED
    BY <1>s, <2>1 DEF DebrisInv, RefusalsExplained, Unstaged, Synced
<1>8. CASE Push
  <2>1. job.pc = "push" /\ UNCHANGED <<disk, index, local, cutShort>>
    BY <1>8 DEF Push
  <2>3. \/ job' = [job EXCEPT !.pc = "sync", !.attempt = 1] /\ UNCHANGED last
        \/ \E res \in {"ok", "fault", "rejected"} : Return(res)
    BY <1>8 DEF Push
  <2>4. job'.pc \in {"sync", "idle"} /\ (UNCHANGED last \/ last'.res # "exists")
    <3>1. CASE job' = [job EXCEPT !.pc = "sync", !.attempt = 1] /\ UNCHANGED last
      BY <1>j, <3>1 DEF JobRec
    <3>2. ASSUME NEW res \in {"ok", "fault", "rejected"}, Return(res)
          PROVE  job'.pc = "idle" /\ last'.res # "exists"
      BY <1>j, <3>2 DEF Return
    <3> QED
      BY <2>3, <3>1, <3>2
  <2>2. main.dirs \subseteq main'.dirs
    BY <1>8 DEF Push, FastForward, Commit, PublishInv, CloneBuilds, Extends
  <2> QED
    BY <1>q, <2>1, <2>2, <2>4 DEF Unstaged, Synced
<1>9. CASE VersionDirExists
  <2>1. /\ job.pc = "exists" /\ job'.pc \in {"idle", "branch"}
        /\ UNCHANGED <<main, disk, index, local, cutShort>>
        /\ UNCHANGED last \/ (last'.c = job.c /\ job.c \in disk.dirs)
    BY <1>9, <1>j DEF VersionDirExists, Return, JobRec
  <2>2. job.c \in disk.dirs => job.c \in main.dirs \cup cutShort
    BY <1>s, <2>1 DEF Unstaged, Synced, TreeOf
  <2> QED
    BY <1>q, <2>1, <2>2 DEF Unstaged, Synced
<1>10. CASE CreateBranch
  <2>1. /\ job.pc = "branch" /\ job'.pc \in {"idle", "write"}
        /\ UNCHANGED <<main, disk, index, local, cutShort>>
        /\ UNCHANGED last \/ last'.res = "branch"
    BY <1>10, <1>j DEF CreateBranch, Return, JobRec
  <2> QED
    BY <1>q, <2>1 DEF Unstaged, Synced
<1>11. CASE PushBranch
  <2>1. /\ job.pc = "push" /\ job'.pc \in {"idle", "open"}
        /\ UNCHANGED <<main, disk, index, local, cutShort>>
        /\ UNCHANGED last \/ last'.res = "rejected"
    BY <1>11, <1>j DEF PushBranch, Return, JobRec
  <2> QED
    BY <1>q, <2>1 DEF Unstaged, Synced
<1>12. CASE OpenPR
  <2>1. /\ job.pc = "open" /\ job'.pc = "idle" /\ UNCHANGED <<main, disk, index, local, cutShort>>
        /\ last'.res \in {"ok", "forge"}
    BY <1>12, <1>j DEF OpenPR, Return
  <2> QED
    BY <1>q, <2>1 DEF Unstaged, Synced
<1>13. ASSUME NEW t, main' = t, main.dirs \subseteq t.dirs, Disturb, UNCHANGED <<disk, index, local, last, cutShort>>
       PROVE  DebrisInv'
  <2>1. job'.pc = job.pc /\ job'.c = job.c
    BY <1>13, <1>j DEF Disturb, JobRec
  <2> QED
    BY <1>q, <1>13, <2>1 DEF Unstaged
<1>14. ASSUME NEW c \in Coord, SiblingCommit(c) PROVE DebrisInv'
  BY <1>13, <1>14 DEF SiblingCommit
<1>15. ASSUME NEW b \in branches, MergePR(b) PROVE DebrisInv'
  BY <1>13, <1>15 DEF MergePR
<1>16. CASE Fail
  <2>1. /\ job'.pc = "idle" /\ UNCHANGED <<main, disk, index, local>> /\ last'.res = "fault"
        /\ cutShort' = IF job.pc = "merge" \/ job.pc = "stage" THEN cutShort \cup {job.c} ELSE cutShort
    BY <1>16, <1>j DEF Fail, Return
  <2> QED
    BY <1>q, <2>1 DEF Unstaged, Synced
<1> QED
  BY <1>1, <1>2, <1>3, <1>4, <1>5, <1>6, <1>7, <1>8, <1>9, <1>10, <1>11, <1>12, <1>14, <1>15, <1>16
  DEF PublishNext

(* RefusalsExplained: for any versions, failures, crashes and merges, a    *)
(* version that GitPRPublisher refuses as existing is on the base branch,  *)
(* or an earlier call for that very version ended between writing its      *)
(* files and staging them.                                                 *)
THEOREM RefusalsStayExplained == PublishSpec => []RefusalsExplained
<1>1. PublishInit => PublishInv /\ DebrisInv
  <2> SUFFICES ASSUME PublishInit PROVE DebrisInv
    BY PublishInitInv
  <2> QED
    BY DEF PublishInit, DebrisInv, RefusalsExplained, Synced, Idle, Bare
<1>2. PublishInv /\ DebrisInv /\ [PublishNext]_publishVars => (PublishInv /\ DebrisInv)'
  BY PublishStep, DebrisStep
<1>3. DebrisInv => RefusalsExplained
  BY DEF DebrisInv
<1> QED
  BY <1>1, <1>2, <1>3, PTL DEF PublishSpec

-----------------------------------------------------------------------------
(***************************************************************************)
(* The base branch only gains entries                                      *)
(***************************************************************************)
\* Whatever a tree holds was asked for by a call or came with a commit.
InCoord ==
    /\ UNION {main.dirs, disk.dirs, index.dirs, local.dirs} \subseteq Coord
    /\ \A b \in branches : b.dirs \subseteq Coord
    /\ job.pc # "idle" => job.c \in Coord

(* Files move from tree to tree and enter by a call or a commit.           *)
LEMMA StepInCoord == PublishInv /\ InCoord /\ [PublishNext]_publishVars => InCoord'
<1> SUFFICES ASSUME PublishInv, InCoord, [PublishNext]_publishVars PROVE InCoord'
  OBVIOUS
<1> USE DEF remote, clone, At, GoTo, InCoord
<1>j. job \in JobRec /\ Idle.pc = "idle"
  BY DEF PublishInv, Shapes, Idle
\* The trees stay as they are and the call goes on or returns.
<1>q. ASSUME UNCHANGED <<main, branches, disk, index, local>>,
             job'.pc = "idle" \/ (job'.c = job.c /\ job.pc # "idle")
      PROVE  InCoord'
  BY <1>q
<1>1. CASE UNCHANGED publishVars
  BY <1>1 DEF publishVars
<1>2. ASSUME NEW c \in Coord, Publish(c) PROVE InCoord'
  BY <1>2 DEF Publish, Idle
<1>3. CASE Sync
  <2>1. /\ job'.c = job.c /\ job.pc = "sync" /\ UNCHANGED <<main, branches>>
        /\ disk'.dirs = main.dirs \cup (disk.dirs \ index.dirs) /\ index'.dirs = main.dirs /\ local' = main
    BY <1>3, <1>j DEF Sync, ResetHard, TreeOf, JobRec
  <2> QED
    BY <2>1
<1>4. CASE WriteFiles
  <2>1. /\ job'.c = job.c /\ job.pc = "write" /\ UNCHANGED <<main, branches, index, local>>
        /\ disk'.dirs = disk.dirs \cup {job.c}
    BY <1>4, <1>j DEF WriteFiles, PublishInv, Shapes, TreeOf, JobRec
  <2> QED
    BY <2>1
<1>5. CASE MergeMetadata
  <2>1. /\ job'.c = job.c /\ job.pc = "merge" /\ UNCHANGED <<main, branches, index, local>>
        /\ disk'.dirs = disk.dirs
    BY <1>5, <1>j DEF MergeMetadata, PublishInv, Shapes, TreeOf, JobRec
  <2> QED
    BY <2>1
<1>6. CASE Stage
  <2>1. /\ job'.c = job.c /\ job.pc = "stage" /\ UNCHANGED <<main, branches, disk, local>>
        /\ index'.dirs = index.dirs \cup OfName(disk.dirs, job.c[1])
    BY <1>6, <1>j DEF Stage, JobRec
  <2> QED
    BY <2>1 DEF OfName
<1>7. CASE CommitWith
  <2>1. job'.pc = "idle" \/ (job'.c = job.c /\ job.pc # "idle")
    BY <1>7, <1>j DEF CommitWith, Return, JobRec
  <2>2. UNCHANGED <<main, branches, disk, index>> /\ (local' = Commit(local.n, index) \/ UNCHANGED local)
    BY <1>7 DEF CommitWith
  <2> QED
    BY <2>1, <2>2 DEF Commit
<1>8. CASE Push
  <2>1. \/ job' = [job EXCEPT !.pc = "sync", !.attempt = 1] /\ job.pc # "idle"
        \/ job' = Idle
    BY <1>8 DEF Push, Return
  <2>2. job'.pc = "idle" \/ (job'.c = job.c /\ job.pc # "idle")
    BY <1>j, <2>1 DEF JobRec
  <2>3. UNCHANGED <<branches, disk, index, local>> /\ (main' = Commit(main.n + 1, local) \/ UNCHANGED main)
    BY <1>8 DEF Push
  <2> QED
    BY <2>2, <2>3 DEF Commit
<1>9. CASE VersionDirExists \/ CreateBranch \/ Fail \/ OpenPR
  <2>1. \/ job'.pc = "idle"
        \/ \E p \in {"branch", "write"} : job' = [job EXCEPT !.pc = p] /\ job.pc # "idle"
    BY <1>9, <1>j DEF VersionDirExists, CreateBranch, Fail, OpenPR, Return
  <2>2. job'.pc = "idle" \/ (job'.c = job.c /\ job.pc # "idle")
    BY <1>j, <2>1 DEF JobRec
  <2>3. UNCHANGED <<main, branches, disk, index, local>>
    BY <1>9 DEF VersionDirExists, CreateBranch, Fail, OpenPR
  <2> QED
    BY <1>q, <2>2, <2>3
<1>10. CASE PushBranch
  <2>1. \/ job'.pc = "idle"
        \/ job' = [job EXCEPT !.pc = "open"] /\ job.pc # "idle"
    BY <1>10, <1>j DEF PushBranch, Return
  <2>2. job'.pc = "idle" \/ (job'.c = job.c /\ job.pc # "idle")
    BY <1>j, <2>1 DEF JobRec
  <2>3. /\ UNCHANGED <<main, disk, index, local>>
        /\ \A b \in branches' : b \in branches \/ b.dirs = local.dirs
    BY <1>10 DEF PushBranch
  <2> QED
    BY <2>2, <2>3
<1>11. ASSUME Disturb PROVE job'.pc = job.pc /\ job'.c = job.c
  BY <1>11, <1>j DEF Disturb, JobRec
<1>12. ASSUME NEW c \in Coord, SiblingCommit(c) PROVE InCoord'
  BY <1>11, <1>12 DEF SiblingCommit
<1>13. ASSUME NEW b \in branches, MergePR(b) PROVE InCoord'
  BY <1>11, <1>13 DEF MergePR
<1> QED
  BY <1>1, <1>2, <1>3, <1>4, <1>5, <1>6, <1>7, <1>8, <1>9, <1>10, <1>12, <1>13 DEF PublishNext

(* A step lands a commit that holds all the branch held, or leaves the     *)
(* branch and what was announced as they are.                              *)
LEMMA StepGains ==
    PublishInv /\ InCoord' /\ [PublishNext]_publishVars
        => [\E S \in SUBSET Coord : History!Land(S)]_(History!historyVars)
<1> SUFFICES ASSUME PublishInv, InCoord', [PublishNext]_publishVars,
                    ~UNCHANGED History!historyVars
             PROVE  \E S \in SUBSET Coord : History!Land(S)
  OBVIOUS
<1> DEFINE E == main.dirs \cap main.listed
<1> USE DEF remote, clone, At, GoTo
<1>h. ~UNCHANGED <<E, landed>>
  BY DEF History!historyVars
<1>c. E' \subseteq Coord
  BY DEF InCoord
\* A commit that keeps what is there and announces nothing it lacks.
<1>l. ASSUME Extends(main', main), UNCHANGED landed \/ \E c \in E' : landed' = landed \cup {c}
      PROVE  \E S \in SUBSET Coord : History!Land(S)
  <2>1. E' = E \cup E'
    BY <1>l DEF Extends
  <2>2. History!Land(E')
    BY <1>l, <2>1 DEF History!Land
  <2> QED
    BY <1>c, <2>2
<1>1. CASE Push
  <2>1. FastForward /\ main' = Commit(main.n + 1, local)
    BY <1>1, <1>h DEF Push
  <2>2. Extends(local, main) /\ Has(local, job.c)
    BY <1>1, <2>1 DEF Push, FastForward, PublishInv, CloneBuilds, EntryCarried
  <2>3. main'.dirs = local.dirs /\ main'.listed = local.listed
    BY <2>1 DEF Commit
  <2>4. UNCHANGED landed \/ landed' = landed \cup {job.c}
    BY <1>1 DEF Push
  <2>5. Extends(main', main) /\ job.c \in E'
    BY <2>2, <2>3 DEF Extends, Has
  <2> QED
    BY <1>l, <2>4, <2>5
<1>2. ASSUME NEW c \in Coord, SiblingCommit(c) PROVE \E S \in SUBSET Coord : History!Land(S)
  <2>1. /\ main'.dirs = main.dirs \cup {c} /\ main'.listed = main.listed \cup {c}
        /\ landed' = landed \cup {c}
    BY <1>2 DEF SiblingCommit
  <2>2. Extends(main', main) /\ c \in E'
    BY <2>1 DEF Extends
  <2> QED
    BY <1>l, <2>1, <2>2
<1>3. ASSUME NEW b \in branches, MergePR(b) PROVE \E S \in SUBSET Coord : History!Land(S)
  <2>1. /\ main'.dirs = main.dirs \cup b.dirs /\ main'.listed = main.listed \cup b.listed
        /\ landed' = landed \cup {b.c}
    BY <1>3 DEF MergePR
  <2>2. Has(b, b.c)
    BY DEF PublishInv, TreesSound
  <2>3. Extends(main', main) /\ b.c \in E'
    BY <2>1, <2>2 DEF Extends, Has
  <2> QED
    BY <1>l, <2>1, <2>3
<1>4. CASE UNCHANGED <<main, landed>>
  BY <1>4, <1>h
<1>5. ASSUME NEW c \in Coord, Publish(c) PROVE UNCHANGED <<main, landed>>
  BY <1>5 DEF Publish
<1>6. CASE Sync \/ WriteFiles \/ MergeMetadata \/ Stage
  <2>1. UNCHANGED <<main, landed>>
    BY <1>6 DEF Sync, WriteFiles, MergeMetadata, Stage
  <2> QED
    BY <1>4, <2>1
<1>7. CASE CommitWith \/ VersionDirExists \/ CreateBranch
  <2>1. UNCHANGED <<main, landed>>
    BY <1>7 DEF CommitWith, VersionDirExists, CreateBranch
  <2> QED
    BY <1>4, <2>1
<1>8. CASE PushBranch \/ OpenPR \/ Fail
  <2>1. UNCHANGED <<main, landed>>
    BY <1>8 DEF PushBranch, OpenPR, Fail
  <2> QED
    BY <1>4, <2>1
<1>9. CASE UNCHANGED publishVars
  BY <1>4, <1>9 DEF publishVars
<1> QED
  BY <1>1, <1>2, <1>3, <1>4, <1>5, <1>6, <1>7, <1>8, <1>9 DEF PublishNext

(* ImplementsHistory: the publishers, their clone, the other committers    *)
(* and the forge implement RegistryHistory, where main.dirs and            *)
(* main.listed together are what a build can resolve: no push, re-sync,    *)
(* retry, merge or crash takes an entry back.                              *)
THEOREM PublishRefines == PublishSpec => ImplementsHistory
<1>1. PublishInit => History!HistoryInit
  BY DEF PublishInit, Commit, Bare, History!HistoryInit
<1>2. PublishInit => InCoord
  BY DEF PublishInit, InCoord, Commit, Bare, Idle
<1>3. PublishInv /\ InCoord /\ [PublishNext]_publishVars => InCoord'
  BY StepInCoord
<1>4. PublishInv /\ InCoord' /\ [PublishNext]_publishVars
          => [\E S \in SUBSET Coord : History!Land(S)]_(History!historyVars)
  BY StepGains
<1> QED
  BY <1>1, <1>2, <1>3, <1>4, PublishInvariant, PTL DEF PublishSpec, ImplementsHistory, History!HistorySpec

-----------------------------------------------------------------------------
(* What others see of the clone's work is whole: nothing that landed is    *)
(* lost (push, syncToRemoteTip) and a pull request carries its entry.      *)
THEOREM EntriesStaySafe == PublishSpec => []EntriesSafe
<1>1. NothingLost /\ PRCarriesEntry => EntriesSafe
  BY DEF EntriesSafe
<1> QED BY <1>1, RegistryLosesNothing, PullRequestsCarryEntries, PTL

(* A version is turned down for a reason of its own, with either strategy  *)
(* (commitWith, push, versionDirExists).                                   *)
THEOREM RefusalsStayJustified == PublishSpec => []RefusalsJustified
<1>1. UndisturbedSucceeds /\ RefusalsExplained => RefusalsJustified
  BY DEF RefusalsJustified
<1> QED BY <1>1, DirectPublishHeals, RefusalsStayExplained, PTL
=============================================================================
