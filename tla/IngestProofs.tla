---------------------------- MODULE IngestProofs ----------------------------
(***************************************************************************)
(* Proofs about Ingest, for any number of bumps, walk workers, refreshes   *)
(* and reindexes over any modules and versions, with or without faults:    *)
(* the tree is always servable, rows are mirrored, has_source_index        *)
(* settles, and a walk loses no listing.                                   *)
(***************************************************************************)
EXTENDS MCIngest, TLAPS

(***************************************************************************)
(* The inductive invariant of the tree and the index                       *)
(***************************************************************************)
\* The coordinates that may be listed or indexed: those whose files are in the
\* tree, and the placeholder of an archive that declares no version.
Servable(c) == c \in Whole \/ (Placeholder # {} /\ c[2] = HEAD)

\* Where each kind of thread can be.
Role(t) ==
    /\ t \in Bumpers => thr[t].pc # "next"
    /\ t \in Walkers => thr[t].pc \in {"idle", "fetch", "blob", "source", "module", "lock", "merge"}
    /\ t \in Refreshers => thr[t].pc \in {"idle", "next", "lock", "merge"}
    /\ t \in Reindexers => thr[t].pc \in {"idle", "next", "scip", "flag"}

\* A writer's files are in the tree as far as it has come ...
Written(t) ==
    t \in Bumpers \cup Walkers =>
        /\ thr[t].pc # "idle" => thr[t].c[2] \in Versions
        /\ thr[t].pc \notin {"idle", "fetch", "blob"} => thr[t].c \in blobs
        /\ thr[t].pc \notin {"idle", "fetch", "blob", "source"} => thr[t].c \in sources
        /\ thr[t].pc \notin {"idle", "fetch", "blob", "source", "module"} => thr[t].c \in modfiles \cup EmptyModule
\* ... a refresh merges what it read from the index ...
Refreshed(t) ==
    t \in Refreshers =>
        /\ thr[t].pc = "next" => \A d \in thr[t].todo : Servable(d)
        /\ thr[t].pc \in {"lock", "merge"} =>
               Servable(thr[t].c) /\ \A d \in thr[t].todo : Servable(d)
\* ... and a merge starts from what metadata.json listed.
Merging(t) ==
    thr[t].pc = "merge" => \A v \in thr[t].seen : Servable(<<thr[t].c[1], v>>)

\* A reindex works on what has a blob, and no placeholder has one.
Reindexed(t) ==
    t \in Reindexers =>
        /\ \A d \in thr[t].todo : d[2] \in Versions
        /\ thr[t].pc \in {"scip", "flag"} => thr[t].c[2] \in Versions

Holds(t) == Role(t) /\ Written(t) /\ Refreshed(t) /\ Merging(t) /\ Reindexed(t)

RowsServable == \A c \in rows : Servable(c)
BlobsCanonical == \A c \in scip : c[2] \in Versions
ListedServable == \A n \in Names : \A v \in versions[n] : Servable(<<n, v>>)

TreeInv ==
    /\ IngestTypeOK
    /\ \A t \in Threads : Holds(t)
    /\ RowsServable /\ ListedServable /\ BlobsCanonical

(***************************************************************************)
(* The inductive invariant of has_source_index.  Two bumps of a coordinate *)
(* and a reindex overlap freely; what makes the flag right in the end is   *)
(* that whoever replaced the row stores a blob after it, and whoever       *)
(* stores a blob sets the flag after it.                                   *)
(***************************************************************************)
\* A thread that will still store the blob of c, and one that will set its flag.
WillIndex(c) == \E t \in Threads : thr[t].pc \in {"canonical", "hydrate", "scip"} /\ thr[t].c = c
WillFlag(c) == \E t \in Threads : thr[t].pc = "flag" /\ thr[t].c = c
FlagRight(c) == c \in flag <=> c \in scip /\ c[1] \in Starlark

FlagInv ==
    ~failed =>
        /\ \A c \in Coord : FlagRight(c) \/ WillIndex(c) \/ (c \in scip /\ WillFlag(c))
        /\ \A t \in Threads : thr[t].pc = "flag" => thr[t].c \in scip \/ WillIndex(thr[t].c)

(***************************************************************************)
(* The inductive invariant of one walk: its workers hold the per-name lock *)
(* one at a time, so what the holder read is what the file still says.     *)
(***************************************************************************)
LockExclusive ==
    \A t, u \in Walkers : t # u /\ thr[t].pc = "merge" /\ thr[u].pc = "merge" => thr[t].c[1] # thr[u].c[1]
ReadCurrent == \A t \in Walkers : thr[t].pc = "merge" => thr[t].seen = versions[thr[t].c[1]]
WalkInv == LockExclusive /\ ReadCurrent /\ MirroredStaysListed

OthersIdle == \A t \in Bumpers \cup Refreshers : thr[t].pc = "idle"

-----------------------------------------------------------------------------
ThreadRec == [pc : PC, c : Coord, seen : SUBSET (Versions \cup {HEAD}), todo : SUBSET Coord]

(* Coordinates exist, so the idle record is one of the thread records.     *)
LEMMA IdleIsThread == Idle \in ThreadRec /\ Idle.pc = "idle" /\ Idle.todo = {}
<1>1. \E c \in Coord : TRUE
  <2>1. PICK n \in Names : TRUE
    BY IngestAssumption
  <2>2. <<n, HEAD>> \in Coord
    BY DEF Coord
  <2> QED BY <2>2
<1>2. (CHOOSE c \in Coord : TRUE) \in Coord
  BY <1>1
<1> QED
  BY <1>2 DEF Idle, ThreadRec, PC

(* Every step keeps the types.                                             *)
LEMMA TypeStep == IngestTypeOK /\ [IngestNext]_ingestVars => IngestTypeOK'
<1> SUFFICES ASSUME IngestTypeOK, [IngestNext]_ingestVars PROVE IngestTypeOK'
  OBVIOUS
<1> DEFINE V == Versions \cup {HEAD}
           SV == SUBSET V
           SC == SUBSET Coord
<1>t. thr \in [Threads -> ThreadRec]
  BY DEF IngestTypeOK, ThreadRec
<1>r. ThreadRec = [pc : PC, c : Coord, seen : SV, todo : SC]
  BY DEF ThreadRec
<1>v. \A n \in Names : versions[n] \in SV
  BY DEF IngestTypeOK
<1>c. \A d \in Coord : d[1] \in Names /\ d[2] \in V
  BY DEF Coord
<1>s. rows \in SC /\ scip \in SC /\ \A S \in SC, d \in Coord : S \ {d} \in SC
  BY DEF IngestTypeOK
<1>l. Latest \in SC
  BY DEF Latest, IngestTypeOK
<1>p. PC = {"idle", "fetch", "blob", "source", "module", "lock", "merge", "report",
            "canonical", "hydrate", "scip", "flag", "size", "next"}
  BY DEF PC
<1>a. ASSUME thr' \in [Threads -> ThreadRec],
             blobs' \subseteq Coord, sources' \subseteq Coord, modfiles' \subseteq Coord,
             versions' \in [Names -> SV], rows' \subseteq Coord,
             scip' \subseteq rows', flag' \subseteq rows', sized' \subseteq rows',
             done' \subseteq Coord, failed' \in BOOLEAN, booted' \in BOOLEAN
      PROVE  IngestTypeOK'
  BY <1>a DEF IngestTypeOK, ThreadRec
<1>b. /\ blobs \subseteq Coord /\ sources \subseteq Coord /\ modfiles \subseteq Coord
      /\ versions \in [Names -> SV] /\ rows \subseteq Coord
      /\ scip \subseteq rows /\ flag \subseteq rows /\ sized \subseteq rows
      /\ done \subseteq Coord /\ failed \in BOOLEAN /\ booted \in BOOLEAN
  BY DEF IngestTypeOK
<1>h. Names \X {HEAD} \subseteq Coord
  BY DEF Coord
<1> HIDE DEF V, SV, SC, IngestTypeOK
<1> USE DEF tree, index, At, GoTo, Return
<1> USE IdleIsThread
<1>1. CASE UNCHANGED ingestVars
  BY <1>1, <1>a, <1>b, <1>t DEF ingestVars
<1>2. ASSUME NEW t \in Threads, NEW c \in Coord, Start(t, c) PROVE IngestTypeOK'
  <2>1. thr' \in [Threads -> ThreadRec]
    BY <1>2, <1>t, <1>r, <1>p DEF Start
  <2> QED BY <1>2, <1>a, <1>b, <2>1 DEF Start
<1>3. ASSUME NEW t \in Threads, MirrorStep(t) PROVE IngestTypeOK'
  <2>0. \A p \in PC : [thr EXCEPT ![t].pc = p] \in [Threads -> ThreadRec]
    BY <1>t, <1>r
  <2>i. [thr EXCEPT ![t] = Idle] \in [Threads -> ThreadRec]
    BY <1>t
  <2>c. thr[t].c \in Coord /\ thr[t].c[1] \in Names /\ thr[t].seen \in SV
    BY <1>t, <1>r, <1>c
  <2>1. CASE Fetch(t)
    BY <2>1, <1>a, <1>b, <2>0, <1>p DEF Fetch
  <2>2. CASE BlobClose(t)
    BY <2>2, <1>a, <1>b, <2>0, <1>p, <2>c DEF BlobClose
  <2>3. CASE WriteSource(t)
    BY <2>3, <1>a, <1>b, <2>0, <1>p, <2>c DEF WriteSource
  <2>4. CASE WriteModuleBazel(t)
    BY <2>4, <1>a, <1>b, <2>0, <1>p, <2>c DEF WriteModuleBazel
  <2>5. CASE MergeRead(t)
    <3>1. thr' \in [Threads -> ThreadRec]
      BY <2>5, <1>t, <1>r, <1>p, <2>c, <1>v DEF MergeRead
    <3> QED BY <2>5, <1>a, <1>b, <3>1 DEF MergeRead
  <2>6. CASE MergeWrite(t)
    <3>1. thr[t].seen \cup {thr[t].c[2]} \in SV
      BY <2>c, <1>c DEF SV
    <3>2. versions' \in [Names -> SV]
      BY <2>6, <3>1, <1>b, <2>c DEF MergeWrite
    <3>3. thr' \in [Threads -> ThreadRec] /\ done' \subseteq Coord
      BY <2>6, <2>0, <2>i, <1>p, <1>b, <2>c DEF MergeWrite
    <3> QED BY <2>6, <1>a, <1>b, <3>2, <3>3 DEF MergeWrite
  <2> QED BY <1>3, <2>1, <2>2, <2>3, <2>4, <2>5, <2>6 DEF MirrorStep
<1>4. ASSUME NEW t \in Threads, IndexStep(t) PROVE IngestTypeOK'
  <2>0. \A p \in PC : [thr EXCEPT ![t].pc = p] \in [Threads -> ThreadRec]
    BY <1>t, <1>r
  <2>i. [thr EXCEPT ![t] = Idle] \in [Threads -> ThreadRec]
    BY <1>t
  <2>c. thr[t].c \in Coord /\ <<thr[t].c[1], HEAD>> \in Coord
    BY <1>t, <1>r, <1>c, <1>h
  <2>w. ASSUME NEW d \in Coord, WriteReport(d)
        PROVE  rows' \subseteq Coord /\ scip' \subseteq rows' /\ flag' \subseteq rows' /\ sized' \subseteq rows'
    BY <2>w, <1>b DEF WriteReport
  <2>1. CASE Report(t)
    BY <2>1, <1>a, <1>b, <2>0, <1>p, <2>c, <2>w DEF Report
  <2>2. CASE Canonical(t)
    BY <2>2, <1>a, <1>b, <2>0, <1>p, <2>c, <2>w DEF Canonical
  <2>3. CASE Hydrate(t)
    BY <2>3, <1>a, <1>b, <2>0, <1>p, <2>c, <2>w DEF Hydrate
  <2>4. CASE WriteScipBlob(t)
    BY <2>4, <1>a, <1>b, <2>0, <1>p, <2>c DEF WriteScipBlob
  <2>5. CASE SetHasSourceIndex(t)
    BY <2>5, <1>a, <1>b, <2>0, <1>p, <2>c DEF SetHasSourceIndex
  <2>6. CASE SetTarballSize(t)
    BY <2>6, <1>a, <1>b, <2>i, <1>p, <2>c DEF SetTarballSize
  <2> QED BY <1>4, <2>1, <2>2, <2>3, <2>4, <2>5, <2>6 DEF IndexStep
<1>5. ASSUME NEW t \in Threads, StartRefresh(t) \/ StartReindex(t) PROVE IngestTypeOK'
  <2>1. thr' \in [Threads -> ThreadRec]
    BY <1>5, <1>t, <1>r, <1>p, <1>l, <1>s DEF StartRefresh, StartReindex
  <2> QED BY <1>5, <1>a, <1>b, <2>1 DEF StartRefresh, StartReindex
<1>6. ASSUME NEW t \in Threads, NextItem(t) PROVE IngestTypeOK'
  <2>1. CASE thr[t].todo = {} /\ Return(t)
    <3>1. thr' \in [Threads -> ThreadRec]
      BY <2>1, <1>t
    <3> QED BY <1>6, <1>a, <1>b, <3>1 DEF NextItem
  <2>2. ASSUME NEW c \in thr[t].todo,
               thr' = [thr EXCEPT ![t].c = c, ![t].todo = @ \ {c},
                                ![t].pc = IF ~Usable(t, c) THEN "next"
                                          ELSE IF t \in Refreshers THEN "lock" ELSE "scip"]
        PROVE IngestTypeOK'
    <3>0. thr[t] \in ThreadRec /\ thr[t].todo \in SC
      BY <1>t, <1>r
    <3>1. c \in Coord
      BY <3>0 DEF SC
    <3>2. thr[t].todo \ {c} \in SC
      BY <3>0, <3>1, <1>s
    <3>4. thr' \in [Threads -> ThreadRec]
      BY <2>2, <3>1, <3>2, <1>t, <1>r, <1>p
    <3> QED BY <1>6, <1>a, <1>b, <3>4 DEF NextItem
  <2> QED BY <1>6, <2>1, <2>2 DEF NextItem
<1>7. ASSUME NEW t \in Threads, Fail(t) PROVE IngestTypeOK'
  <2>1. thr' \in [Threads -> ThreadRec]
    BY <1>7, <1>t DEF Fail
  <2> QED BY <1>7, <1>a, <1>b, <2>1 DEF Fail
<1>8. CASE Boot
  BY <1>8, <1>a, <1>b, <1>t DEF Boot
<1> QED
  BY <1>1, <1>2, <1>3, <1>4, <1>5, <1>6, <1>7, <1>8 DEF IngestNext

(* Nothing is ever removed from the tree.                                  *)
LEMMA TreeGrows ==
    IngestNext \/ UNCHANGED ingestVars => /\ blobs \subseteq blobs' /\ sources \subseteq sources'
                                         /\ modfiles \subseteq modfiles'
                                         /\ \A c : Servable(c) => Servable(c)'
  BY DEF IngestNext, ingestVars, Start, MirrorStep, IndexStep, Fetch, BlobClose, WriteSource,
         WriteModuleBazel, MergeRead, MergeWrite, Report, Canonical, Hydrate, WriteScipBlob,
         SetHasSourceIndex, SetTarballSize, StartRefresh, StartReindex, NextItem, Fail, Boot,
         tree, Servable, Whole

(* What a thread that takes a step leaves alone: the records of the others.*)
LEMMA OthersUnchanged ==
    ASSUME IngestTypeOK, NEW t \in Threads, NEW u \in Threads, u # t,
           \/ \E c \in Coord : Start(t, c)
           \/ MirrorStep(t) \/ IndexStep(t)
           \/ StartRefresh(t) \/ StartReindex(t) \/ NextItem(t) \/ Fail(t)
    PROVE  thr'[u] = thr[u]
  BY DEF IngestTypeOK, Start, MirrorStep, IndexStep, Fetch, BlobClose, WriteSource,
         WriteModuleBazel, MergeRead, MergeWrite, Report, Canonical, Hydrate, WriteScipBlob,
         SetHasSourceIndex, SetTarballSize, StartRefresh, StartReindex, NextItem, Fail,
         GoTo, Return

(* Every step keeps the tree servable, with what that rests on.            *)
LEMMA TreeStep == TreeInv /\ [IngestNext]_ingestVars => TreeInv'
<1> SUFFICES ASSUME TreeInv, [IngestNext]_ingestVars PROVE TreeInv'
  OBVIOUS
<1>g. /\ blobs \subseteq blobs' /\ sources \subseteq sources' /\ modfiles \subseteq modfiles'
      /\ \A c : Servable(c) => Servable(c)'
  BY TreeGrows
<1>y. IngestTypeOK'
  BY TypeStep DEF TreeInv
<1>t. thr \in [Threads -> ThreadRec]
  BY DEF TreeInv, IngestTypeOK, ThreadRec
<1>r. \A d \in Coord : d = <<d[1], d[2]>> /\ d[1] \in Names
  BY DEF Coord
<1>k. /\ \A t \in Bumpers : t \notin Walkers /\ t \notin Refreshers /\ t \notin Reindexers
      /\ \A t \in Walkers : t \notin Refreshers /\ t \notin Reindexers
      /\ \A t \in Refreshers : t \notin Reindexers
  BY ThreadsDisjoint
\* The records of the other threads and a smaller tree say no less.
<1>o. ASSUME NEW u \in Threads, thr'[u] = thr[u] PROVE Holds(u)'
  BY <1>g, <1>o DEF TreeInv, Holds, Role, Written, Refreshed, Merging, Reindexed
<1>m. ASSUME UNCHANGED rows, UNCHANGED versions, UNCHANGED scip
      PROVE  RowsServable' /\ ListedServable' /\ BlobsCanonical'
  BY <1>g, <1>m DEF TreeInv, RowsServable, ListedServable, BlobsCanonical
<1>e. ASSUME NEW t \in Threads,
             \/ \E c \in Coord : Start(t, c)
             \/ MirrorStep(t) \/ IndexStep(t)
             \/ StartRefresh(t) \/ StartReindex(t) \/ NextItem(t) \/ Fail(t),
             Holds(t)', RowsServable', ListedServable', BlobsCanonical'
      PROVE  TreeInv'
  <2>1. ASSUME NEW u \in Threads PROVE Holds(u)'
    <3>1. CASE u = t
      BY <3>1, <1>e
    <3>2. CASE u # t
      BY <3>2, <1>e, <1>o, OthersUnchanged DEF TreeInv
    <3> QED BY <3>1, <3>2
  <2> QED BY <1>e, <1>y, <2>1 DEF TreeInv
<1>f. ASSUME NEW t \in Threads, thr' = [thr EXCEPT ![t] = Idle] PROVE Holds(t)'
  BY <1>f, <1>t, IdleIsThread DEF Holds, Role, Written, Refreshed, Merging, Reindexed
<1> USE DEF tree, index, At, GoTo, Return
<1>1. CASE UNCHANGED ingestVars
  BY <1>1, <1>y, <1>o, <1>m DEF ingestVars, TreeInv
<1>2. ASSUME NEW t \in Threads, NEW c \in Coord, Start(t, c) PROVE TreeInv'
  <2>1. Holds(t)'
    BY <1>2, <1>t, <1>k DEF Start, Holds, Role, Written, Refreshed, Merging, Reindexed
  <2> QED BY <2>1, <1>2, <1>m, <1>e DEF Start
<1>3. ASSUME NEW t \in Threads, MirrorStep(t) PROVE TreeInv'
  <2>0. Holds(t) /\ thr[t] \in ThreadRec
    BY <1>t DEF TreeInv
  <2>1. CASE Fetch(t)
    <3>1. Holds(t)'
      BY <2>1, <2>0, <1>t, <1>k, <1>g DEF Fetch, Holds, Role, Written, Refreshed, Merging, Reindexed
    <3> QED BY <3>1, <2>1, <1>3, <1>m, <1>e DEF Fetch
  <2>2. CASE BlobClose(t)
    <3>1. Holds(t)'
      BY <2>2, <2>0, <1>t, <1>k, <1>g DEF BlobClose, Holds, Role, Written, Refreshed, Merging, Reindexed
    <3> QED BY <3>1, <2>2, <1>3, <1>m, <1>e DEF BlobClose
  <2>3. CASE WriteSource(t)
    <3>1. Holds(t)'
      BY <2>3, <2>0, <1>t, <1>k, <1>g DEF WriteSource, Holds, Role, Written, Refreshed, Merging, Reindexed
    <3> QED BY <3>1, <2>3, <1>3, <1>m, <1>e DEF WriteSource
  <2>4. CASE WriteModuleBazel(t)
    <3>1. Holds(t)'
      BY <2>4, <2>0, <1>t, <1>k, <1>g DEF WriteModuleBazel, Holds, Role, Written, Refreshed, Merging, Reindexed
    <3> QED BY <3>1, <2>4, <1>3, <1>m, <1>e DEF WriteModuleBazel
  <2>5. CASE MergeRead(t)
    <3>c. thr[t].c \in Coord /\ thr[t].c[1] \in Names
      BY <2>0, <1>r DEF ThreadRec
    <3>r. /\ thr'[t].pc = "merge" /\ thr'[t].seen = versions[thr[t].c[1]]
          /\ thr'[t].c = thr[t].c /\ thr'[t].todo = thr[t].todo
      BY <2>5, <1>t DEF MergeRead, ThreadRec
    <3>s. ASSUME NEW v \in versions[thr[t].c[1]] PROVE Servable(<<thr[t].c[1], v>>)'
      <4>1. Servable(<<thr[t].c[1], v>>)
        BY <3>c DEF TreeInv, ListedServable
      <4>2. thr'[t].c[1] = thr[t].c[1]
        BY <3>r
      <4> QED BY <4>1, <4>2, <1>g DEF Servable, Whole
    <3>1. Merging(t)'
      BY <3>r, <3>s DEF Merging
    <3>2. Role(t)' /\ Written(t)' /\ Refreshed(t)' /\ Reindexed(t)'
      BY <2>5, <2>0, <3>r, <1>k, <1>g DEF MergeRead, Holds, Role, Written, Refreshed, Reindexed, Servable, Whole
    <3>3. Holds(t)'
      BY <3>1, <3>2 DEF Holds
    <3> QED BY <3>3, <2>5, <1>3, <1>m, <1>e DEF MergeRead
  <2>6. CASE MergeWrite(t)
    <3>c. thr[t].c \in Coord /\ thr[t].c[1] \in Names /\ thr[t].c = <<thr[t].c[1], thr[t].c[2]>>
      BY <2>0, <1>r DEF ThreadRec
    <3>s. Servable(thr[t].c) /\ \A v \in thr[t].seen : Servable(<<thr[t].c[1], v>>)
      BY <2>6, <2>0 DEF MergeWrite, Holds, Role, Written, Refreshed, Merging, Reindexed, Servable, Whole, Threads
    <3>l. ListedServable'
      <4> SUFFICES ASSUME NEW n \in Names, NEW v \in versions'[n] PROVE Servable(<<n, v>>)'
        BY DEF ListedServable
      <4>1. CASE n = thr[t].c[1]
        <5>1. v \in thr[t].seen \cup {thr[t].c[2]}
          BY <4>1, <2>6, <3>c DEF MergeWrite, TreeInv, IngestTypeOK
        <5>2. Servable(<<n, v>>)
          BY <4>1, <5>1, <3>s, <3>c
        <5> QED BY <5>2, <1>g
      <4>2. CASE n # thr[t].c[1]
        <5>1. v \in versions[n]
          BY <4>2, <2>6, <3>c DEF MergeWrite, TreeInv, IngestTypeOK
        <5> QED BY <5>1, <1>g DEF TreeInv, ListedServable
      <4> QED BY <4>1, <4>2
    <3>w. RowsServable' /\ BlobsCanonical'
      BY <2>6, <1>g DEF MergeWrite, TreeInv, RowsServable, BlobsCanonical
    <3>1. Holds(t)'
      <4>1. CASE t \in Walkers
        BY <4>1, <2>6, <1>k, <1>f DEF MergeWrite
      <4>2. CASE t \in Bumpers
        <5>1. thr'[t].pc = "report" /\ thr'[t].c = thr[t].c
          BY <4>2, <2>6, <1>t, <1>k DEF MergeWrite, ThreadRec
        <5> QED BY <4>2, <5>1, <2>6, <2>0, <1>k, <1>g DEF MergeWrite, Holds, Role, Written, Refreshed, Merging, Reindexed
      <4>3. CASE t \in Refreshers
        <5>1. thr'[t].pc = "next" /\ thr'[t].todo = thr[t].todo
          BY <4>3, <2>6, <1>t, <1>k DEF MergeWrite, ThreadRec
        <5> QED BY <4>3, <5>1, <2>6, <2>0, <1>k, <1>g DEF MergeWrite, Holds, Role, Written, Refreshed, Merging, Reindexed
      <4> QED BY <4>1, <4>2, <4>3, <2>6 DEF MergeWrite
    <3> QED BY <3>1, <3>l, <3>w, <1>3, <1>e
  <2> QED BY <1>3, <2>1, <2>2, <2>3, <2>4, <2>5, <2>6 DEF MirrorStep
<1>4. ASSUME NEW t \in Threads, IndexStep(t) PROVE TreeInv'
  <2>0. Holds(t) /\ thr[t] \in ThreadRec
    BY <1>t DEF TreeInv
  <2>l. ListedServable'
    <3>1. UNCHANGED versions
      BY <1>4 DEF IndexStep, Report, Canonical, Hydrate, WriteScipBlob, SetHasSourceIndex, SetTarballSize
    <3> QED BY <3>1, <1>g DEF TreeInv, ListedServable
  <2>b. BlobsCanonical'
    <3>1. CASE WriteScipBlob(t)
      <4>1. thr[t].c[2] \in Versions
        BY <3>1, <2>0 DEF WriteScipBlob, Holds, Role, Written, Reindexed, Threads
      <4> QED BY <3>1, <4>1 DEF WriteScipBlob, TreeInv, BlobsCanonical
    <3>2. CASE ~WriteScipBlob(t)
      <4>1. scip' \subseteq scip
        BY <3>2, <1>4 DEF IndexStep, Report, Canonical, Hydrate, SetHasSourceIndex, SetTarballSize, WriteReport
      <4> QED BY <4>1 DEF TreeInv, BlobsCanonical
    <3> QED BY <3>1, <3>2
  \* Only a bump stores reports, of what it has mirrored.
  <2>w. ASSUME thr[t].pc \in {"report", "canonical", "hydrate"} PROVE Servable(thr[t].c)
    BY <2>w, <2>0 DEF Holds, Role, Written, Servable, Whole, Threads
  <2>d. ASSUME NEW d, Servable(d), WriteReport(d) PROVE RowsServable'
    BY <2>d, <1>g DEF WriteReport, RowsServable, TreeInv
  <2>u. ASSUME UNCHANGED rows PROVE RowsServable'
    BY <2>u, <1>g DEF RowsServable, TreeInv
  <2>1. CASE Report(t)
    <3>1. Holds(t)'
      BY <2>1, <2>0, <1>t, <1>k, <1>g DEF Report, Holds, Role, Written, Refreshed, Merging, Reindexed
    <3>2. thr[t].c[1] \in Placeholder => Servable(<<thr[t].c[1], HEAD>>)
      BY DEF Servable
    <3>3. RowsServable'
      BY <2>1, <2>w, <2>d, <3>2 DEF Report
    <3> QED BY <3>1, <3>3, <2>l, <2>b, <1>4, <1>e
  <2>2. CASE Canonical(t)
    <3>1. Holds(t)'
      BY <2>2, <2>0, <1>t, <1>k, <1>g DEF Canonical, Holds, Role, Written, Refreshed, Merging, Reindexed
    <3>3. RowsServable'
      BY <2>2, <2>w, <2>d, <2>u DEF Canonical
    <3> QED BY <3>1, <3>3, <2>l, <2>b, <1>4, <1>e
  <2>3. CASE Hydrate(t)
    <3>1. Holds(t)'
      BY <2>3, <2>0, <1>t, <1>k, <1>g DEF Hydrate, Holds, Role, Written, Refreshed, Merging, Reindexed
    <3>3. RowsServable'
      BY <2>3, <2>w, <2>d, <2>u DEF Hydrate
    <3> QED BY <3>1, <3>3, <2>l, <2>b, <1>4, <1>e
  <2>4. CASE WriteScipBlob(t)
    <3>0. /\ thr'[t].c = thr[t].c /\ thr'[t].todo = thr[t].todo /\ t \in Bumpers \cup Reindexers
          /\ t \in Bumpers => thr'[t].pc \in {"flag", "size"}
          /\ t \in Reindexers => thr'[t].pc \in {"flag", "next"}
      BY <2>4, <2>0, <1>t, <1>k DEF WriteScipBlob, Holds, Role, Threads, ThreadRec
    <3>1. Holds(t)'
      BY <2>4, <2>0, <3>0, <1>k, <1>g DEF WriteScipBlob, Holds, Role, Written, Refreshed, Merging, Reindexed
    <3>3. RowsServable'
      BY <2>4, <2>u DEF WriteScipBlob
    <3> QED BY <3>1, <3>3, <2>l, <2>b, <1>4, <1>e
  <2>5. CASE SetHasSourceIndex(t)
    <3>1. Holds(t)'
      BY <2>5, <2>0, <1>t, <1>k, <1>g DEF SetHasSourceIndex, Holds, Role, Written, Refreshed, Merging, Reindexed, Threads
    <3>3. RowsServable'
      BY <2>5, <2>u DEF SetHasSourceIndex
    <3> QED BY <3>1, <3>3, <2>l, <2>b, <1>4, <1>e
  <2>6. CASE SetTarballSize(t)
    <3>1. Holds(t)'
      BY <2>6, <1>f DEF SetTarballSize
    <3>3. RowsServable'
      BY <2>6, <2>u DEF SetTarballSize
    <3> QED BY <3>1, <3>3, <2>l, <2>b, <1>4, <1>e
  <2> QED BY <1>4, <2>1, <2>2, <2>3, <2>4, <2>5, <2>6 DEF IndexStep
<1>5. ASSUME NEW t \in Threads, StartRefresh(t) \/ StartReindex(t) PROVE TreeInv'
  <2>1. Holds(t)'
    <3>1. CASE StartRefresh(t)
      <4>1. \A d \in Latest : Servable(d)
        BY DEF Latest, TreeInv, RowsServable
      <4> QED
        BY <3>1, <4>1, <1>t, <1>k, <1>g DEF StartRefresh, Holds, Role, Written, Refreshed, Merging, Reindexed
    <3>2. CASE StartReindex(t)
      BY <3>2, <1>t, <1>k DEF TreeInv, BlobsCanonical, StartReindex, Holds, Role, Written, Refreshed, Merging, Reindexed
    <3> QED BY <1>5, <3>1, <3>2
  <2> QED BY <2>1, <1>5, <1>m, <1>e DEF StartRefresh, StartReindex
<1>6. ASSUME NEW t \in Threads, NextItem(t) PROVE TreeInv'
  <2>0. Holds(t) /\ thr[t] \in ThreadRec
    BY <1>t DEF TreeInv
  <2>1. Holds(t)'
    <3>1. CASE thr[t].todo = {} /\ Return(t)
      BY <3>1, <1>f
    <3>2. ASSUME NEW c \in thr[t].todo,
                 thr' = [thr EXCEPT ![t].c = c, ![t].todo = @ \ {c},
                                  ![t].pc = IF ~Usable(t, c) THEN "next"
                                            ELSE IF t \in Refreshers THEN "lock" ELSE "scip"]
          PROVE Holds(t)'
      <4>1. /\ thr'[t].c = c /\ thr'[t].todo = thr[t].todo \ {c}
            /\ thr'[t].pc \in {"next", IF t \in Refreshers THEN "lock" ELSE "scip"}
        BY <3>2, <1>t DEF ThreadRec
      <4>2. t \in Refreshers \cup Reindexers
        BY <1>6, <2>0 DEF NextItem, Holds, Role, Threads
      <4>3. t \in Refreshers => \A d \in thr[t].todo : Servable(d)
        BY <1>6, <2>0 DEF NextItem, Holds, Refreshed
      <4>4. t \in Reindexers => \A d \in thr[t].todo : d[2] \in Versions
        BY <2>0 DEF Holds, Reindexed
      <4> QED
        BY <4>1, <4>2, <4>3, <4>4, <1>k, <1>g DEF Holds, Role, Written, Refreshed, Merging, Reindexed
    <3> QED BY <1>6, <3>1, <3>2 DEF NextItem
  <2> QED BY <2>1, <1>6, <1>m, <1>e DEF NextItem
<1>7. ASSUME NEW t \in Threads, Fail(t) PROVE TreeInv'
  <2>1. Holds(t)'
    BY <1>7, <1>f DEF Fail
  <2> QED BY <2>1, <1>7, <1>m, <1>e DEF Fail
<1>8. CASE Boot
  BY <1>8, <1>y, <1>o, <1>m DEF Boot, TreeInv
<1> QED
  BY <1>1, <1>2, <1>3, <1>4, <1>5, <1>6, <1>7, <1>8 DEF IngestNext
(* Every step keeps the flag right, or leaves a thread that will.          *)
LEMMA FlagStep == TreeInv /\ FlagInv /\ [IngestNext]_ingestVars => FlagInv'
<1> SUFFICES ASSUME TreeInv, IngestTypeOK, FlagInv, [IngestNext]_ingestVars, ~failed' PROVE FlagInv'
  BY DEF FlagInv, TreeInv
<1>t. thr \in [Threads -> ThreadRec]
  BY DEF IngestTypeOK, ThreadRec
<1>h. HEAD \notin Versions
  BY IngestAssumption DEF HEAD, Versions
<1>f. ASSUME NEW u \in Threads, thr[u].pc = "flag" PROVE thr[u].c[2] \in Versions
  BY <1>f DEF TreeInv, Holds, Role, Written, Reindexed, Threads
<1>c. \A t \in Threads : thr[t].c \in Coord
  BY <1>t DEF ThreadRec
<1>s. scip \subseteq rows /\ flag \subseteq rows /\ rows \subseteq Coord
  BY DEF IngestTypeOK
\* A thread outside the window between the row and the flag is no witness.
<1>b. ASSUME NEW t \in Threads, ~failed, UNCHANGED <<scip, flag>>,
             \A u \in Threads : u # t => thr'[u] = thr[u],
             thr[t].pc \notin {"canonical", "hydrate", "scip", "flag"}, thr'[t].pc # "flag"
      PROVE  FlagInv'
  <2>1. ASSUME NEW c \in Coord PROVE (WillIndex(c) => WillIndex(c)') /\ (WillFlag(c) => WillFlag(c)')
    BY <1>b DEF WillIndex, WillFlag
  <2>2. ASSUME NEW c \in Coord PROVE FlagRight(c)' \/ WillIndex(c)' \/ (c \in scip' /\ WillFlag(c)')
    BY <1>b, <2>1 DEF FlagInv, FlagRight
  <2>3. ASSUME NEW u \in Threads, thr'[u].pc = "flag" PROVE thr'[u].c \in scip' \/ WillIndex(thr[u].c)'
    <3>1. u # t /\ thr'[u] = thr[u] /\ thr[u].c \in Coord
      BY <2>3, <1>b, <1>c
    <3>2. thr[u].c \in scip \/ WillIndex(thr[u].c)
      BY <3>1, <2>3, <1>b DEF FlagInv
    <3>3. PICK d \in Coord : d = thr[u].c
      BY <3>1
    <3>4. d \in scip' \/ WillIndex(d)'
      BY <3>2, <3>3, <2>1, <1>b
    <3> QED BY <3>4, <3>3, <3>1 DEF WillIndex
  <2> QED BY <2>2, <2>3 DEF FlagInv
\* A thread that replaces a row is a witness for it from then on.
<1>w. ASSUME NEW t \in Threads, ~failed, NEW d \in Coord, WriteReport(d),
             \A u \in Threads : u # t => thr'[u] = thr[u],
             thr[t].pc # "flag", thr'[t].pc \in {"canonical", "hydrate", "scip"},
             thr'[t].c = thr[t].c, d = thr[t].c \/ d[2] = HEAD
      PROVE  FlagInv'
  <2>1. ASSUME NEW c \in Coord PROVE (WillIndex(c) => WillIndex(c)') /\ (WillFlag(c) => WillFlag(c)')
    BY <1>w DEF WillIndex, WillFlag
  <2>2. ASSUME NEW c \in Coord PROVE FlagRight(c)' \/ WillIndex(c)' \/ (c \in scip' /\ WillFlag(c)')
    <3>1. CASE c = d
      BY <3>1, <1>w DEF FlagRight, WriteReport
    <3>2. CASE c # d
      BY <3>2, <1>w, <2>1 DEF FlagInv, FlagRight, WriteReport
    <3> QED BY <3>1, <3>2
  <2>3. ASSUME NEW u \in Threads, thr'[u].pc = "flag" PROVE thr'[u].c \in scip' \/ WillIndex(thr[u].c)'
    <3>1. u # t /\ thr'[u] = thr[u] /\ thr[u].c \in Coord
      BY <2>3, <1>w, <1>c
    <3>3. PICK e \in Coord : e = thr[u].c
      BY <3>1
    <3>4. e \in scip' \/ WillIndex(e)'
      <4>1. CASE e = thr[t].c
        BY <4>1, <1>w DEF WillIndex
      <4>2. CASE e # thr[t].c
        <5>1. e # d
          BY <4>2, <1>w, <1>f, <1>h, <2>3, <3>1, <3>3
        <5>2. e \in scip \/ WillIndex(e)
          BY <3>1, <3>3, <2>3, <1>w DEF FlagInv
        <5> QED BY <5>1, <5>2, <2>1, <1>w DEF WriteReport
      <4> QED BY <4>1, <4>2
    <3> QED BY <3>4, <3>3, <3>1 DEF WillIndex
  <2> QED BY <2>2, <2>3 DEF FlagInv
<1>o. ASSUME NEW t \in Threads,
             \/ \E c \in Coord : Start(t, c)
             \/ MirrorStep(t) \/ IndexStep(t)
             \/ StartRefresh(t) \/ StartReindex(t) \/ NextItem(t) \/ Fail(t)
      PROVE  \A u \in Threads : u # t => thr'[u] = thr[u]
  BY <1>o, OthersUnchanged
<1>n. ~failed
  BY DEF IngestNext, ingestVars, Start, MirrorStep, IndexStep, Fetch, BlobClose, WriteSource,
         WriteModuleBazel, MergeRead, MergeWrite, Report, Canonical, Hydrate, WriteScipBlob,
         SetHasSourceIndex, SetTarballSize, StartRefresh, StartReindex, NextItem, Fail, Boot
<1> USE DEF tree, index, At, GoTo, Return
<1>1. CASE UNCHANGED ingestVars
  BY <1>1 DEF ingestVars, FlagInv, FlagRight, WillIndex, WillFlag
<1>2. ASSUME NEW t \in Threads, NEW c \in Coord, Start(t, c) PROVE FlagInv'
  <2>1. thr[t].pc = "idle" /\ thr'[t].pc = "fetch"
    BY <1>2, <1>t DEF Start, ThreadRec
  <2> QED BY <2>1, <1>2, <1>b, <1>o, <1>n DEF Start
<1>3. ASSUME NEW t \in Threads, MirrorStep(t) PROVE FlagInv'
  <2>1. /\ thr[t].pc \in {"fetch", "blob", "source", "module", "lock", "merge"} /\ thr'[t].pc # "flag"
        /\ UNCHANGED <<scip, flag>>
    BY <1>3, <1>t, IdleIsThread DEF MirrorStep, Fetch, BlobClose, WriteSource, WriteModuleBazel,
       MergeRead, MergeWrite, ThreadRec
  <2> QED BY <2>1, <1>3, <1>b, <1>o, <1>n
<1>4. ASSUME NEW t \in Threads, IndexStep(t) PROVE FlagInv'
  <2>o. \A u \in Threads : u # t => thr'[u] = thr[u]
    BY <1>4, <1>o
  <2>c. thr[t].c \in Coord /\ <<thr[t].c[1], HEAD>> \in Coord
    BY <1>c DEF Coord
  \* A later step of the same window: the blob is still to come.
  <2>k. ASSUME UNCHANGED <<scip, flag>>, thr'[t].c = thr[t].c,
               thr[t].pc \in {"canonical", "hydrate", "scip"},
               thr'[t].pc \in {"canonical", "hydrate", "scip"}
        PROVE  FlagInv'
    <3>1. ASSUME NEW c \in Coord PROVE (WillIndex(c) <=> WillIndex(c)') /\ (WillFlag(c) <=> WillFlag(c)')
      BY <2>k, <2>o DEF WillIndex, WillFlag
    <3>2. ASSUME NEW c \in Coord PROVE FlagRight(c)' \/ WillIndex(c)' \/ (c \in scip' /\ WillFlag(c)')
      BY <2>k, <3>1, <1>n DEF FlagInv, FlagRight
    <3>3. ASSUME NEW u \in Threads, thr'[u].pc = "flag" PROVE thr'[u].c \in scip' \/ WillIndex(thr[u].c)'
      <4>1. u # t /\ thr'[u] = thr[u]
        BY <3>3, <2>k, <2>o
      <4>2. PICK e \in Coord : e = thr[u].c
        BY <1>c
      <4>3. e \in scip \/ WillIndex(e)
        BY <4>1, <4>2, <3>3, <1>n DEF FlagInv
      <4>4. e \in scip' \/ WillIndex(e)'
        BY <4>3, <3>1, <2>k
      <4> QED BY <4>4, <4>2, <4>1 DEF WillIndex
    <3> QED BY <3>2, <3>3 DEF FlagInv
  <2>1. CASE Report(t)
    <3>1. thr[t].pc = "report" /\ thr'[t].pc = "canonical" /\ thr'[t].c = thr[t].c
      BY <2>1, <1>t DEF Report, ThreadRec
    <3>2. PICK d \in Coord : WriteReport(d) /\ (d = thr[t].c \/ d[2] = HEAD)
      BY <2>1, <2>c DEF Report
    <3> QED BY <3>1, <3>2, <1>w, <1>n, <2>o
  <2>2. CASE Canonical(t)
    <3>1. thr[t].pc = "canonical" /\ thr'[t].pc \in {"hydrate", "scip"} /\ thr'[t].c = thr[t].c
      BY <2>2, <1>t DEF Canonical, ThreadRec
    <3>2. WriteReport(thr[t].c) \/ UNCHANGED <<scip, flag>>
      BY <2>2 DEF Canonical
    <3> QED BY <3>1, <3>2, <1>w, <1>n, <2>o, <2>c, <2>k
  <2>3. CASE Hydrate(t)
    <3>1. thr[t].pc = "hydrate" /\ thr'[t].pc = "scip" /\ thr'[t].c = thr[t].c
      BY <2>3, <1>t DEF Hydrate, ThreadRec
    <3>2. WriteReport(thr[t].c) \/ UNCHANGED <<scip, flag>>
      BY <2>3 DEF Hydrate
    <3> QED BY <3>1, <3>2, <1>w, <1>n, <2>o, <2>c, <2>k
  <2>4. CASE WriteScipBlob(t)
    <3>1. /\ thr[t].pc = "scip" /\ thr'[t].pc = "flag" /\ thr'[t].c = thr[t].c
          /\ scip' = scip \cup {thr[t].c} /\ UNCHANGED flag
      BY <2>4, <1>t DEF WriteScipBlob, ThreadRec
    <3>2. ASSUME NEW c \in Coord, c # thr[t].c
          PROVE  (WillIndex(c) <=> WillIndex(c)') /\ (WillFlag(c) <=> WillFlag(c)')
      BY <3>1, <3>2, <2>o DEF WillIndex, WillFlag
    <3>3. ASSUME NEW c \in Coord PROVE FlagRight(c)' \/ WillIndex(c)' \/ (c \in scip' /\ WillFlag(c)')
      <4>1. CASE c = thr[t].c
        BY <4>1, <3>1 DEF WillFlag
      <4>2. CASE c # thr[t].c
        BY <4>2, <3>1, <3>2, <1>n DEF FlagInv, FlagRight
      <4> QED BY <4>1, <4>2
    <3>4. ASSUME NEW u \in Threads, thr'[u].pc = "flag" PROVE thr'[u].c \in scip' \/ WillIndex(thr[u].c)'
      <4>1. CASE thr'[u].c = thr[t].c
        BY <4>1, <3>1
      <4>2. CASE thr'[u].c # thr[t].c
        <5>1. u # t /\ thr'[u] = thr[u]
          BY <4>2, <3>1, <2>o
        <5>2. PICK e \in Coord : e = thr[u].c
          BY <1>c
        <5>3. e \in scip \/ WillIndex(e)
          BY <5>1, <5>2, <3>4, <1>n DEF FlagInv
        <5>4. e \in scip' \/ WillIndex(e)'
          BY <5>3, <5>1, <5>2, <4>2, <3>2, <3>1
        <5> QED BY <5>4, <5>2, <5>1 DEF WillIndex
      <4> QED BY <4>1, <4>2
    <3> QED BY <3>3, <3>4 DEF FlagInv
  <2>5. CASE SetHasSourceIndex(t)
    <3>1. /\ thr[t].pc = "flag" /\ thr'[t].pc \in {"size", "next"} /\ thr'[t].c = thr[t].c
          /\ UNCHANGED scip
          /\ flag' = IF thr[t].c[1] \in Starlark /\ thr[t].c \in rows
                     THEN flag \cup {thr[t].c} ELSE flag \ {thr[t].c}
      BY <2>5, <1>t DEF SetHasSourceIndex, ThreadRec
    <3>2. ASSUME NEW c \in Coord
          PROVE  (WillIndex(c) <=> WillIndex(c)') /\ (c # thr[t].c => (WillFlag(c) <=> WillFlag(c)'))
      BY <3>1, <2>o DEF WillIndex, WillFlag
    <3>3. ASSUME NEW c \in Coord PROVE FlagRight(c)' \/ WillIndex(c)' \/ (c \in scip' /\ WillFlag(c)')
      <4>1. CASE c = thr[t].c
        <5>1. c \in scip \/ WillIndex(c)
          BY <4>1, <3>1, <1>n DEF FlagInv
        <5> QED BY <5>1, <4>1, <3>1, <3>2, <1>s DEF FlagRight
      <4>2. CASE c # thr[t].c
        BY <4>2, <3>1, <3>2, <1>n DEF FlagInv, FlagRight
      <4> QED BY <4>1, <4>2
    <3>4. ASSUME NEW u \in Threads, thr'[u].pc = "flag" PROVE thr'[u].c \in scip' \/ WillIndex(thr[u].c)'
      <4>1. u # t /\ thr'[u] = thr[u]
        BY <3>4, <3>1, <2>o
      <4>2. PICK e \in Coord : e = thr[u].c
        BY <1>c
      <4>3. e \in scip \/ WillIndex(e)
        BY <4>1, <4>2, <3>4, <1>n DEF FlagInv
      <4>4. e \in scip' \/ WillIndex(e)'
        BY <4>3, <3>2, <3>1
      <4> QED BY <4>4, <4>2, <4>1 DEF WillIndex
    <3> QED BY <3>3, <3>4 DEF FlagInv
  <2>6. CASE SetTarballSize(t)
    <3>1. thr[t].pc = "size" /\ thr'[t].pc = "idle"
      BY <2>6, <1>t, IdleIsThread DEF SetTarballSize
    <3> QED BY <3>1, <2>6, <1>b, <2>o, <1>n DEF SetTarballSize
  <2> QED BY <1>4, <2>1, <2>2, <2>3, <2>4, <2>5, <2>6 DEF IndexStep
<1>5. ASSUME NEW t \in Threads, StartRefresh(t) \/ StartReindex(t) PROVE FlagInv'
  <2>1. thr[t].pc = "idle" /\ thr'[t].pc = "next"
    BY <1>5, <1>t DEF StartRefresh, StartReindex, ThreadRec
  <2> QED BY <2>1, <1>5, <1>b, <1>o, <1>n DEF StartRefresh, StartReindex
<1>6. ASSUME NEW t \in Threads, NextItem(t) PROVE FlagInv'
  <2>1. thr[t].pc = "next" /\ thr'[t].pc # "flag"
    <3>1. CASE Return(t)
      BY <1>6, <3>1, <1>t, IdleIsThread DEF NextItem
    <3>2. CASE ~Return(t)
      <4>1. PICK c \in thr[t].todo :
               thr' = [thr EXCEPT ![t].c = c, ![t].todo = @ \ {c},
                                ![t].pc = IF ~Usable(t, c) THEN "next"
                                          ELSE IF t \in Refreshers THEN "lock" ELSE "scip"]
        BY <1>6, <3>2 DEF NextItem
      <4>2. thr'[t].pc \in {"next", "lock", "scip"}
        BY <4>1, <1>t DEF ThreadRec
      <4> QED BY <1>6, <4>2 DEF NextItem
    <3> QED BY <3>1, <3>2
  <2> QED BY <2>1, <1>6, <1>b, <1>o, <1>n DEF NextItem
<1>7. ASSUME NEW t \in Threads, Fail(t) PROVE FlagInv'
  BY <1>7 DEF Fail
<1>8. CASE Boot
  <2>1. \A c \in Coord : FlagRight(c)
    BY <1>8, <1>n DEF Boot, FlagInv, WillIndex, WillFlag
  <2>2. \A c \in Coord : FlagRight(c)'
    BY <1>8, <2>1, <1>s DEF Boot, FlagRight
  <2> QED BY <1>8, <2>2 DEF Boot, FlagInv
<1> QED
  BY <1>1, <1>2, <1>3, <1>4, <1>5, <1>6, <1>7, <1>8 DEF IngestNext
(* While no other writer of metadata.json is at work, every step keeps     *)
(* what the walk has mirrored listed.                                      *)
LEMMA WalkStep ==
    TreeInv /\ WalkInv /\ OthersIdle /\ OthersIdle' /\ [IngestNext]_ingestVars => WalkInv'
<1> SUFFICES ASSUME TreeInv, WalkInv, OthersIdle, OthersIdle', [IngestNext]_ingestVars PROVE WalkInv'
  OBVIOUS
<1>t. thr \in [Threads -> ThreadRec] /\ versions \in [Names -> SUBSET (Versions \cup {HEAD})] /\ done \subseteq Coord
  BY DEF TreeInv, IngestTypeOK, ThreadRec
<1>c. \A d \in Coord : d[1] \in Names /\ d[2] \in Versions \cup {HEAD} /\ d = <<d[1], d[2]>>
  BY DEF Coord
<1>k. Walkers \subseteq Threads /\ Reindexers \cap Walkers = {}
  BY ThreadsDisjoint DEF Threads
\* A step that neither merges nor changes a walker.
<1>q. ASSUME \A u \in Walkers : thr'[u] = thr[u], UNCHANGED <<versions, done>> PROVE WalkInv'
  BY <1>q DEF WalkInv, LockExclusive, ReadCurrent, MirroredStaysListed, Listed
\* A walker's step up to the lock.
<1>w. ASSUME NEW t \in Walkers, thr'[t].pc # "merge", UNCHANGED <<versions, done>>,
             \A u \in Threads : u # t => thr'[u] = thr[u]
      PROVE  WalkInv'
  BY <1>w, <1>k DEF WalkInv, LockExclusive, ReadCurrent, MirroredStaysListed, Listed
<1>o. ASSUME NEW t \in Threads,
             \/ \E c \in Coord : Start(t, c)
             \/ MirrorStep(t) \/ IndexStep(t)
             \/ StartRefresh(t) \/ StartReindex(t) \/ NextItem(t) \/ Fail(t)
      PROVE  \A u \in Threads : u # t => thr'[u] = thr[u]
  BY <1>o, OthersUnchanged DEF TreeInv
<1> USE DEF tree, index, At, GoTo, Return
<1>1. CASE UNCHANGED ingestVars
  BY <1>1, <1>q DEF ingestVars
<1>2. ASSUME NEW t \in Threads, NEW c \in Coord, Start(t, c) PROVE WalkInv'
  <2>1. thr'[t].pc = "fetch"
    BY <1>2, <1>t DEF Start, ThreadRec
  <2>2. t \in Walkers
    BY <2>1, <1>2 DEF Start, OthersIdle
  <2> QED BY <2>1, <2>2, <1>2, <1>w, <1>o DEF Start
<1>3. ASSUME NEW t \in Threads, MirrorStep(t) PROVE WalkInv'
  <2>o. \A u \in Threads : u # t => thr'[u] = thr[u]
    BY <1>3, <1>o
  <2>p. thr[t].pc \in {"fetch", "blob", "source", "module", "lock", "merge"}
    BY <1>3 DEF MirrorStep, Fetch, BlobClose, WriteSource, WriteModuleBazel, MergeRead, MergeWrite
  <2>r. t \in Walkers
    BY <2>p DEF TreeInv, Holds, Role, OthersIdle, Threads
  <2>c. thr[t].c \in Coord /\ thr[t] \in ThreadRec
    BY <1>t DEF ThreadRec
  <2>1. CASE Fetch(t) \/ BlobClose(t) \/ WriteSource(t) \/ WriteModuleBazel(t)
    <3>1. thr'[t].pc # "merge" /\ UNCHANGED <<versions, done>>
      BY <2>1, <1>t DEF Fetch, BlobClose, WriteSource, WriteModuleBazel, ThreadRec
    <3> QED BY <3>1, <2>r, <2>o, <1>w
  <2>2. CASE MergeRead(t)
    <3>1. /\ thr'[t].pc = "merge" /\ thr'[t].seen = versions[thr[t].c[1]]
          /\ thr'[t].c = thr[t].c /\ UNCHANGED <<versions, done>>
      BY <2>2, <1>t DEF MergeRead, ThreadRec
    <3>2. \A u \in Walkers : u # t /\ thr[u].pc = "merge" => thr[u].c[1] # thr[t].c[1]
      BY <2>2, <2>r, <1>k DEF MergeRead, SharesLock
    <3>3. LockExclusive'
      BY <3>1, <3>2, <2>o, <1>k DEF WalkInv, LockExclusive
    <3>4. ReadCurrent'
      BY <3>1, <2>o, <1>k DEF WalkInv, ReadCurrent
    <3>5. MirroredStaysListed'
      BY <3>1 DEF WalkInv, MirroredStaysListed, Listed
    <3> QED BY <3>3, <3>4, <3>5 DEF WalkInv
  <2>3. CASE MergeWrite(t)
    <3>1. /\ thr[t].pc = "merge" /\ thr'[t].pc = "idle" /\ done' = done \cup {thr[t].c}
          /\ versions' = [versions EXCEPT ![thr[t].c[1]] = thr[t].seen \cup {thr[t].c[2]}]
      BY <2>3, <2>r, <1>t, ThreadsDisjoint, IdleIsThread DEF MergeWrite, Threads
    <3>2. thr[t].seen = versions[thr[t].c[1]]
      BY <3>1, <2>r DEF WalkInv, ReadCurrent
    <3>3. LockExclusive'
      BY <3>1, <2>o, <1>k DEF WalkInv, LockExclusive
    <3>4. ReadCurrent'
      <4> SUFFICES ASSUME NEW u \in Walkers, thr'[u].pc = "merge" PROVE thr'[u].seen = versions'[thr'[u].c[1]]
        BY DEF ReadCurrent
      <4>1. u # t /\ thr'[u] = thr[u] /\ thr[u].pc = "merge"
        BY <3>1, <2>o, <1>k
      <4>2. thr[u].c[1] # thr[t].c[1]
        BY <4>1, <3>1, <2>r DEF WalkInv, LockExclusive
      <4>3. thr[u].c \in Coord
        BY <1>t, <1>k DEF ThreadRec
      <4> QED BY <4>1, <4>2, <4>3, <3>1, <1>t, <1>c DEF WalkInv, ReadCurrent
    <3>5. \A n \in Names : versions[n] \subseteq versions'[n]
      BY <3>1, <3>2, <1>t, <2>c, <1>c
    <3>6. thr[t].c[2] \in versions'[thr[t].c[1]]
      BY <3>1, <1>t, <2>c, <1>c
    <3>7. MirroredStaysListed'
      <4> SUFFICES ASSUME NEW d \in done' PROVE d \in Coord /\ d[2] \in versions'[d[1]]
        BY DEF MirroredStaysListed, Listed
      <4>1. CASE d = thr[t].c
        BY <4>1, <3>6, <2>c
      <4>2. CASE d \in done
        BY <4>2, <3>5, <1>c DEF WalkInv, MirroredStaysListed, Listed
      <4> QED BY <4>1, <4>2, <3>1
    <3> QED BY <3>3, <3>4, <3>7 DEF WalkInv
  <2> QED BY <1>3, <2>1, <2>2, <2>3 DEF MirrorStep
<1>4. ASSUME NEW t \in Threads, IndexStep(t) PROVE WalkInv'
  <2>1. thr[t].pc \in {"report", "canonical", "hydrate", "scip", "flag", "size"}
    BY <1>4 DEF IndexStep, Report, Canonical, Hydrate, WriteScipBlob, SetHasSourceIndex, SetTarballSize
  <2>2. t \in Reindexers /\ thr[t].pc # "size"
    BY <2>1 DEF TreeInv, Holds, Role, OthersIdle, Threads
  <2>3. UNCHANGED <<versions, done>>
    BY <1>4, <2>2 DEF IndexStep, Report, Canonical, Hydrate, WriteScipBlob, SetHasSourceIndex, SetTarballSize
  <2> QED BY <2>2, <2>3, <1>4, <1>o, <1>q, <1>k
<1>5. ASSUME NEW t \in Threads, StartRefresh(t) \/ StartReindex(t) PROVE WalkInv'
  <2>1. t \notin Walkers /\ UNCHANGED <<versions, done>>
    BY <1>5, ThreadsDisjoint DEF StartRefresh, StartReindex
  <2> QED BY <2>1, <1>5, <1>o, <1>q, <1>k
<1>6. ASSUME NEW t \in Threads, NextItem(t) PROVE WalkInv'
  <2>1. t \notin Walkers /\ UNCHANGED <<versions, done>>
    BY <1>6 DEF NextItem, TreeInv, Holds, Role
  <2> QED BY <2>1, <1>6, <1>o, <1>q, <1>k
<1>7. ASSUME NEW t \in Threads, Fail(t) PROVE WalkInv'
  <2>1. thr'[t].pc # "merge" /\ UNCHANGED <<versions, done>>
    BY <1>7, <1>t, IdleIsThread DEF Fail
  <2> QED BY <2>1, <1>7, <1>o, <1>q, <1>w, <1>k
<1>8. CASE Boot
  BY <1>8, <1>q DEF Boot
<1> QED
  BY <1>1, <1>2, <1>3, <1>4, <1>5, <1>6, <1>7, <1>8 DEF IngestNext

(* An empty tree, an empty index and idle threads satisfy the invariants.  *)
LEMMA IngestInitInv == IngestInit => TreeInv /\ FlagInv /\ WalkInv /\ OthersIdle
<1> SUFFICES ASSUME IngestInit PROVE TreeInv /\ FlagInv /\ WalkInv /\ OthersIdle
  OBVIOUS
<1>1. IngestTypeOK
  BY IdleIsThread DEF IngestInit, IngestTypeOK, ThreadRec
<1>2. \A t \in Threads : thr[t] = Idle
  BY DEF IngestInit
<1>3. \A t \in Threads : Holds(t)
  BY <1>2, IdleIsThread DEF Holds, Role, Written, Refreshed, Merging, Reindexed
<1>4. TreeInv
  BY <1>1, <1>3 DEF TreeInv, IngestInit, RowsServable, ListedServable, BlobsCanonical
<1>5. FlagInv
  BY <1>2, IdleIsThread DEF FlagInv, FlagRight, IngestInit
<1>6. WalkInv
  BY <1>2, IdleIsThread DEF WalkInv, LockExclusive, ReadCurrent, MirroredStaysListed, IngestInit, Threads
<1>7. OthersIdle
  BY <1>2, IdleIsThread DEF OthersIdle, Threads
<1> QED BY <1>4, <1>5, <1>6, <1>7

(* The tree and the index stay within the invariant for ever.              *)
LEMMA IngestInvariant == IngestSpec => [](TreeInv /\ FlagInv)
<1>1. IngestInit => TreeInv /\ FlagInv
  BY IngestInitInv
<1>2. TreeInv /\ FlagInv /\ [IngestNext]_ingestVars => TreeInv' /\ FlagInv'
  BY TreeStep, FlagStep
<1> QED BY <1>1, <1>2, PTL DEF IngestSpec

(* Whatever the archives declare, and with any thread failing or killed    *)
(* between any two files: a version somebody asked for is advertised in    *)
(* metadata.json only once its archive, source.json and MODULE.bazel (if   *)
(* that is not empty) are in the tree.                                     *)
THEOREM VersionsServable ==
    IngestSpec => [](\A c \in Listed : c[2] \in Versions => c \in Whole)
<1>1. TreeInv => \A c \in Listed : c[2] \in Versions => c \in Whole
  <2> SUFFICES ASSUME TreeInv, NEW c \in Listed, c[2] \in Versions PROVE c \in Whole
    OBVIOUS
  <2>1. c \in Coord /\ c[1] \in Names /\ c[2] \in versions[c[1]] /\ c = <<c[1], c[2]>>
    BY DEF Listed, Coord
  <2>2. Servable(<<c[1], c[2]>>)
    BY <2>1 DEF TreeInv, ListedServable
  <2>3. HEAD \notin Versions
    BY IngestAssumption DEF HEAD, Versions
  <2> QED BY <2>1, <2>2, <2>3 DEF Servable
<1> QED BY <1>1, IngestInvariant, PTL

(* TreeServable, for any number of bumps, walk workers, refreshes and      *)
(* reindexes over any modules, with any of them failing or killed between  *)
(* any two files: no version is advertised before its archive, source.json *)
(* and MODULE.bazel (if that is not empty) are in the tree.  It needs      *)
(* every archive to declare its version: a refresh lists the placeholder   *)
(* row of one that does not.                                               *)
THEOREM TreeAlwaysServable ==
    ASSUME Placeholder = {} PROVE IngestSpec => []TreeServable
<1>1. TreeInv => TreeServable
  <2> SUFFICES ASSUME TreeInv, NEW c \in Listed PROVE c \in Whole
    BY DEF TreeServable
  <2>1. c \in Coord /\ c[1] \in Names /\ c[2] \in versions[c[1]] /\ c = <<c[1], c[2]>>
    BY DEF Listed, Coord
  <2>2. Servable(<<c[1], c[2]>>)
    BY <2>1 DEF TreeInv, ListedServable
  <2> QED BY <2>1, <2>2 DEF Servable
<1> QED BY <1>1, IngestInvariant, PTL

(* IndexedIsMirrored, whatever the archives declare: a row under a version *)
(* somebody asked for has its files in the tree.                           *)
THEOREM IndexAlwaysMirrored == IngestSpec => []IndexedIsMirrored
<1>1. TreeInv => IndexedIsMirrored
  <2>1. HEAD \notin Versions
    BY IngestAssumption DEF HEAD, Versions
  <2> QED BY <2>1 DEF TreeInv, RowsServable, Servable, Whole, IndexedIsMirrored
<1> QED BY <1>1, IngestInvariant, PTL

(* FlagMatchesBlob, however concurrent bumps of a coordinate and reindexes *)
(* interleave: once the calls have returned, none having failed,           *)
(* has_source_index says which versions have a blob with files.            *)
THEOREM FlagSettles == IngestSpec => []FlagMatchesBlob
<1>1. TreeInv /\ FlagInv => FlagMatchesBlob
  <2> SUFFICES ASSUME TreeInv, FlagInv, ~failed, \A t \in Threads : At(t, "idle")
               PROVE  flag = {c \in scip : c[1] \in Starlark}
    BY DEF FlagMatchesBlob
  <2>1. \A c \in Coord : FlagRight(c)
    BY DEF FlagInv, WillIndex, WillFlag, At
  <2>2. flag \subseteq Coord /\ scip \subseteq Coord
    BY DEF TreeInv, IngestTypeOK
  <2> QED BY <2>1, <2>2 DEF FlagRight
<1> QED BY <1>1, IngestInvariant, PTL

(* WalkStaysListed: among any number of workers of one walk, sharing the   *)
(* mutex of a module, no merge of metadata.json loses the version another  *)
(* worker has added.                                                       *)
THEOREM WalkKeepsListings == MCIngestSpec => []WalkStaysListed
<1> DEFINE I == TreeInv /\ (cast = "walk" => WalkInv /\ OthersIdle)
<1>1. MCIngestInit => I
  BY IngestInitInv DEF MCIngestInit
<1>2. I /\ [MCIngestNext]_mcVars => I'
  <2> SUFFICES ASSUME I, [MCIngestNext]_mcVars PROVE I'
    OBVIOUS
  <2>1. [IngestNext]_ingestVars /\ UNCHANGED cast
    BY DEF MCIngestNext, mcVars
  <2>2. TreeInv'
    BY <2>1, TreeStep
  <2>3. ASSUME cast = "walk" PROVE WalkInv' /\ OthersIdle'
    <3>1. OthersIdle'
      BY <2>3, ThreadsDisjoint DEF MCIngestNext, OnStage, OthersIdle, At, Threads, mcVars, ingestVars
    <3> QED BY <3>1, <2>1, <2>3, WalkStep
  <2> QED BY <2>1, <2>2, <2>3
<1>3. I => WalkStaysListed
  BY DEF WalkInv, WalkStaysListed
<1> QED BY <1>1, <1>2, <1>3, PTL DEF MCIngestSpec
=============================================================================
