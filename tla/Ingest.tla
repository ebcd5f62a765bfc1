------------------------------- MODULE Ingest -------------------------------
(***************************************************************************)
(* Ingestion: Service.Bump, the mirroring workers of a recursive walk,     *)
(* Service.RefreshMetadata and Service.ReindexScip over one BCR-shape tree *)
(* (internal/mirror) and one SQLite index (internal/store).                *)
(*                                                                         *)
(* Every file is written to a temporary and renamed, and every store call  *)
(* is one transaction, so one file or one call is one step; a failed call, *)
(* a cancelled context and a killed process all end a thread between two   *)
(* steps (Fail).                                                           *)
(***************************************************************************)
EXTENDS Naturals, FiniteSets

CONSTANTS Names,          \* module names
          NumVersions,    \* versions 1..NumVersions, in the order of their strings
          Bumpers,        \* concurrent Bump calls, each with a mirror.Writer of its own
          Walkers,        \* workers of one recursive walk, sharing one mirror.Writer
          Refreshers,     \* RefreshMetadata calls, each with a mirror.Writer of its own
          Reindexers,     \* ReindexScip calls
          Placeholder,    \* names whose archive has no version in its MODULE.bazel
          Starlark,       \* names whose archive holds Starlark files
          EmptyModule,    \* coordinates for which the registry serves an empty MODULE.bazel
          AttrsInterpret, \* feature flag: hydrate attributes and store again
          Faults          \* may calls fail and threads be killed?

ASSUME IngestAssumption ==
    /\ Names # {} /\ NumVersions \in Nat \ {0}
    /\ Placeholder \subseteq Names /\ Starlark \subseteq Names
    /\ EmptyModule \subseteq Names \X (1..NumVersions)
    /\ AttrsInterpret \in BOOLEAN /\ Faults \in BOOLEAN
ASSUME ThreadsDisjoint ==
    /\ Bumpers \cap (Walkers \cup Refreshers \cup Reindexers) = {}
    /\ Walkers \cap (Refreshers \cup Reindexers) = {}
    /\ Refreshers \cap Reindexers = {}

VARIABLES
    \* the tree
    blobs, sources, modfiles,  \* coordinates whose archive / source.json / MODULE.bazel is there
    versions,                  \* name -> versions listed in its metadata.json
    \* the index
    rows, scip, flag, sized,   \* coordinates with a row / SCIP blob / has_source_index / tarball_size
    thr,                       \* threads
    done,                      \* history: coordinates whose Bump or walk step returned nil
    failed,                    \* history: a call has failed or a thread was killed
    booted                     \* the server has just finished its boot backfill

tree  == <<blobs, sources, modfiles>>
index == <<rows, scip, flag, sized>>
ingestVars == <<blobs, sources, modfiles, versions, rows, scip, flag, sized, thr, done, failed, booted>>

Threads  == Bumpers \cup Walkers \cup Refreshers \cup Reindexers
Versions == 1..NumVersions
HEAD     == NumVersions + 1     \* the fallback version of Analyze sorts after digits
Coord    == Names \X (Versions \cup {HEAD})

Idle == [pc |-> "idle", c |-> CHOOSE c \in Coord : TRUE, seen |-> {}, todo |-> {}]

PC == {"idle", "fetch", "blob", "source", "module", "lock", "merge", "report",
       "canonical", "hydrate", "scip", "flag", "size", "next"}

IngestTypeOK ==
    /\ blobs \subseteq Coord /\ sources \subseteq Coord /\ modfiles \subseteq Coord
    /\ versions \in [Names -> SUBSET (Versions \cup {HEAD})]
    /\ rows \subseteq Coord /\ scip \subseteq rows /\ flag \subseteq rows /\ sized \subseteq rows
    /\ thr \in [Threads -> [pc : PC, c : Coord, seen : SUBSET (Versions \cup {HEAD}),
                            todo : SUBSET Coord]]
    /\ done \subseteq Coord
    /\ {failed, booted} \subseteq BOOLEAN

IngestInit ==
    /\ blobs = {} /\ sources = {} /\ modfiles = {}
    /\ versions = [n \in Names |-> {}]
    /\ rows = {} /\ scip = {} /\ flag = {} /\ sized = {}
    /\ thr = [t \in Threads |-> Idle]
    /\ done = {}
    /\ failed = FALSE /\ booted = FALSE

At(t, pc) == thr[t].pc = pc
GoTo(t, pc) == thr' = [thr EXCEPT ![t].pc = pc]
Return(t) == thr' = [thr EXCEPT ![t] = Idle]

-----------------------------------------------------------------------------
(***************************************************************************)
(* mirror.Writer and the fetch before it                                   *)
(***************************************************************************)
\* Bump, or walkOneMirrored on a job taken from the coordinator.
Start(t, c) ==
    /\ t \in Bumpers \cup Walkers
    /\ At(t, "idle") /\ c[2] \in Versions
    /\ thr' = [thr EXCEPT ![t].pc = "fetch", ![t].c = c]
    /\ booted' = FALSE
    /\ UNCHANGED <<tree, index, versions, done, failed>>

\* Mutant: a bump indexes first and mirrors nothing.
FetchThenIndex(t) ==
    /\ At(t, "fetch") /\ GoTo(t, IF t \in Bumpers THEN "report" ELSE "blob")
    /\ UNCHANGED <<tree, index, versions, done, booted, failed>>

\* source.json, MODULE.bazel and the archive arrive and the digest matches;
\* a failure aborts the sink and leaves nothing behind (Fail).
Fetch(t) ==
    /\ At(t, "fetch") /\ GoTo(t, "blob")
    /\ UNCHANGED <<tree, index, versions, done, booted, failed>>

BlobClose(t) ==
    /\ At(t, "blob") /\ GoTo(t, "source")
    /\ blobs' = blobs \cup {thr[t].c}
    /\ UNCHANGED <<sources, modfiles, index, versions, done, booted, failed>>

\* Mutant: source.json is left for a later step that never comes.
WriteSourceDeferred(t) ==
    /\ At(t, "source") /\ GoTo(t, "module")
    /\ UNCHANGED <<tree, index, versions, done, booted, failed>>

WriteSource(t) ==
    /\ At(t, "source") /\ GoTo(t, "module")
    /\ sources' = sources \cup {thr[t].c}
    /\ UNCHANGED <<blobs, modfiles, index, versions, done, booted, failed>>

\* Bump writes no empty file; a walk writes what it was served.
WriteModuleBazel(t) ==
    /\ At(t, "module") /\ GoTo(t, "lock")
    /\ modfiles' = IF t \in Bumpers /\ thr[t].c \in EmptyModule THEN modfiles
                   ELSE modfiles \cup {thr[t].c}
    /\ UNCHANGED <<blobs, sources, index, versions, done, booted, failed>>

\* Mutant: moduleLock hands out a fresh mutex on every call.
SharesLockNever(t, u) == FALSE

\* moduleLock: one mutex per name and Writer; the thread at "merge" holds it.
SharesLock(t, u) == t # u /\ {t, u} \subseteq Walkers /\ thr[t].c[1] = thr[u].c[1]

\* MergeMetadataWithUpstream: lock and read ...
MergeRead(t) ==
    /\ At(t, "lock")
    /\ \A u \in Threads : SharesLock(t, u) => ~At(u, "merge")
    /\ thr' = [thr EXCEPT ![t].pc = "merge", ![t].seen = versions[thr[t].c[1]]]
    /\ UNCHANGED <<tree, index, versions, done, booted, failed>>

\* ... add the version, rename over the old file and unlock.
MergeWrite(t) ==
    /\ At(t, "merge")
    /\ versions' = [versions EXCEPT ![thr[t].c[1]] = thr[t].seen \cup {thr[t].c[2]}]
    /\ \/ t \in Bumpers    /\ GoTo(t, "report") /\ UNCHANGED done
       \/ t \in Walkers    /\ Return(t) /\ done' = done \cup {thr[t].c}
       \/ t \in Refreshers /\ GoTo(t, "next") /\ UNCHANGED done
    /\ UNCHANGED <<tree, index, booted, failed>>

-----------------------------------------------------------------------------
(***************************************************************************)
(* The index                                                               *)
(***************************************************************************)
\* WriteReport replaces the row; everything that hangs on it is cascaded away.
WriteReport(c) ==
    /\ rows' = rows \cup {c}
    /\ scip' = scip \ {c}
    /\ flag' = flag \ {c}
    /\ sized' = sized \ {c}

\* ingest.FromDir stores under the coordinate Analyze read from the archive.
Report(t) ==
    /\ At(t, "report") /\ GoTo(t, "canonical")
    /\ WriteReport(IF thr[t].c[1] \in Placeholder THEN <<thr[t].c[1], HEAD>> ELSE thr[t].c)
    /\ UNCHANGED <<tree, versions, done, booted, failed>>

Canonical(t) ==
    /\ At(t, "canonical")
    /\ GoTo(t, IF AttrsInterpret THEN "hydrate" ELSE "scip")
    /\ IF thr[t].c[1] \in Placeholder THEN WriteReport(thr[t].c) ELSE UNCHANGED index
    /\ UNCHANGED <<tree, versions, done, booted, failed>>

\* A failed rewrite is only logged.
Hydrate(t) ==
    /\ At(t, "hydrate") /\ GoTo(t, "scip")
    /\ \/ WriteReport(thr[t].c) /\ UNCHANGED failed
       \/ Faults /\ failed' = TRUE /\ UNCHANGED index
    /\ UNCHANGED <<tree, versions, done, booted>>

\* Generation and storage are best effort; the foreign key wants the row.
WriteScipBlob(t) ==
    /\ At(t, "scip")
    /\ \/ /\ thr[t].c \in rows
          /\ scip' = scip \cup {thr[t].c}
          /\ GoTo(t, "flag")
          /\ UNCHANGED failed
       \/ /\ thr[t].c \notin rows \/ Faults
          /\ failed' = TRUE /\ UNCHANGED scip
          /\ GoTo(t, IF t \in Bumpers THEN "size" ELSE "next")
    /\ UNCHANGED <<tree, rows, flag, sized, versions, done, booted>>

\* Mutant: only a reindex keeps the flag in step.
SetHasSourceIndexReindexOnly(t) ==
    /\ At(t, "flag")
    /\ GoTo(t, IF t \in Bumpers THEN "size" ELSE "next")
    /\ flag' = IF t \in Reindexers /\ thr[t].c[1] \in Starlark
               THEN flag \cup {thr[t].c} ELSE flag
    /\ UNCHANGED <<tree, rows, scip, sized, versions, done, booted, failed>>

\* An UPDATE: without the row it changes nothing.
SetHasSourceIndex(t) ==
    /\ At(t, "flag")
    /\ GoTo(t, IF t \in Bumpers THEN "size" ELSE "next")
    /\ \/ /\ flag' = IF thr[t].c[1] \in Starlark /\ thr[t].c \in rows
                     THEN flag \cup {thr[t].c} ELSE flag \ {thr[t].c}
          /\ UNCHANGED failed
       \/ Faults /\ failed' = TRUE /\ UNCHANGED flag
    /\ UNCHANGED <<tree, rows, scip, sized, versions, done, booted>>

SetTarballSize(t) ==
    /\ At(t, "size") /\ Return(t)
    /\ \/ /\ sized' = IF thr[t].c \in rows THEN sized \cup {thr[t].c} ELSE sized
          /\ UNCHANGED failed
       \/ Faults /\ failed' = TRUE /\ UNCHANGED sized
    /\ done' = done \cup {thr[t].c}
    /\ UNCHANGED <<tree, rows, scip, flag, versions, booted>>

-----------------------------------------------------------------------------
(***************************************************************************)
(* RefreshMetadata and ReindexScip: a list taken once, then one coordinate *)
(* after the other; a coordinate that fails is skipped.                    *)
(***************************************************************************)
\* ListModules: the greatest version of every indexed name.
Latest == {c \in rows : \A d \in rows : d[1] = c[1] => d[2] <= c[2]}

StartRefresh(t) ==
    /\ t \in Refreshers /\ At(t, "idle") /\ rows # {}
    /\ thr' = [thr EXCEPT ![t].pc = "next", ![t].todo = Latest]
    /\ booted' = FALSE
    /\ UNCHANGED <<tree, index, versions, done, failed>>

\* ListScipVersions.
StartReindex(t) ==
    /\ t \in Reindexers /\ At(t, "idle") /\ scip # {}
    /\ thr' = [thr EXCEPT ![t].pc = "next", ![t].todo = scip]
    /\ booted' = FALSE
    /\ UNCHANGED <<tree, index, versions, done, failed>>

\* Reindexing needs the report and, from the mirror, the source.
Usable(t, c) == t \in Refreshers \/ c \in rows \cap sources \cap blobs

NextItem(t) ==
    /\ At(t, "next")
    /\ \/ /\ thr[t].todo = {}
          /\ Return(t)
       \/ \E c \in thr[t].todo :
             thr' = [thr EXCEPT ![t].c = c, ![t].todo = @ \ {c},
                                ![t].pc = IF ~Usable(t, c) THEN "next"
                                          ELSE IF t \in Refreshers THEN "lock" ELSE "scip"]
    /\ UNCHANGED <<tree, index, versions, done, booted, failed>>

\* An error return, a cancelled context or a kill, at any point.
Fail(t) ==
    /\ Faults /\ ~At(t, "idle")
    /\ Return(t)
    /\ failed' = TRUE
    /\ UNCHANGED <<tree, index, versions, done, booted>>

\* BackfillSourceIndexFlags, before the server accepts anything.
Boot ==
    /\ ~booted
    /\ \A t \in Threads : At(t, "idle")
    /\ flag' = flag \cup {c \in scip : c[1] \in Starlark}
    /\ booted' = TRUE
    /\ UNCHANGED <<tree, rows, scip, sized, versions, thr, done, failed>>

MirrorStep(t) == \/ Fetch(t) \/ BlobClose(t) \/ WriteSource(t) \/ WriteModuleBazel(t)
                 \/ MergeRead(t) \/ MergeWrite(t)
IndexStep(t)  == \/ Report(t) \/ Canonical(t) \/ Hydrate(t) \/ WriteScipBlob(t)
                 \/ SetHasSourceIndex(t) \/ SetTarballSize(t)

IngestNext ==
    \/ \E t \in Threads : \/ \E c \in Coord : Start(t, c)
                          \/ MirrorStep(t) \/ IndexStep(t)
                          \/ StartRefresh(t) \/ StartReindex(t) \/ NextItem(t) \/ Fail(t)
    \/ Boot

IngestSpec == IngestInit /\ [][IngestNext]_ingestVars

-----------------------------------------------------------------------------
Listed == {c \in Coord : c[2] \in versions[c[1]]}

\* The versions whose files are in the tree, but for an empty MODULE.bazel.
Whole == blobs \cap sources \cap (modfiles \cup EmptyModule)

(* What the registry advertises can be fetched: a version appears in       *)
(* metadata.json only once its archive, source.json and MODULE.bazel (if   *)
(* that is not empty) are in the tree, wherever a writer was interrupted   *)
(* and however writers of the same or other versions interleave.           *)
TreeServable == Listed \subseteq Whole

(* The per-name mutex of a Writer: what a walk has mirrored stays listed   *)
(* while the other workers merge their versions of the same module.        *)
MirroredStaysListed == done \subseteq Listed

(* When no call is in flight and none has failed, has_source_index is true *)
(* exactly for the versions whose stored SCIP blob holds files, whatever   *)
(* order concurrent bumps of one coordinate and a reindex replaced the row *)
(* in.                                                                     *)
FlagMatchesBlob ==
    ~failed /\ (\A t \in Threads : At(t, "idle")) => flag = {c \in scip : c[1] \in Starlark}

(* A bump indexes what it has published: a row under a version somebody    *)
(* asked for has its version in the tree.                                  *)
IndexedIsMirrored == \A c \in rows : c[2] \in Versions => c \in blobs \cap sources

(***************************************************************************)
(* What comments in the code say and the code does not do.                 *)
(***************************************************************************)
(* "callers that have a canonical coordinate (e.g. registry-mode ingest)   *)
(* must override Name/Version before writing" (ingest/ingest.go:22): a     *)
(* bump stores no row under the placeholder of the archive.                *)
CanonicalRows == \A c \in rows : c[2] \in Versions

(* "reconciled at boot via BackfillSourceIndexFlags"                       *)
(* (bzlhub/service_modules.go:94): after boot the flag is right.           *)
ReconciledAtBoot == booted => flag = {c \in scip : c[1] \in Starlark}
=============================================================================
