---- MODULE SourceCache ----
(***************************************************************************)
(* The unpacked-source cache that code-nav, the summaries, the example     *)
(* files and the reindex command share: internal/codenav unpacks the       *)
(* mirrored archive of a coordinate into <cache>/<module>/<version> on     *)
(* first use and leaves a sentinel file there.                             *)
(*                                                                         *)
(* Two kinds of call reach the directory.  A "resolve" goes through the    *)
(* Resolver's LRU, whose entries carry a sync.Once and keep the outcome,   *)
(* failures included.  A "materialize" (Summary, ExampleFiles, reindexOne) *)
(* calls unpackSource directly and takes no lock.                          *)
(***************************************************************************)
EXTENDS Naturals, Sequences, FiniteSets

CONSTANTS
    Coords,         \* coordinates that are looked up
    SourceCalls,    \* one-shot calls into the cache
    MaterializeOnly,\* the calls that take no Resolver entry
    Members,        \* 1..Members are the files of every archive, in order
    MaxEntries,     \* Resolver.maxEntries
    MaxMirrored,    \* bound: times a coordinate's archive is (re-)mirrored
    MaxSourceCrash  \* bound: process crashes

ASSUME SourceAssumption ==
    /\ IsFiniteSet(SourceCalls) /\ MaterializeOnly \subseteq SourceCalls
    /\ Members \in Nat \ {0} /\ MaxEntries \in Nat \ {0}
    /\ MaxMirrored \in Nat /\ MaxSourceCrash \in Nat

VARIABLES
    mirrored,       \* coord -> revision of the mirrored archive, 0 = none
    tree,           \* coord -> the directory under the sources cache
    lru,            \* Resolver.order: entries, newest first
    entry,          \* the entries ever made in this process, by number
    call,           \* call -> where it stands
    overlapped,     \* history: coords two calls have unpacked at a time
    sourceCrashes

sourceVars == <<mirrored, tree, lru, entry, call, overlapped, sourceCrashes>>

NoTree == [exists |-> FALSE, files |-> {}, sentinel |-> FALSE]

IdleCall == [pc |-> "idle", coord |-> "none", entry |-> 0, rev |-> 0, next |-> 1]

\* Between the sentinel check and the sentinel write, per coordinate.
Unpackers(m) == {c \in SourceCalls : call[c].coord = m
                    /\ call[c].pc \in {"clear", "open", "extract", "seal"}}

SourceInit ==
    /\ mirrored = [m \in Coords |-> 0]
    /\ tree = [m \in Coords |-> NoTree]
    /\ lru = <<>> /\ entry = <<>>
    /\ call = [c \in SourceCalls |-> IdleCall]
    /\ overlapped = {} /\ sourceCrashes = 0

\* Every step of a call leaves this history behind.
NoteOverlap ==
    overlapped' = overlapped \cup {m \in Coords : Cardinality(Unpackers(m)') > 1}

\* An ingest puts the coordinate's source.json and blob into the mirror, or
\* replaces the source.json by one that names other bytes (external here).
MirrorSource(m) ==
    /\ mirrored[m] < MaxMirrored
    /\ mirrored' = [mirrored EXCEPT ![m] = @ + 1]
    /\ UNCHANGED <<tree, lru, entry, call, overlapped, sourceCrashes>>

\* MaterializeSource: straight to unpackSource.
Materialize(c, m) ==
    /\ c \in MaterializeOnly /\ call[c].pc = "idle"
    /\ call' = [call EXCEPT ![c] = [IdleCall EXCEPT !.pc = "check", !.coord = m]]
    /\ UNCHANGED <<mirrored, tree, lru, entry, sourceCrashes>>
    /\ NoteOverlap

\* Drop the tail while the list is over its limit; the evicted entry object
\* lives on in the calls that hold it.
evictIfFull(s) == SubSeq(s, 1, IF Len(s) > MaxEntries THEN MaxEntries ELSE Len(s))

\* Resolve, up to once.Do: find the entry and move it to the front, or push
\* a fresh one and evict.  All under r.mu.
entryFor(c, m) ==
    /\ c \notin MaterializeOnly /\ call[c].pc = "idle"
    /\ LET others(e) == SelectSeq(lru, LAMBDA x : x # e)
           held == {i \in 1..Len(lru) : entry[lru[i]].coord = m}
           e == IF held = {} THEN Len(entry) + 1 ELSE lru[CHOOSE i \in held : TRUE]
       IN  /\ lru' = IF held = {} THEN evictIfFull(<<e>> \o lru) ELSE <<e>> \o others(e)
           /\ entry' = IF held = {}
                       THEN Append(entry, [coord |-> m, once |-> "fresh", ok |-> FALSE])
                       ELSE entry
           /\ call' = [call EXCEPT ![c] =
                 [IdleCall EXCEPT !.pc = "once", !.coord = m, !.entry = e]]
    /\ UNCHANGED <<mirrored, tree, sourceCrashes>>
    /\ NoteOverlap

\* The outcome of a call; a resolve also settles its entry for good.
Finish(c, ok) ==
    /\ call' = [call EXCEPT ![c].pc = IF ok THEN "served" ELSE "failed"]
    /\ entry' = IF call[c].entry = 0 THEN entry
                ELSE [entry EXCEPT ![call[c].entry].once = "done", ![call[c].entry].ok = ok]

\* once.Do: the first caller builds, later ones wait for it and share what it
\* found.  build starts with the SCIP blob: absent, unparsable, or read under
\* the first caller's cancelled context, it settles the entry with an error.
EnterOnce(c) ==
    /\ call[c].pc = "once"
    /\ LET e == entry[call[c].entry] IN
       \/ /\ e.once = "fresh"
          /\ entry' = [entry EXCEPT ![call[c].entry].once = "building"]
          /\ call' = [call EXCEPT ![c].pc = "check"]
       \/ /\ e.once = "fresh" /\ Finish(c, FALSE)
       \/ /\ e.once = "done"
          /\ call' = [call EXCEPT ![c].pc = IF e.ok THEN "served" ELSE "failed"]
          /\ entry' = entry
    /\ UNCHANGED <<mirrored, tree, lru, sourceCrashes>>
    /\ NoteOverlap

\* extractComplete.
CheckSentinel(c) ==
    /\ call[c].pc = "check"
    /\ IF tree[call[c].coord].sentinel THEN Finish(c, TRUE)
       ELSE call' = [call EXCEPT ![c].pc = "clear"] /\ entry' = entry
    /\ UNCHANGED <<mirrored, tree, lru, sourceCrashes>>
    /\ NoteOverlap

\* A directory without the sentinel is removed.  RemoveAll fails, with some of
\* the tree gone, when another call keeps putting files into it.
ClearPartial(c) ==
    /\ call[c].pc = "clear"
    /\ LET m == call[c].coord IN
       \/ /\ tree' = [tree EXCEPT ![m] = NoTree]
          /\ call' = [call EXCEPT ![c].pc = "open"] /\ entry' = entry
       \/ /\ \E d \in Unpackers(m) \ {c} : call[d].pc = "extract"
          /\ \E left \in SUBSET tree[m].files : tree' = [tree EXCEPT ![m].files = left]
          /\ Finish(c, FALSE)
    /\ UNCHANGED <<mirrored, lru, sourceCrashes>>
    /\ NoteOverlap

\* Mutant: the sentinel is written with the directory, before the extraction.
OpenBlobSeals(c) ==
    /\ call[c].pc = "open"
    /\ LET m == call[c].coord IN
       \/ /\ mirrored[m] > 0
          /\ tree' = [tree EXCEPT ![m].exists = TRUE, ![m].sentinel = TRUE]
          /\ call' = [call EXCEPT ![c].pc = "extract", ![c].rev = mirrored[m]]
          /\ entry' = entry
       \/ /\ mirrored[m] = 0 /\ Finish(c, FALSE) /\ tree' = tree
    /\ UNCHANGED <<mirrored, lru, sourceCrashes>>
    /\ NoteOverlap

\* source.json, its integrity, the blob, and the empty directory.  The open
\* file keeps the bytes of this revision however the mirror changes.
OpenBlob(c) ==
    /\ call[c].pc = "open"
    /\ LET m == call[c].coord IN
       \/ /\ mirrored[m] > 0
          /\ tree' = [tree EXCEPT ![m].exists = TRUE]
          /\ call' = [call EXCEPT ![c].pc = "extract", ![c].rev = mirrored[m]]
          /\ entry' = entry
       \/ /\ mirrored[m] = 0 /\ Finish(c, FALSE) /\ tree' = tree
    /\ UNCHANGED <<mirrored, lru, sourceCrashes>>
    /\ NoteOverlap

\* extractByKind, one archive member at a time: MkdirAll of the parent, then
\* the file.  It fails on a full disk or an unreadable archive, leaving what
\* was written.
ExtractMember(c) ==
    /\ call[c].pc = "extract"
    /\ LET m == call[c].coord IN
       \/ /\ tree' = [tree EXCEPT ![m].exists = TRUE,
                                  ![m].files = {f \in @ : f[2] # call[c].next}
                                                  \cup {<<call[c].rev, call[c].next>>}]
          /\ call' = [call EXCEPT ![c].next = @ + 1,
                                  ![c].pc = IF call[c].next = Members THEN "seal" ELSE @]
          /\ entry' = entry
       \/ /\ Finish(c, FALSE) /\ tree' = tree
    /\ UNCHANGED <<mirrored, lru, sourceCrashes>>
    /\ NoteOverlap

\* The sentinel is the last step; it needs the directory to be there still.
WriteSentinel(c) ==
    /\ call[c].pc = "seal"
    /\ tree' = [tree EXCEPT ![call[c].coord].sentinel = @ \/ tree[call[c].coord].exists]
    /\ Finish(c, tree[call[c].coord].exists)
    /\ UNCHANGED <<mirrored, lru, sourceCrashes>>
    /\ NoteOverlap

\* The process dies and comes back: the Resolver is new, the disk is not.
CrashSources ==
    /\ sourceCrashes < MaxSourceCrash
    /\ sourceCrashes' = sourceCrashes + 1
    /\ lru' = <<>> /\ entry' = <<>>
    /\ call' = [c \in SourceCalls |->
                  IF call[c].pc = "idle" THEN call[c] ELSE [call[c] EXCEPT !.pc = "gone", !.entry = 0]]
    /\ UNCHANGED <<mirrored, tree, overlapped>>

SourceNext ==
    \/ \E m \in Coords : MirrorSource(m)
    \/ \E c \in SourceCalls, m \in Coords : Materialize(c, m)
    \/ \E c \in SourceCalls, m \in Coords : entryFor(c, m)
    \/ \E c \in SourceCalls : EnterOnce(c)
    \/ \E c \in SourceCalls : CheckSentinel(c)
    \/ \E c \in SourceCalls : ClearPartial(c)
    \/ \E c \in SourceCalls : OpenBlob(c)
    \/ \E c \in SourceCalls : ExtractMember(c)
    \/ \E c \in SourceCalls : WriteSentinel(c)
    \/ CrashSources

SourceSpec == SourceInit /\ [][SourceNext]_sourceVars

Complete(t) == \E r \in 1..MaxMirrored : t.files = {r} \X (1..Members)

\* As long as no two calls unpack a coordinate at a time, the sentinel stands
\* only over a whole tree of one revision: neither a crash between two members
\* nor a failed extraction leaves one that the next call would trust.
SentinelIsHonest ==
    \A m \in Coords : tree[m].sentinel /\ m \notin overlapped => Complete(tree[m])

\* unpack.go says the sentinel "marks a finished extract": wherever it stands,
\* the tree under it is complete.
SentinelMeansComplete ==
    \A m \in Coords : tree[m].sentinel => Complete(tree[m])
====
