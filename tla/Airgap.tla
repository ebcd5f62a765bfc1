------------------------------- MODULE Airgap -------------------------------
(***************************************************************************)
(* The external URL surface: what an ingest writes next to the report of a *)
(* coordinate (the URLs its rules fetch, the extensions it uses, the       *)
(* sources of the extensions it defines), and what AirgapSurface and       *)
(* AirgapDownloaderConfig make of it over the closure of a root.  The rows *)
(* hang off the version row, which every WriteReport deletes and inserts   *)
(* again, taking them along.                                               *)
(***************************************************************************)
EXTENDS DepGraph

CONSTANTS
    OwnRefs,     \* per coordinate, the references an analysis of its tree finds
    Uses,        \* pairs <<consumer coordinate, name of the module whose extension it uses>>
    DrivenRefs,  \* per coordinate, the references its extension yields for real tags
    Placeholder, \* per coordinate, the coordinate its archive's MODULE.bazel may carry
    MaxBumps     \* bound: ingests

\* The references there are.
References == UNION (Range(OwnRefs) \cup Range(DrivenRefs))

ASSUME AirgapAssumption ==
    \A D \in Declarations : DOMAIN D \subseteq DOMAIN OwnRefs \cap DOMAIN DrivenRefs

VARIABLES
    refs,      \* external_refs: the references of each coordinate
    usages,    \* module_extension_usages: the rows of Uses present
    sources,   \* module_extension_sources: the coordinates with rows
    ing,       \* the ingest in progress
    analysed,  \* history: coordinates whose last ingest succeeded, surface included
    bumps,     \* ingests begun
    surf       \* the surface request in progress

surfaceVars == <<refs, usages, sources, ing, analysed, bumps, surf>>
airgapVars == <<graphVars, surfaceVars>>

NoIngest == [pc |-> "idle", at |-> <<"", "">>, found |-> <<"", "">>, hydrate |-> FALSE, ok |-> FALSE]

NoSurface == [pc |-> "idle", todo |-> <<>>, own |-> {}, list |-> {}, missing |-> {},
              capped |-> FALSE, quiet |-> TRUE, clean |-> TRUE]

SurfaceInit ==
    /\ refs = [c \in DOMAIN decl |-> {}] /\ usages = {} /\ sources = {}
    /\ ing = NoIngest /\ analysed = {} /\ bumps = 0
    /\ surf = NoSurface

AirgapInit == DepGraphInit /\ stored = {} /\ SurfaceInit

(***************************************************************************)
(* Ingest                                                                  *)
(***************************************************************************)

\* A request under way no longer sees one state of the store.
Unsettle == surf' = [surf EXCEPT !.quiet = (surf.pc = "idle")]

\* Bump analyses under the coordinate its archive carries; FromMirroredVersion,
\* which the watcher calls, overrides it first and does not hydrate.
BeginIngest ==
    /\ ing.pc = "idle" /\ bumps < MaxBumps
    /\ \E c \in Coordinates \cap DOMAIN Placeholder, found \in Coordinates, hydrate \in BOOLEAN :
         /\ found \in {c, Placeholder[c]}
         /\ ing' = [NoIngest EXCEPT !.pc = "report", !.at = c, !.found = found, !.hydrate = hydrate]
         /\ analysed' = analysed \ {c}
    /\ bumps' = bumps + 1
    /\ UNCHANGED <<graphVars, refs, usages, sources, surf>>

\* WriteReport: the version row is deleted, its dependent rows cascade, and a
\* new row is inserted.
ReplaceVersion(c) ==
    /\ stored' = stored \cup {c}
    /\ refs' = [refs EXCEPT ![c] = {}]
    /\ usages' = {u \in usages : u[1] # c}
    /\ sources' = sources \ {c}
    /\ UNCHANGED <<decl, graph, missing, ingests>>

WriteFoundReport ==
    /\ ing.pc = "report"
    /\ ReplaceVersion(ing.found)
    /\ ing' = [ing EXCEPT !.pc = "refs"]
    /\ Unsettle
    /\ UNCHANGED <<analysed, bumps>>

\* Store.WriteExternalRefs: one transaction replaces the rows of a coordinate.
InsertRefs(c, rs) == refs' = [refs EXCEPT ![c] = rs]

\* The analysis and its transaction: a failure ends the surface, not the ingest.
WriteExternalRefs ==
    /\ ing.pc = "refs"
    /\ \/ /\ InsertRefs(ing.found, OwnRefs[ing.at])
          /\ ing' = [ing EXCEPT !.pc = "usages"]
       \/ /\ ing' = [ing EXCEPT !.pc = "canonical"]
          /\ UNCHANGED refs
    /\ Unsettle
    /\ UNCHANGED <<graphVars, usages, sources, analysed, bumps>>

\* Store.WriteUseExtensionUsages replaces the rows of a consumer.
InsertUsages(c, names) == usages' = {u \in usages : u[1] # c} \cup ({c} \X names)

\* scanMODULEBazelUsages: the modules whose extensions MODULE.bazel calls.
ScanUsages(c) == {u[2] : u \in {x \in Uses : x[1] = c}}

\* A scan that fails is skipped; a write that fails ends the surface.
WriteUseExtensionUsages ==
    /\ ing.pc = "usages"
    /\ \/ /\ InsertUsages(ing.found, ScanUsages(ing.at))
          /\ ing' = [ing EXCEPT !.pc = "sources"]
       \/ /\ ing' \in {[ing EXCEPT !.pc = "sources"], [ing EXCEPT !.pc = "canonical"]}
          /\ UNCHANGED usages
    /\ Unsettle
    /\ UNCHANGED <<graphVars, refs, sources, analysed, bumps>>

\* readExtensionSources: whether the tree has files that declare an extension.
HasExtensions(c) == DrivenRefs[c] # {}

WriteModuleExtensionSources ==
    /\ ing.pc = "sources"
    /\ \/ /\ sources' = IF HasExtensions(ing.at) THEN sources \cup {ing.found} ELSE sources
          /\ ing' = [ing EXCEPT !.pc = "canonical", !.ok = TRUE]
       \/ /\ ing' = [ing EXCEPT !.pc = "canonical"]
          /\ UNCHANGED sources
    /\ Unsettle
    /\ UNCHANGED <<graphVars, refs, usages, analysed, bumps>>

\* Bump stores the report again under the registry's coordinate if it differs.
Canonicalize ==
    /\ ing.pc = "canonical"
    /\ IF ing.found = ing.at
       THEN UNCHANGED <<graphVars, refs, usages, sources, surf>>
       ELSE ReplaceVersion(ing.at) /\ Unsettle
    /\ ing' = [ing EXCEPT !.pc = "hydrate"]
    /\ UNCHANGED <<analysed, bumps>>

\* Attribute hydration persists the report once more.
HydrateReport ==
    /\ ing.pc = "hydrate"
    /\ IF ing.hydrate
       THEN ReplaceVersion(ing.at) /\ Unsettle
       ELSE UNCHANGED <<graphVars, refs, usages, sources, surf>>
    /\ ing' = NoIngest
    /\ analysed' = IF ing.ok THEN analysed \cup {ing.at} ELSE analysed
    /\ UNCHANGED bumps

(***************************************************************************)
(* ExternalSurface, AirgapSurface                                          *)
(***************************************************************************)

\* GetUseExtensionUsagesForExtension: the label names the module, not a version.
GetUsages(name) == {u \in usages : u[2] = name}

\* corpusUsagesForExtensions: the calls the corpus makes of a module's extension.
CorpusUsages(c) == IF c \in stored THEN GetUsages(c[1]) ELSE {}

\* driveCorpusURLs: the stored source of the extension, driven with the tags of
\* those consumers.
CorpusRefs(c) == IF c \in sources /\ CorpusUsages(c) # {} THEN DrivenRefs[c] ELSE {}

AirgapSurface(c) ==
    /\ surf.pc = "idle"
    /\ Closure(c)
    /\ surf' = [NoSurface EXCEPT !.pc = "closure", !.quiet = (ing.pc = "idle")]
    /\ UNCHANGED <<refs, usages, sources, ing, analysed, bumps>>

\* The response takes over whether the walk stopped at the depth cap.
SurfaceNodes ==
    /\ surf.pc = "closure" /\ Drawn
    /\ surf' = [surf EXCEPT !.pc = "node", !.todo = graph.nodes,
                            !.capped = graph.capped, !.clean = (graph.failed = {})]
    /\ UNCHANGED <<graphVars, refs, usages, sources, ing, analysed, bumps>>

\* The next node: an external one is listed as missing; a failed read leaves
\* the module in the list without references, and says nothing.
ReadRefs ==
    /\ surf.pc = "node" /\ surf.todo # <<>>
    /\ LET c == Head(surf.todo) IN
         \/ /\ c \in graph.external
            /\ surf' = [surf EXCEPT !.todo = Tail(@), !.missing = @ \cup {c}]
         \/ /\ c \notin graph.external
            /\ surf' = [surf EXCEPT !.todo = Tail(@), !.clean = FALSE]
         \/ /\ c \notin graph.external
            /\ surf' = [surf EXCEPT !.pc = "corpus", !.own = refs[c]]
    /\ UNCHANGED <<graphVars, refs, usages, sources, ing, analysed, bumps>>

\* Mutant: references are told apart by host only.
FirstSeenByHost(list, new) ==
    {list \cup {r \in new : \A x \in list : x.host # r.host}}

\* Duplicates by (URL, platform, file), which url stands for, are dropped: the
\* first seen wins.  A module may have rows that differ in nothing else but the
\* rule, so that one of them is kept.
FirstSeen(list, new) ==
    LET fresh == {r \in new : \A x \in list : x.url # r.url}
    IN  {list \cup kept : kept \in {S \in SUBSET fresh :
            /\ \A r \in fresh : \E x \in S : x.url = r.url
            /\ \A r, x \in S : r.url = x.url => r = x}}

\* The same module's corpus usages, driven anew for this request.
ReadCorpus ==
    /\ surf.pc = "corpus"
    /\ LET c == Head(surf.todo) IN
         \/ \E own \in FirstSeen(surf.list, surf.own) : \E list \in FirstSeen(own, CorpusRefs(c)) :
               surf' = [surf EXCEPT !.pc = "node", !.todo = Tail(@), !.own = {}, !.list = list]
         \/ /\ CorpusRefs(c) # {}   \* the interpreter fails: no references
            /\ \E own \in FirstSeen(surf.list, surf.own) :
                  surf' = [surf EXCEPT !.pc = "node", !.todo = Tail(@), !.own = {}, !.list = own, !.clean = FALSE]
    /\ UNCHANGED <<graphVars, refs, usages, sources, ing, analysed, bumps>>

SurfaceDone ==
    /\ surf.pc = "node" /\ surf.todo = <<>>
    /\ surf' = [surf EXCEPT !.pc = "done"]
    /\ UNCHANGED <<graphVars, refs, usages, sources, ing, analysed, bumps>>

(***************************************************************************)
(* AirgapDownloaderConfig, which is made of the response's list alone: it   *)
(* carries over neither the missing modules nor the depth cap nor the      *)
(* interpreter's failures.                                                 *)
(***************************************************************************)

Rewritable(r) == ~r.tainted /\ r.url # "<unresolved>" /\ r.host # ""

\* The hosts with a rewrite line, and the URLs listed for manual attention.
RewrittenHosts == {r.host : r \in {x \in surf.list : Rewritable(x)}}
ManualURLs == {r.url : r \in {x \in surf.list : ~Rewritable(x)}}

AirgapNext ==
    \/ BeginIngest \/ WriteFoundReport \/ WriteExternalRefs \/ WriteUseExtensionUsages
    \/ WriteModuleExtensionSources \/ Canonicalize \/ HydrateReport
    \/ \E c \in Coordinates : AirgapSurface(c)
    \/ Expand /\ UNCHANGED surfaceVars
    \/ GraphReady /\ UNCHANGED surfaceVars
    \/ SurfaceNodes \/ ReadRefs \/ ReadCorpus \/ SurfaceDone

AirgapSpec == AirgapInit /\ [][AirgapNext]_airgapVars

(***************************************************************************)
(* Properties                                                              *)
(***************************************************************************)

\* A surface response collected while no ingest wrote and no read failed answers
\* for the whole closure.  Every URL that an indexed module within the depth cap
\* may fetch is in its list, and so under a rewrite line or among the manual URLs
\* of the config made of it; its missing modules are the coordinates nearer than
\* the cap that have no report; and unless it says that the cap was reached
\* nothing of the closure lies at the cap.  The last two are said of the
\* response only: the config drops them.  (AirgapSurface, over many reads of the
\* store.)
NothingSilentlyOmitted ==
    surf.pc = "done" /\ surf.quiet /\ surf.clean =>
        /\ \A c \in Within(stored, closureMaxDepth) \cap stored : \A r \in refs[c] \cup CorpusRefs(c) :
             \E x \in surf.list : x.url = r.url /\ (x.host \in RewrittenHosts \/ x.url \in ManualURLs)
        /\ surf.missing = Within(stored, closureMaxDepth - 1) \ stored
        /\ Within(stored, closureMaxDepth) \subseteq Within(stored, closureMaxDepth - 1) \/ surf.capped

\* What an ingest analysed is what the coordinate shows: after an ingest whose
\* surface was written, and until the next one, external_refs holds the
\* references of the coordinate.  (api/bzlhub.go:409-414, on ExternalSurface:
\* "Populated by bzlhub/internal/external.IngestModule during ingest".)
IngestedSurfaceKept == \A c \in analysed : refs[c] = OwnRefs[c]

=============================================================================
