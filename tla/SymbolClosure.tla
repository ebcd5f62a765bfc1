---------------------------- MODULE SymbolClosure ----------------------------
(***************************************************************************)
(* TransitiveClosure (internal/scip): the closure an index of a module's   *)
(* symbols is resolved against.  A walk over (module, version) pairs in    *)
(* which the greatest version of a module wins, asking for each pair first *)
(* the store and then the mirror's MODULE.bazel, while both are written.   *)
(***************************************************************************)
EXTENDS Naturals, Sequences, Functions

CONSTANTS
    Corpora    \* what may be declared: [root : the root's dependencies,
               \* of : coordinate -> dependencies]; a dependency is
               \* [name, version, repo, dev], its version 0 if it has none
               \* (numbers stand for version strings, in string order)

ASSUME SymbolAssumption ==
    \A c \in Corpora : \A ds \in {c.root} \cup {c.of[x] : x \in DOMAIN c.of} :
        /\ ds \in Seq(Range(ds))
        /\ \A d \in Range(ds) : d.version \in Nat

VARIABLES
    corpus,    \* the declarations
    reports,   \* coordinates whose report is in the store
    modfiles,  \* coordinates whose MODULE.bazel is in the mirror
    queue,     \* coordinates whose own dependencies are still to expand
    listed,    \* what is left to record of the dependencies being recorded
    best,      \* the winning version of each module met
    resolved,  \* repository name -> coordinate
    asked,     \* history: the answer each expanded coordinate got
    symbols    \* "idle", "root" (its dependencies are recorded), "walk" or "done"

symbolVars == <<corpus, reports, modfiles, queue, listed, best, resolved, asked, symbols>>

Empty == [x \in {} |-> x]

Known == DOMAIN corpus.of

SymbolInit ==
    /\ corpus \in Corpora
    /\ reports = {} /\ modfiles \in SUBSET DOMAIN corpus.of
    /\ queue = <<>> /\ listed = <<>> /\ best = Empty /\ resolved = Empty /\ asked = Empty
    /\ symbols = "idle"

(***************************************************************************)
(* The sources                                                             *)
(***************************************************************************)

NoAnswer == <<"none">>

DepsFromStore(c) == IF c \in reports THEN <<"deps", corpus.of[c]>> ELSE NoAnswer

DepsFromModuleBazel(c) == IF c \in modfiles THEN <<"deps", corpus.of[c]>> ELSE NoAnswer

\* The first source that answers; an error of a source counts as no answer.
FirstOf(c) ==
    IF DepsFromStore(c) # NoAnswer THEN DepsFromStore(c) ELSE DepsFromModuleBazel(c)

(***************************************************************************)
(* The walk                                                                *)
(***************************************************************************)

VersionIsNewer(candidate, known) == candidate > known

\* Mutant: a module that was met is never expanded again.
PromotedOnce(b, d) == d.version # 0 /\ d.name \notin DOMAIN b

\* record: whether a dependency is new, or strictly newer than what was known.
Promoted(b, d) ==
    d.version # 0 /\ (d.name \in DOMAIN b => VersionIsNewer(d.version, b[d.name]))

\* The root's dependencies are to be recorded, its dev dependencies included.
StartSymbols ==
    /\ symbols = "idle"
    /\ symbols' = "root"
    /\ listed' = corpus.root
    /\ UNCHANGED <<corpus, reports, modfiles, queue, best, resolved, asked>>

\* The dev dependencies of any other module are passed over.
Ignored(d) == symbols = "walk" /\ d.dev

\* The next dependency: one that is promoted will be expanded.
Record ==
    /\ symbols \in {"root", "walk"} /\ listed # <<>>
    /\ listed' = Tail(listed)
    /\ LET d == Head(listed)
           c == <<d.name, d.version>>
       IN  \/ /\ ~Ignored(d) /\ Promoted(best, d)
              /\ best' = [n \in DOMAIN best \cup {d.name} |-> IF n = d.name THEN d.version ELSE best[n]]
              /\ resolved' = [r \in DOMAIN resolved \cup {d.repo} |-> IF r = d.repo THEN c ELSE resolved[r]]
              /\ queue' = Append(queue, c)
           \/ /\ Ignored(d) \/ ~Promoted(best, d)
              /\ UNCHANGED <<best, resolved, queue>>
    /\ UNCHANGED <<corpus, reports, modfiles, asked, symbols>>

\* The next turn of the loop.  A pair no source can answer for ends there.
ExpandSymbols ==
    /\ symbols \in {"root", "walk"} /\ listed = <<>> /\ queue # <<>>
    /\ symbols' = "walk"
    /\ queue' = Tail(queue)
    /\ LET c == Head(queue)
       IN  /\ \/ FirstOf(c) # NoAnswer /\ listed' = FirstOf(c)[2]
              \/ FirstOf(c) = NoAnswer /\ listed' = <<>>
           /\ asked' = [x \in DOMAIN asked \cup {c} |-> IF x = c THEN listed' ELSE asked[x]]
    /\ UNCHANGED <<corpus, reports, modfiles, best, resolved>>

SymbolsDone ==
    /\ symbols \in {"root", "walk"} /\ listed = <<>> /\ queue = <<>>
    /\ symbols' = "done"
    /\ UNCHANGED <<corpus, reports, modfiles, queue, listed, best, resolved, asked>>

\* An ingest writes the mirror first and the store later.
MirrorModule ==
    /\ \E c \in Known \ modfiles : modfiles' = modfiles \cup {c}
    /\ UNCHANGED <<corpus, reports, queue, listed, best, resolved, asked, symbols>>

ReportModule ==
    /\ \E c \in modfiles \ reports : reports' = reports \cup {c}
    /\ UNCHANGED <<corpus, modfiles, queue, listed, best, resolved, asked, symbols>>

SymbolNext == StartSymbols \/ Record \/ ExpandSymbols \/ SymbolsDone \/ MirrorModule \/ ReportModule

SymbolSpec == SymbolInit /\ [][SymbolNext]_symbolVars

(***************************************************************************)
(* Properties                                                              *)
(***************************************************************************)

\* The dependencies that count of a module other than the root.
NonDev(ds) == {d \in Range(ds) : ~d.dev}

\* The finished closure is closed under the winners: every winning version was
\* expanded, no dependency of the root or of a winner asks for a version newer
\* than the winner of its module, every winner came from a dependency that was
\* read, and a repository name stands for a version no newer than the winner.
\* (closure_walk.go: the re-expansion when a later, greater version wins.)
WinnersExpanded ==
    symbols = "done" =>
        LET seen == Range(corpus.root) \cup UNION {NonDev(asked[c]) : c \in DOMAIN asked}
            held == Range(corpus.root) \cup UNION {NonDev(asked[<<n, best[n]>>]) : n \in DOMAIN best}
        IN  /\ \A n \in DOMAIN best : <<n, best[n]>> \in DOMAIN asked
            /\ \A d \in held : d.version # 0 => d.name \in DOMAIN best /\ d.version <= best[d.name]
            /\ \A n \in DOMAIN best : \E d \in seen : d.name = n /\ d.version = best[n]
            /\ \A r \in DOMAIN resolved : resolved[r][2] <= best[resolved[r][1]]

=============================================================================
