------------------------------ MODULE MCMirror ------------------------------
(***************************************************************************)
(* The machines around the mirror and the index, for TLC: publishing to    *)
(* the registry repository, following it, verifying the tree, unpacking    *)
(* sources, drift, repository metadata, and the reads over the dependency  *)
(* graph (alone, and with the ingest that writes what Airgap reads).  They *)
(* share no other variable, so a behaviour runs one of them: the initial   *)
(* state chooses which, and the others rest in one initial state of theirs.*)
(***************************************************************************)
EXTENDS Publish, ForgeWatch, Verify, SourceCache, Materialize,
        DriftSync, DriftReport, GitHubMeta, Airgap, SymbolClosure, ClosureDiff, TLC

CONSTANTS Parts,   \* the machines to run
          r1, r2   \* model values: rows

VARIABLE part      \* the machine of this behaviour

mirrorVars == <<part, publishVars, watchVars, verifyVars, sourceVars, matVars,
                driftVars, reportVars, metaVars, airgapVars, symbolVars, diffVars>>

\* Two entries: of every kind, and files up to one byte past the budget's overflow.
SomeEntries == {Entry(k, 0) : k \in EntryKinds} \cup {Entry("file", n) : n \in 1..(MaxBytes + 2)}
TwoEntries == {<<e, f>> : e, f \in SomeEntries}

\* Two versions of one module: what is staged is the directory of a module, so
\* the calls that meet each other's traces are those of one module.
TwoVersions == {<<"m", "1">>, <<"m", "2">>}

OneModule == [r \in {r1, r2} |-> "a"]
\* Versions in string order: a numbered one in two spellings, and one that is not.
SomeVersions == << <<"02">>, <<"10">>, <<"1a">>, <<"2">>, <<"2", "0">> >>
SomeSegments == <<"", "0", "02", "10", "1a", "2">>
SomeNumber == ("0" :> 0) @@ ("02" :> 2) @@ ("10" :> 10) @@ ("2" :> 2)
Listed(s, n) == UNION {{l \in [1..k -> Range(s)] : IsInjective(l)} : k \in 0..n}
InOrder(s) == {<<s[i], s[j]>> : <<i, j>> \in {p \in (DOMAIN s) \X (DOMAIN s) : p[1] < p[2]}}
SomeSegmentSet == Range(SomeSegments)
SomeVersionSet == Range(SomeVersions)
SegmentOrder == InOrder(SomeSegments)
VersionOrder == InOrder(SomeVersions)
SomeListings == Listed(SomeVersions, 3)
SomeYankSets == {{}} \cup {{v} : v \in Range(SomeVersions)}
StartBounds == [sync |-> 2, refresh |-> 1, backfill |-> 1]

AnOffer == [type |-> "", url |-> TRUE, kind |-> "tgz",
            entries |-> <<Entry("file", 1), Entry("dir", 0)>>,
            compressed |-> MaxBytes, tail |-> FALSE, intact |-> TRUE, integrity |-> ""]

(* Coordinates: a module at its version, and under the placeholder version *)
(* its archive carries.                                                    *)
Pin(n)        == <<n, "1">>
Unreleased(n) == <<n, "0.0.0">>

\* A diamond with a cross edge that reaches past the cap, an unpinned
\* dependency, and a cycle.
Diamond == [c \in {Pin("a"), Pin("b"), Pin("c"), Pin("d"), Pin("e")} |->
              CASE c = Pin("a") -> <<Pin("b"), Pin("c"), <<"x", "">>, <<"y", "0">> >>
                [] c = Pin("b") -> <<Pin("d")>>
                [] c = Pin("c") -> <<Pin("d"), Pin("b")>>
                [] c = Pin("d") -> <<Pin("e")>>
                [] OTHER       -> <<>>]
Cycle == [c \in {Pin("a"), Pin("b"), Pin("c"), Pin("d")} |->
              CASE c = Pin("a") -> <<Pin("b"), Pin("d")>>
                [] c = Pin("b") -> <<Pin("c")>>
                [] c = Pin("c") -> <<Pin("a")>>
                [] OTHER       -> <<Pin("c")>>]

\* A producer of an extension, a consumer of it, and a module never ingested.
Corpus == [c \in {Pin("a"), Pin("b"), Pin("c"), Unreleased("a")} |->
              CASE c \in {Pin("a"), Unreleased("a")} -> <<Pin("b")>>
                [] c = Pin("b")               -> <<Pin("c"), Pin("a")>>
                [] OTHER                     -> <<>>]

SomeDeclarations == {Diamond, Cycle, Corpus}

Ref(u, h, t) == [url |-> u, host |-> h, tainted |-> t]

Everywhere == UNION {DOMAIN D : D \in SomeDeclarations}
SomeOwnRefs == [c \in Everywhere |->
              CASE c[1] = "a" -> {Ref("u1", "h1", FALSE)}
                [] c[1] = "b" -> {Ref("u2", "h1", TRUE), Ref("u2", "h1", FALSE), Ref("u1", "h1", FALSE)}
                [] OTHER      -> {}]
SomeUses == {<<Pin("b"), "a">>}
SomeDrivenRefs == [c \in Everywhere |-> IF c[1] = "a" THEN {Ref("u3", "", FALSE)} ELSE {}]
SomePlaceholder == [c \in {Pin("a"), Pin("b")} |-> IF c = Pin("a") THEN Unreleased("a") ELSE c]

(* Two versions of "a" met on the way, the greater one under another       *)
(* repository name, with dependencies of its own; dev dependencies.        *)
Dep(n, v, r)  == [name |-> n, version |-> v, repo |-> r, dev |-> FALSE]
DevDep(n, v)  == [name |-> n, version |-> v, repo |-> n, dev |-> TRUE]
SomeCorpora == {
    [root |-> <<Dep("b", 1, "b"), Dep("c", 1, "c"), DevDep("t", 1)>>,
     of   |-> [c \in {<<"b", 1>>, <<"c", 1>>, <<"t", 1>>, <<"a", 1>>, <<"a", 2>>, <<"d", 1>>} |->
                 CASE c = <<"b", 1>> -> <<Dep("a", 1, "a"), DevDep("u", 1), Dep("e", 0, "e")>>
                   [] c = <<"c", 1>> -> <<Dep("a", 2, "aa")>>
                   [] c = <<"a", 2>> -> <<Dep("d", 1, "d"), Dep("b", 1, "b")>>
                   [] OTHER          -> <<>>]]}

-----------------------------------------------------------------------------
\* An idle machine starts in one state only.
MirrorInit ==
    /\ part \in Parts
    /\ part # "publish" => mode = "git-direct"
    /\ part # "watch" => branch = 0
    /\ part # "materialize" => offer = AnOffer /\ caller = [capture |-> FALSE, fallback |-> FALSE]
    /\ part # "drift" => rows = [r \in Rows |-> Absent]
    /\ part # "meta" => visible = TRUE
    /\ part # "graph" => decl = Corpus /\ stored = {}
    /\ part # "symbols" => modfiles = {}
    /\ part # "diff" => fromClosure = Empty /\ toClosure = Empty
    /\ PublishInit /\ WatchInit /\ VerifyInit /\ SourceInit /\ MatInit
    /\ DriftInit /\ ReportInit /\ MetaInit
    /\ DepGraphInit /\ SurfaceInit /\ SymbolInit /\ DiffInit

Only(p) ==
    /\ part = p /\ UNCHANGED part
    /\ p # "publish"     => UNCHANGED publishVars
    /\ p # "watch"       => UNCHANGED watchVars
    /\ p # "verify"      => UNCHANGED verifyVars
    /\ p # "source"      => UNCHANGED sourceVars
    /\ p # "materialize" => UNCHANGED matVars
    /\ p # "drift"       => UNCHANGED driftVars
    /\ p # "report"      => UNCHANGED reportVars
    /\ p # "meta"        => UNCHANGED metaVars
    /\ p \notin {"graph", "airgap"} => UNCHANGED graphVars
    /\ p # "airgap"      => UNCHANGED surfaceVars
    /\ p # "symbols"     => UNCHANGED symbolVars
    /\ p # "diff"        => UNCHANGED diffVars

MirrorNext ==
    \/ Only("publish") /\ PublishNext
    \/ Only("watch") /\ WatchNext
    \/ Only("verify") /\ VerifyNext
    \/ Only("source") /\ SourceNext
    \/ Only("materialize") /\ MatNext
    \/ Only("drift") /\ DriftNext
    \/ Only("report") /\ ReportNext
    \/ Only("meta") /\ MetaNext
    \/ Only("graph") /\ DepGraphNext
    \/ Only("airgap") /\ AirgapNext
    \/ Only("symbols") /\ SymbolNext
    \/ Only("diff") /\ DiffNext

MirrorSpec == MirrorInit /\ [][MirrorNext]_mirrorVars

=============================================================================
