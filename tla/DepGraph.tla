------------------------------ MODULE DepGraph ------------------------------
(***************************************************************************)
(* The dependency graph bzlhub draws from the reports it has stored:       *)
(* Service.Closure, its counterpart ReverseDeps, and IngestClosureMissing, *)
(* which bumps every coordinate the graph left the index for.  The store   *)
(* keeps changing while a walk reads it: every report is a read of its     *)
(* own.                                                                    *)
(***************************************************************************)
EXTENDS Naturals, Sequences, FiniteSets, Functions

CONSTANTS
    Declarations,     \* the dependency declarations the walks are tried on:
                      \* functions from coordinates <<name, version>> to the
                      \* sequence of coordinates their report names
    closureMaxDepth,  \* the depth cap of the walk
    MaxIngests        \* bound: reports other requests store during a walk

\* The version strings "" and "0" mark a dependency with nowhere to go.
Unpinned == {"", "0"}

\* The dependencies of a list that can be followed.
Pinned(ds) == {d \in Range(ds) : d[2] \notin Unpinned}

ASSUME DepGraphAssumption ==
    /\ closureMaxDepth \in Nat \ {0}
    /\ \A D \in Declarations : \A c \in DOMAIN D :
          /\ D[c] \in Seq(Range(D[c]))
          /\ Pinned(D[c]) \subseteq DOMAIN D

VARIABLES
    decl,      \* the declarations of this corpus
    stored,    \* the coordinates with a report in the store
    graph,     \* the ClosureGraph being built, with the walk's queue
    missing,   \* IngestClosureMissing: the external nodes still to bump
    ingests    \* reports stored by other requests so far

graphVars == <<decl, stored, graph, missing, ingests>>

Coordinates == DOMAIN decl

\* GetReport: the dependencies of a stored report.
BazelDeps(c) == decl[c]

\* failed and base are history, and so is level: the depth at which a node was
\* first taken from the queue.
NoGraph == [walking |-> FALSE, root |-> <<"", "">>, queue |-> <<>>, nodes |-> <<>>,
            external |-> {}, edges |-> {}, capped |-> FALSE,
            failed |-> {}, base |-> {}, level |-> [c \in {} |-> 0]]

DepGraphInit ==
    /\ decl \in Declarations
    /\ stored \in SUBSET DOMAIN decl
    /\ graph = NoGraph
    /\ missing = <<>>
    /\ ingests = 0

(***************************************************************************)
(* Closure                                                                 *)
(***************************************************************************)

Closure(c) ==
    /\ graph.nodes = <<>> /\ ~graph.walking
    /\ graph' = [NoGraph EXCEPT !.walking = TRUE, !.root = c, !.base = stored,
                                !.queue = <<[at |-> c, depth |-> 0]>>]
    /\ UNCHANGED <<decl, stored, missing, ingests>>

\* addNode: a coordinate becomes a node when it is taken from the queue.
AddNode(g, cur) ==
    IF cur.at \in Range(g.nodes) THEN g
    ELSE [g EXCEPT !.nodes = Append(@, cur.at),
                   !.level = [c \in DOMAIN @ \cup {cur.at} |-> IF c = cur.at THEN cur.depth ELSE @[c]]]

\* The positions of I in their order (the set of the one such sequence).
Ascending(I) ==
    {f \in [1..Cardinality(I) -> I] :
        I \subseteq Range(f) /\ \A i, j \in DOMAIN f : i < j => f[i] < f[j]}

\* The children of cur not yet visited, one level deeper.
NewChildren(cur, nodes) ==
    LET ds  == BazelDeps(cur.at)
        new == {i \in DOMAIN ds : ds[i] \in Pinned(ds) \ Range(nodes)}
    IN  {[i \in DOMAIN f |-> [at |-> ds[f[i]], depth |-> cur.depth + 1]] : f \in Ascending(new)}

\* Mutant: the cap is applied one level late.
AtCapLate(depth) == depth > closureMaxDepth

AtCap(depth) == depth >= closureMaxDepth

\* One turn of the loop: at the cap the node stays a leaf; without a report it
\* is external, and so is one whose read fails (at most one per walk here);
\* otherwise its dependencies become edges, and children go to the end of the
\* queue: once more for every other parent expanded before they are taken.
Expand ==
    /\ graph.walking /\ graph.queue # <<>>
    /\ LET cur == Head(graph.queue)
           g   == AddNode([graph EXCEPT !.queue = Tail(@)], cur)
       IN  \/ /\ AtCap(cur.depth)
              /\ graph' = [g EXCEPT !.capped = TRUE]
           \/ /\ ~AtCap(cur.depth)
              /\ cur.at \notin stored
              /\ graph' = [g EXCEPT !.external = @ \cup {cur.at}]
           \/ /\ ~AtCap(cur.depth)   \* a failed read looks the same
              /\ cur.at \in stored /\ graph.failed = {}
              /\ graph' = [g EXCEPT !.external = @ \cup {cur.at}, !.failed = {cur.at}]
           \/ /\ ~AtCap(cur.depth)
              /\ cur.at \in stored
              /\ \E children \in NewChildren(cur, g.nodes) :
                    graph' = [g EXCEPT !.edges = @ \cup ({cur.at} \X Pinned(BazelDeps(cur.at))),
                                       !.queue = @ \o children]
    /\ UNCHANGED <<decl, stored, missing, ingests>>

GraphReady ==
    /\ graph.walking /\ graph.queue = <<>>
    /\ graph' = [graph EXCEPT !.walking = FALSE]
    /\ UNCHANGED <<decl, stored, missing, ingests>>

(***************************************************************************)
(* ReverseDeps, and IngestClosureMissing                                   *)
(***************************************************************************)

ReverseDeps(c) == {p \in stored : c \in Range(BazelDeps(p))}

Drawn == ~graph.walking /\ graph.nodes # <<>>

IngestClosureMissing ==
    /\ Drawn /\ missing = <<>>
    /\ \E f \in Ascending({i \in DOMAIN graph.nodes : graph.nodes[i] \in graph.external}) :
          missing' = [i \in DOMAIN f |-> graph.nodes[f[i]]]
    /\ missing' # <<>>
    /\ UNCHANGED <<decl, stored, graph, ingests>>

\* Bump of the next external coordinate: a failure is counted, never fatal.
BumpMissing ==
    /\ missing # <<>>
    /\ missing' = Tail(missing)
    /\ stored' \in {stored, stored \cup {Head(missing)}}
    /\ UNCHANGED <<decl, graph, ingests>>

\* Another request stores a report.
StoreReport ==
    /\ ingests < MaxIngests
    /\ \E c \in Coordinates \ stored : stored' = stored \cup {c}
    /\ ingests' = ingests + 1
    /\ UNCHANGED <<decl, graph, missing>>

DepGraphNext ==
    \/ \E c \in Coordinates : Closure(c)
    \/ Expand
    \/ GraphReady
    \/ IngestClosureMissing
    \/ BumpMissing
    \/ StoreReport

DepGraphSpec == DepGraphInit /\ [][DepGraphNext]_graphVars

(***************************************************************************)
(* Properties                                                              *)
(***************************************************************************)

\* The coordinates n edges from the root, and within k, over a set of reports.
Paths(reports, n) ==
    {p \in [0..n -> Coordinates] :
        /\ p[0] = graph.root
        /\ \A i \in 1..n : p[i - 1] \in reports /\ p[i] \in Pinned(BazelDeps(p[i - 1]))}
Within(reports, k) == UNION {{p[n] : p \in Paths(reports, n)} : n \in 0..k}

EdgesOf(S) == {e \in S \X Coordinates : e[2] \in Pinned(BazelDeps(e[1]))}

\* The drawn graph is the closure: it holds every coordinate within the depth
\* cap over the reports stored when the walk began, none beyond what is stored
\* now, exactly the edges of the reports nearer than the cap, and calls a
\* coordinate external only if it had no report when the walk began; and every
\* edge is found from its other end by ReverseDeps.  (service_closure.go: the
\* walk against a store that other requests write, entries queued twice.)
GraphIsExact ==
    Drawn /\ graph.failed = {} =>
        LET last == closureMaxDepth - 1
            near == Within(graph.base, last)
        IN  /\ Within(graph.base, closureMaxDepth) \subseteq Range(graph.nodes)
            /\ Range(graph.nodes) \subseteq Within(stored, closureMaxDepth)
            /\ EdgesOf(near \cap graph.base) \subseteq graph.edges
            /\ graph.edges \subseteq EdgesOf(Within(stored, last) \cap stored)
            /\ graph.external \cap graph.base = {}
            /\ near \ (stored \cup graph.external) = {}
            /\ \A e \in graph.edges : e[1] \in ReverseDeps(e[2])

=============================================================================
