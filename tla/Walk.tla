-------------------------------- MODULE Walk --------------------------------
(***************************************************************************)
(* RecursiveFromRegistry (internal/ingest/recursive.go): the coordinator   *)
(* of a closure walk and its workers, joined by two bounded channels.      *)
(* What one worker does to the mirror is in module Ingest; here a call of  *)
(* walkOne yields the dependencies of a key or an error.                   *)
(***************************************************************************)
EXTENDS Naturals, Sequences, FiniteSets, Functions

CONSTANTS Keys,      \* (name, version) pairs
          Seeds,     \* the root and, if asked for, the MODULE.tools dependencies
          Workers,   \* goroutines that may be started
          NoKey,     \* model value: no key
          Setups     \* the walks: a dependency graph Keys -> Seq(Keys) and the
                     \* RecursiveOptions.Workers of the call

ASSUME WalkAssumption ==
    /\ IsFiniteSet(Keys) /\ Seeds \in Seq(Keys) /\ Seeds # <<>>
    /\ IsFiniteSet(Workers) /\ Workers # {}
    /\ NoKey \notin Keys
    /\ \A s \in Setups : /\ \A k \in Keys : s.deps[k] \in Seq(Keys)
                         /\ s.pool \subseteq Workers /\ s.pool # {}

VARIABLES deps,       \* the graph of this registry
          pool,       \* the workers of this walk
          walk,       \* the coordinator's visited, pending and inflight
          mirrored, errors,   \* keys counted in the result
          coord,      \* "loop", "closed" (jobs closed, waiting for workers), "returned"
          jobs,       \* channel of keys
          found,      \* channel of discoveries: <<key, ok>>
          wk,         \* workers: what each is doing, and for which key
          walks       \* history: key -> calls of walkOne

walkVars == <<deps, pool, walk, mirrored, errors, coord, jobs, found, wk, walks>>

ChanCap == 2 * Cardinality(pool)
Resting == [pc |-> "range", key |-> NoKey, ok |-> FALSE]

\* What a list has that was not visited, once each and in the order of the list
\* (the set of the one such sequence).
Unvisited(visited, ks) ==
    LET new == Range(ks) \ visited
    IN  {s \in [1..Cardinality(new) -> new] :
            /\ new \subseteq Range(s)
            /\ \A i, j \in DOMAIN s : i < j =>
                  \E a \in DOMAIN ks : ks[a] = s[i] /\ \A b \in DOMAIN ks : ks[b] = s[j] => a < b}

\* enqueue, for every key of a list: it admits what was never visited.
enqueue(s, ks) ==
    {[visited  |-> s.visited \cup Range(ks),
      pending  |-> s.pending \o new,
      inflight |-> s.inflight + Len(new)] : new \in Unvisited(s.visited, ks)}

\* The seeds have been enqueued and the workers started.
WalkInit ==
    /\ \E s \in Setups : deps = s.deps /\ pool = s.pool
    /\ walk \in enqueue([visited |-> {}, pending |-> <<>>, inflight |-> 0], Seeds)
    /\ mirrored = {} /\ errors = {}
    /\ coord = "loop"
    /\ jobs = <<>> /\ found = <<>>
    /\ wk = [w \in Workers |-> IF w \in pool THEN Resting ELSE [Resting EXCEPT !.pc = "exited"]]
    /\ walks = [k \in Keys |-> 0]

-----------------------------------------------------------------------------
(***************************************************************************)
(* The coordinator: `for inflight > 0' selects between sending the next    *)
(* pending key and receiving a discovery.                                  *)
(***************************************************************************)
Dispatch ==
    /\ coord = "loop" /\ walk.inflight > 0 /\ walk.pending # <<>>
    /\ Len(jobs) < ChanCap
    /\ jobs' = Append(jobs, Head(walk.pending))
    /\ walk' = [walk EXCEPT !.pending = Tail(@)]
    /\ UNCHANGED <<deps, pool, mirrored, errors, coord, found, wk, walks>>

\* inflight-- and handle: an error is recorded, a success enqueues the
\* dependencies.
handle(d) ==
    /\ found' = Tail(found)
    /\ LET s == [walk EXCEPT !.inflight = @ - 1]
       IN  \/ /\ d[2]
              /\ mirrored' = mirrored \cup {d[1]}
              /\ walk' \in enqueue(s, deps[d[1]])
              /\ UNCHANGED errors
           \/ /\ ~d[2]
              /\ errors' = errors \cup {d[1]}
              /\ walk' = s
              /\ UNCHANGED mirrored
    /\ UNCHANGED <<deps, pool, coord, jobs, wk, walks>>

\* Mutant: the coordinator receives only when it has nothing to send.
AbsorbIdle ==
    /\ coord = "loop" /\ walk.inflight > 0 /\ walk.pending = <<>>
    /\ found # <<>> /\ handle(Head(found))

Absorb ==
    /\ coord = "loop" /\ walk.inflight > 0
    /\ found # <<>> /\ handle(Head(found))

\* Mutant: the walk ends as soon as nothing is queued.
CloseJobsEarly ==
    /\ coord = "loop" /\ walk.pending = <<>> /\ jobs = <<>>
    /\ coord' = "closed"
    /\ UNCHANGED <<deps, pool, walk, mirrored, errors, jobs, found, wk, walks>>

CloseJobs ==
    /\ coord = "loop" /\ walk.inflight = 0
    /\ coord' = "closed"
    /\ UNCHANGED <<deps, pool, walk, mirrored, errors, jobs, found, wk, walks>>

\* workersWg.Wait, then return.
Finish ==
    /\ coord = "closed"
    /\ \A w \in Workers : wk[w].pc = "exited"
    /\ coord' = "returned"
    /\ UNCHANGED <<deps, pool, walk, mirrored, errors, jobs, found, wk, walks>>

Coordinator == Dispatch \/ Absorb \/ CloseJobs \/ Finish

-----------------------------------------------------------------------------
(***************************************************************************)
(* A worker: `for k := range jobs', walkOne, send the discovery.           *)
(***************************************************************************)
Take(w) ==
    /\ wk[w].pc = "range" /\ jobs # <<>>
    /\ jobs' = Tail(jobs)
    /\ wk' = [wk EXCEPT ![w] = [pc |-> "walk", key |-> Head(jobs), ok |-> FALSE]]
    /\ walks' = [walks EXCEPT ![Head(jobs)] = @ + 1]
    /\ UNCHANGED <<deps, pool, walk, mirrored, errors, coord, found>>

WalkOne(w) ==
    /\ wk[w].pc = "walk"
    /\ \E ok \in BOOLEAN : wk' = [wk EXCEPT ![w].pc = "send", ![w].ok = ok]
    /\ UNCHANGED <<deps, pool, walk, mirrored, errors, coord, jobs, found, walks>>

Send(w) ==
    /\ wk[w].pc = "send"
    /\ Len(found) < ChanCap
    /\ found' = Append(found, <<wk[w].key, wk[w].ok>>)
    /\ wk' = [wk EXCEPT ![w] = Resting]
    /\ UNCHANGED <<deps, pool, walk, mirrored, errors, coord, jobs, walks>>

RangeEnds(w) ==
    /\ wk[w].pc = "range" /\ coord = "closed" /\ jobs = <<>>
    /\ wk' = [wk EXCEPT ![w].pc = "exited"]
    /\ UNCHANGED <<deps, pool, walk, mirrored, errors, coord, jobs, found, walks>>

Worker(w) == Take(w) \/ WalkOne(w) \/ Send(w) \/ RangeEnds(w)

WalkNext == Coordinator \/ \E w \in Workers : Worker(w)

WalkSpec == WalkInit /\ [][WalkNext]_walkVars

-----------------------------------------------------------------------------
\* The reference: the keys in every set that holds the seeds and the
\* dependencies of its mirrored members.
Closed(X) ==
    /\ Range(Seeds) \subseteq X
    /\ \A k \in X \cap mirrored : Range(deps[k]) \subseteq X
Reach == {k \in Keys : \A X \in SUBSET Keys : Closed(X) => k \in X}

(* What the walk returns is the closure: it visited exactly what can be    *)
(* reached through the modules it could fetch, each of them once however   *)
(* many parents and workers discovered it at once, and every one is        *)
(* reported as mirrored or as an error, never both and never neither.      *)
ClosureExact ==
    coord = "returned" =>
        /\ walk.visited = Reach
        /\ \A k \in Keys : walks[k] = IF k \in walk.visited THEN 1 ELSE 0
        /\ mirrored \cup errors = walk.visited /\ mirrored \cap errors = {}

(* The select of the coordinator keeps the two bounded channels from       *)
(* blocking each other: every walk returns.                                *)
Terminates == <>(coord = "returned")
=============================================================================
