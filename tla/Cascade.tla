------------------------------ MODULE Cascade ------------------------------
(***************************************************************************)
(* The federation cascade (internal/backend): concurrent GETs that fall    *)
(* through from the local mirror to every upstream in parallel, the shared *)
(* LRU response cache with strict expiry, and the two hooks a probe fires: *)
(* promote-on-serve and the collision audit.                               *)
(*                                                                         *)
(* Time is a counter.  A response body is represented by the moment the    *)
(* upstream produced it, so its age is what a client would call staleness. *)
(* An upstream may answer, refuse or break a connection at any moment;     *)
(* cancelled sibling probes are among the broken ones.                     *)
(***************************************************************************)
EXTENDS Naturals, Sequences, FiniteSets

CONSTANTS Gets,         \* GET requests under modules/<m>/<v>/
          Upstreams,    \* configured upstreams
          Paths,        \* registry paths
          Capacity,     \* BZLHUB_UPSTREAM_CACHE_SIZE
          TTL,          \* cacheTTLFor
          ProbeTimeout, \* upstreamProbeTimeout
          Window,       \* collisionCoalesceWindow
          ShadowDetection,   \* collision detection is on
          MaxClock       \* bound: the clock, except to let a probe run into its deadline

ASSUME CascadeAssumption ==
    /\ Capacity \in Nat \ {0} /\ TTL \in Nat \ {0} /\ ProbeTimeout \in Nat \ {0}
    /\ Window \in Nat /\ MaxClock \in Nat /\ ShadowDetection \in BOOLEAN
    /\ IsFiniteSet(Upstreams) /\ Upstreams # {}

VARIABLES now,
          get,        \* GET -> [pc, path, res]
          probe,      \* GET -> upstream -> [pc, until, body, status, age]
          cache,      \* the LRU list, front first: [key, body, expires]
          coalesce,   \* collisionCoalesce: set of [key, at]
          sources,    \* module_sources: what the collision logger was called with
          promoted    \* history: <<get, upstream>> for which the promote hook fired

cascadeVars == <<now, get, probe, cache, coalesce, sources, promoted>>

Key == Upstreams \X Paths
NoProbe == [pc |-> "off", until |-> 0, body |-> 0, status |-> "none", age |-> 0]

CascadeInit ==
    /\ now = 0
    /\ get = [g \in Gets |-> [pc |-> "new", path |-> "none", res |-> "none"]]
    /\ probe = [g \in Gets |-> [u \in Upstreams |-> NoProbe]]
    /\ cache = <<>>
    /\ coalesce = {} /\ sources = {} /\ promoted = {}

-----------------------------------------------------------------------------
(***************************************************************************)
(* The response cache                                                      *)
(***************************************************************************)
Entries(k) == {i \in 1..Len(cache) : cache[i].key = k}

\* The element the map holds for a key, and the list without it.
Element(k) == CHOOSE i \in Entries(k) : TRUE
Entry(k) == cache[Element(k)]
OthersThan(k) ==
    IF Entries(k) = {} THEN cache
    ELSE SubSeq(cache, 1, Element(k) - 1) \o SubSeq(cache, Element(k) + 1, Len(cache))

\* Mutant: a stale entry is served while it is refreshed.
HitStale(k) == Entries(k) # {}

\* Get: a fresh entry moves to the front, a stale one is evicted.
Hit(k) == Entries(k) # {} /\ now <= Entry(k).expires

MoveToFront(k) == cache' = <<Entry(k)>> \o OthersThan(k)
Evict(k) == cache' = OthersThan(k)

\* Put: replace and move to the front, or evict from the back and insert.
Put(k, body) ==
    LET kept == OthersThan(k)
        room == IF Entries(k) = {} /\ Len(kept) >= Capacity
                THEN SubSeq(kept, 1, Capacity - 1) ELSE kept
    IN  cache' = <<[key |-> k, body |-> body, expires |-> now + TTL]>> \o room

-----------------------------------------------------------------------------
(***************************************************************************)
(* The collision logger: at most one call per key and window               *)
(***************************************************************************)
CoalesceKey(p, source, kind) == <<p, source, kind>>

LogCollision(p, source, kind) ==
    LET k == CoalesceKey(p, source, kind)
    IN  IF \E e \in coalesce : e.key = k /\ now - e.at < Window
        THEN UNCHANGED <<coalesce, sources>>
        ELSE /\ coalesce' = {e \in coalesce : e.key # k} \cup {[key |-> k, at |-> now]}
             /\ sources' = sources \cup {<<p, source, kind>>}

-----------------------------------------------------------------------------
(***************************************************************************)
(* probeOne: one goroutine per GET and upstream                            *)
(***************************************************************************)
SendResult(g, u, status, age) ==
    probe' = [probe EXCEPT ![g][u] = [NoProbe EXCEPT !.pc = "sent", !.status = status, !.age = age]]

\* The cache first; on a miss the request leaves with its deadline.
Lookup(g, u) ==
    /\ probe[g][u].pc = "start"
    /\ LET k == <<u, get[g].path>>
       IN  \/ Hit(k) /\ MoveToFront(k) /\ SendResult(g, u, "ok", now - Entry(k).body)
           \/ /\ ~Hit(k) /\ Evict(k)
              /\ probe' = [probe EXCEPT ![g][u].pc = "flight", ![g][u].until = now + ProbeTimeout]
    /\ UNCHANGED <<now, get, coalesce, sources, promoted>>

\* The upstream answers; 404s and errors are complete at once and not cached.
Respond(g, u) ==
    /\ probe[g][u].pc = "flight"
    /\ \/ probe' = [probe EXCEPT ![g][u].pc = "body", ![g][u].body = now]
       \/ SendResult(g, u, "404", 0)
       \/ SendResult(g, u, "err", 0)
    /\ UNCHANGED <<now, get, cache, coalesce, sources, promoted>>

\* The body has been read: fill the cache and fire the promote hook.  A
\* broken or oversized body is an error and fills nothing.
Fill(g, u) ==
    /\ probe[g][u].pc = "body"
    /\ \/ /\ Put(<<u, get[g].path>>, probe[g][u].body)
          /\ promoted' = promoted \cup {<<g, u>>}
          /\ SendResult(g, u, "ok", now - probe[g][u].body)
       \/ /\ SendResult(g, u, "err", 0)
          /\ UNCHANGED <<cache, promoted>>
    /\ UNCHANGED <<now, get, coalesce, sources>>

InFlight(g, u) == probe[g][u].pc \in {"flight", "body"}

\* Mutant: only the connection has a deadline, not the body.
TimeOutConnecting(g, u) ==
    /\ probe[g][u].pc = "flight" /\ now >= probe[g][u].until
    /\ SendResult(g, u, "err", 0)
    /\ UNCHANGED <<now, get, cache, coalesce, sources, promoted>>

TimeOut(g, u) ==
    /\ InFlight(g, u) /\ now >= probe[g][u].until
    /\ SendResult(g, u, "err", 0)
    /\ UNCHANGED <<now, get, cache, coalesce, sources, promoted>>

Probe(g, u) == Lookup(g, u) \/ TimeOut(g, u)
Upstream(g, u) == Respond(g, u) \/ Fill(g, u)

-----------------------------------------------------------------------------
(***************************************************************************)
(* cascadeGet, probeUpstreams and the detached drain                       *)
(***************************************************************************)
Return(g, res) == get' = [get EXCEPT ![g].pc = "done", ![g].res = res]

\* The primary has it, fails, or does not have it.
CascadeGet(g, p) ==
    /\ get[g].pc = "new"
    /\ \/ /\ get' = [get EXCEPT ![g] = [pc |-> "done", path |-> p, res |-> "local"]]
          /\ LogCollision(p, "local", "local")
          /\ UNCHANGED probe
       \/ /\ get' = [get EXCEPT ![g] = [pc |-> "done", path |-> p, res |-> "fault"]]
          /\ UNCHANGED <<probe, coalesce, sources>>
       \/ /\ get' = [get EXCEPT ![g] = [pc |-> "tally", path |-> p, res |-> "none"]]
          /\ probe' = [probe EXCEPT ![g] = [u \in Upstreams |-> [NoProbe EXCEPT !.pc = "start"]]]
          /\ UNCHANGED <<coalesce, sources>>
    /\ UNCHANGED <<now, cache, promoted>>

Taken(g) == {u \in Upstreams : probe[g][u].pc = "taken"}
TakeResult(g, u) == probe' = [probe EXCEPT ![g][u].pc = "taken", ![g][u].age = 0]
Answered(g, status) == {u \in Upstreams : probe[g][u].status = status}

\* Mutant: the first 404 is taken for an answer.
VerdictFirst404(g, u) ==
    IF probe[g][u].status = "404" THEN "404"
    ELSE IF Taken(g) \cup {u} # Upstreams THEN "none" ELSE "unavailable"

\* After the last result: one 404 is enough to say "not found".
Verdict(g, u) ==
    IF Taken(g) \cup {u} # Upstreams THEN "none"
    ELSE IF \E v \in Upstreams : probe[g][v].status = "404" THEN "404" ELSE "unavailable"

\* One result popped by the first pass.
Tally(g, u) ==
    /\ get[g].pc = "tally" /\ probe[g][u].pc = "sent"
    /\ TakeResult(g, u)
    /\ \/ /\ probe[g][u].status = "ok"
          /\ Return(g, "ok")
          /\ LogCollision(get[g].path, u, "upstream")
       \/ /\ probe[g][u].status # "ok"
          /\ IF Verdict(g, u) = "none" THEN UNCHANGED get ELSE Return(g, Verdict(g, u))
          /\ UNCHANGED <<coalesce, sources>>
    /\ UNCHANGED <<now, cache, promoted>>

\* drainShadowed, or drainSilent when detection is off.
Drain(g, u) ==
    /\ get[g].pc = "done" /\ probe[g][u].pc = "sent"
    /\ TakeResult(g, u)
    /\ IF probe[g][u].status = "ok" /\ ShadowDetection
         THEN LogCollision(get[g].path, u, "shadowed")
         ELSE UNCHANGED <<coalesce, sources>>
    /\ UNCHANGED <<now, get, cache, promoted>>

\* The clock does not run past a deadline that nobody has acted on.
Tick ==
    /\ now < MaxClock \/ \E g \in Gets, u \in Upstreams : InFlight(g, u)
    /\ \A g \in Gets, u \in Upstreams : InFlight(g, u) => now < probe[g][u].until
    /\ now' = now + 1
    /\ UNCHANGED <<get, probe, cache, coalesce, sources, promoted>>

CascadeNext ==
    \/ \E g \in Gets : \/ \E p \in Paths : CascadeGet(g, p)
                       \/ \E u \in Upstreams : Probe(g, u) \/ Upstream(g, u) \/ Tally(g, u) \/ Drain(g, u)
    \/ Tick

CascadeSpec == CascadeInit /\ [][CascadeNext]_cascadeVars

-----------------------------------------------------------------------------
(* Bounded staleness: no GET is answered with a body older than the TTL    *)
(* plus the time a probe may take, although a slow probe can overwrite the *)
(* cache entry of a faster, later one.                                     *)
FreshEnough ==
    \A g \in Gets, u \in Upstreams :
        probe[g][u].status = "ok" => probe[g][u].age <= TTL + ProbeTimeout

(* A GET answers "not found" only after it has heard from every upstream,  *)
(* and none of them had the file, in whatever order they answered.         *)
No404OverHit ==
    \A g \in Gets : get[g].res = "404" => Taken(g) = Upstreams /\ Answered(g, "ok") = {}

(* Every GET is answered, whatever its upstreams do.                       *)
EveryGetReturns == \A g \in Gets : get[g].pc = "tally" ~> get[g].pc = "done"

(***************************************************************************)
(* What comments in the code say and the code does not do.                 *)
(***************************************************************************)
(* "Returns ErrNotFound only if every upstream returned 404"               *)
(* (backend/probe.go:44).                                                  *)
NotFoundUnanimous == \A g \in Gets : get[g].res = "404" => Answered(g, "404") = Upstreams

(* "The hook is called at most once per (m, v, path) within a probe"       *)
(* (backend/cascade.go:230).                                               *)
PromoteOncePerProbe == \A g \in Gets : Cardinality({u \in Upstreams : <<g, u>> \in promoted}) <= 1
=============================================================================
