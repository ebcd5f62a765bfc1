------------------------------ MODULE Requests ------------------------------
(***************************************************************************)
(* The procurement pipeline of one bzlhub process over its SQLite store:   *)
(* HTTP handlers that submit and review requests, the preflight runner,    *)
(* the admit runner with its retries and its boot sweep, graceful          *)
(* termination and crashes.                                                *)
(*                                                                         *)
(* One SQL statement is one atomic step.  Everything between two           *)
(* statements (a network fetch, a publish, another goroutine) interleaves: *)
(* a handler or worker carries what it read in its own record and the row  *)
(* may have changed by the time it writes.                                 *)
(***************************************************************************)
EXTENDS Integers, FiniteSets, RequestStates

CONSTANTS Clients,        \* concurrent POST /api/v1/requests handlers
          Reviewers,      \* concurrent approve / deny handlers
          PfWorkers,      \* preflight workers (BZLHUB_PREFLIGHT_WORKERS)
          AdWorkers,      \* admit workers (1 in serve.go, any number in Options)
          Users, Coords,  \* submitters; (module, version) coordinates
          MaxId,          \* bound: rows the database may ever hold
          MaxRetries,     \* Options.MaxRetries after New has normalised it
          PendingCap,     \* policy.auth.max_pending_per_user; 0 disables it
          GitPublisher,   \* publisher is git-direct (else plain filesystem)
          StoreFaults,    \* may a store call return an SQL error?
          Crashes,        \* may the process die without a SIGTERM?
          MaxBoots,       \* bound: process lifetimes
          NoBody          \* model value: no submit body

ASSUME BoundsAssumption ==
    /\ MaxId \in Nat \ {0} /\ MaxBoots \in Nat \ {0}
    /\ MaxRetries \in Nat /\ PendingCap \in Nat
    /\ IsFiniteSet(PfWorkers) /\ IsFiniteSet(AdWorkers)
ASSUME FlagsAssumption ==
    /\ GitPublisher \in BOOLEAN /\ StoreFaults \in BOOLEAN /\ Crashes \in BOOLEAN

VARIABLES
    \* the requests table
    nextId,      \* AUTOINCREMENT
    state,       \* row id -> state
    body,        \* row id -> what was submitted
    hit,         \* rows whose preflight_json carries a cascade source
    retryCount,  \* row id -> retry_count
    stale,       \* rows whose state_changed_at is older than sweepStaleness
    audit,       \* audit_events about a request: <<row id, kind>>
    \* the process
    proc,        \* "down", "up", "stopping" (root context cancelled)
    phase,       \* admit runner: "off", "sweep" (before workers), "run"
    boots,
    cl, rv, pw, aw,   \* handlers and workers
    \* history
    granted,     \* rows auto-passed by the checker or approved by a reviewer
    pub,         \* rows whose Publish call took effect on the registry
    attempts     \* row id -> admitOne calls made for it, over all lifetimes

rowVars  == <<nextId, body, hit, retryCount>>
histVars == <<granted, pub, attempts>>
procVars == <<proc, phase, boots>>
vars == <<nextId, state, body, hit, retryCount, stale, audit, proc, phase,
          boots, cl, rv, pw, aw, granted, pub, attempts>>

Ids  == 1..MaxId
Body == [user : Users, coord : Coords, src : BOOLEAN]   \* src: has a source_url
Kind == {"request_submitted", "request_approved", "request_denied",
         "preflight_auto_pass", "preflight_needs_review", "preflight_denied",
         "admit_success", "admit_failure", "cdn_purge"}

IdleClient   == [pc |-> "idle", body |-> NoBody, id |-> 0, resp |-> "none"]
IdleReviewer == [pc |-> "idle", id |-> 0, seen |-> "none", to |-> "none"]
IdlePf       == [pc |-> "idle", cand |-> {}, id |-> 0, kind |-> "none"]
IdleAd       == [pc |-> "idle", cand |-> {}, id |-> 0, attempt |-> 0, kind |-> "none"]

ClientRec   == [pc : {"idle", "dedup", "cap", "insert", "audit"},
                body : Body \cup {NoBody}, id : Ids \cup {0}, resp : {"none", "500"}]
ReviewerRec == [pc : {"idle", "cas", "audit"}, id : Ids \cup {0},
                seen : RequestState \cup {"none"}, to : {"none", "approved", "denied"}]
PfRec       == [pc : {"idle", "claim", "check", "audit"}, cand : SUBSET Ids,
                id : Ids \cup {0}, kind : Kind \cup {"none"}]
AdRec       == [pc : {"idle", "claim", "admit", "backoff", "succeed", "fail", "audit", "purge"},
                cand : SUBSET (Ids \X AdmitCandidates), id : Ids \cup {0},
                attempt : 0..MaxRetries, kind : Kind \cup {"none"}]

TypeOK ==
    /\ nextId \in 1..(MaxId + 1)
    /\ state \in [Ids -> RequestState \cup {"none"}]
    /\ body \in [Ids -> Body \cup {NoBody}]
    /\ hit \in SUBSET Ids
    /\ retryCount \in [Ids -> 0..MaxRetries]
    /\ stale \in SUBSET Ids
    /\ audit \in SUBSET (Ids \X Kind)
    /\ proc \in {"down", "up", "stopping"}
    /\ phase \in {"off", "sweep", "run"}
    /\ boots \in 0..MaxBoots
    /\ cl \in [Clients -> ClientRec]
    /\ rv \in [Reviewers -> ReviewerRec]
    /\ pw \in [PfWorkers -> PfRec]
    /\ aw \in [AdWorkers -> AdRec]
    /\ granted \in SUBSET Ids
    /\ pub \in SUBSET Ids
    /\ attempts \in [Ids -> Nat]

Init ==
    /\ nextId = 1
    /\ state = [i \in Ids |-> "none"]
    /\ body = [i \in Ids |-> NoBody]
    /\ hit = {} /\ stale = {} /\ audit = {}
    /\ retryCount = [i \in Ids |-> 0]
    /\ proc = "down" /\ phase = "off" /\ boots = 0
    /\ cl = [c \in Clients |-> IdleClient]
    /\ rv = [r \in Reviewers |-> IdleReviewer]
    /\ pw = [w \in PfWorkers |-> IdlePf]
    /\ aw = [w \in AdWorkers |-> IdleAd]
    /\ granted = {} /\ pub = {}
    /\ attempts = [i \in Ids |-> 0]

-----------------------------------------------------------------------------
(***************************************************************************)
(* The store                                                               *)
(***************************************************************************)
OpenFor(c) == {i \in Ids : state[i] \in OpenStates /\ body[i].coord = c}
OpenOf(u)  == {i \in Ids : state[i] \in OpenStates /\ body[i].user = u}

\* ListRequests: the `limit' newest rows in one of the given states.
ListRequests(states, limit) ==
    LET matching == {i \in Ids : state[i] \in states}
    IN  {i \in matching : Cardinality({j \in matching : j > i}) < limit}

CreateRequest(b) ==
    /\ nextId <= MaxId
    /\ nextId' = nextId + 1
    /\ state' = [state EXCEPT ![nextId] = "pending"]
    /\ body' = [body EXCEPT ![nextId] = b]
    /\ UNCHANGED <<hit, retryCount, stale>>

\* Mutant: the UPDATE without its `AND state = ?' clause.
TransitionWithoutCAS(i, from, to) ==
    /\ CanTransitionTo(from, to)
    /\ state' = [state EXCEPT ![i] = to]
    /\ stale' = stale \ {i}

\* The compare-and-swap: the UPDATE ... WHERE id = ? AND state = ? matched.
TransitionRequest(i, from, to) ==
    /\ CanTransitionTo(from, to)
    /\ state[i] = from
    /\ state' = [state EXCEPT ![i] = to]
    /\ stale' = stale \ {i}

\* ... and did not: ErrStateMismatch, or an SQL error.
TransitionLost(i, from) ==
    /\ state[i] # from \/ StoreFaults
    /\ UNCHANGED <<state, stale>>

\* Mutant: the sweep also revives stuck preflights, as approved.
ReclaimStuckInFlight ==
    LET stuck == {i \in Ids : state[i] \in {"fetching", "preflighting"}}
    IN  /\ state' = [i \in Ids |-> IF i \in stuck THEN "approved" ELSE state[i]]
        /\ stale' = stale \ stuck

ReclaimStuckFetching ==
    LET stuck == {i \in Ids : state[i] = "fetching" /\ i \in stale}
    IN  /\ state' = [i \in Ids |-> IF i \in stuck THEN "approved" ELSE state[i]]
        /\ stale' = stale \ stuck

\* Wall-clock time passes: state_changed_at of a row drops behind the cutoff.
Age(i) ==
    /\ state[i] = "fetching"
    /\ i \notin stale
    /\ stale' = stale \cup {i}
    /\ UNCHANGED <<rowVars, state, audit, procVars, cl, rv, pw, aw, histVars>>

\* RecordAudit is best effort: a failed write is logged and forgotten.
RecordAudit(i, kind) ==
    \/ audit' = audit \cup {<<i, kind>>}
    \/ StoreFaults /\ UNCHANGED audit

-----------------------------------------------------------------------------
(***************************************************************************)
(* POST /api/v1/requests.  The listener is closed once the process is      *)
(* stopping, but a handler in flight runs on with its own context.         *)
(***************************************************************************)
Live == proc \in {"up", "stopping"}

\* Policy gate and per-user rate passed, body parsed (a refusal changes nothing).
SubmitArrives(c, b) ==
    /\ proc = "up"
    /\ cl[c].pc = "idle"
    /\ cl' = [cl EXCEPT ![c].pc = "dedup", ![c].body = b]
    /\ UNCHANGED <<rowVars, state, stale, audit, procVars, rv, pw, aw, histVars>>

\* Mutant: the probe looks at the submitter's own requests only.
DedupHitOwn(c) == OpenFor(cl[c].body.coord) \cap OpenOf(cl[c].body.user) # {}

DedupHit(c) == OpenFor(cl[c].body.coord) # {}

\* An SQL error writes the 500 and returns nil, exactly like "not found".
FindDedupTarget(c) ==
    /\ Live /\ cl[c].pc = "dedup"
    /\ \/ /\ DedupHit(c)
          /\ cl' = [cl EXCEPT ![c] = IdleClient]
       \/ /\ ~DedupHit(c)
          /\ cl' = [cl EXCEPT ![c].pc = "cap"]
       \/ /\ StoreFaults
          /\ cl' = [cl EXCEPT ![c].pc = "cap", ![c].resp = "500"]
    /\ UNCHANGED <<rowVars, state, stale, audit, procVars, rv, pw, aw, histVars>>

\* Mutant: one more than the cap.
UnderCapOffByOne(u) == PendingCap = 0 \/ Cardinality(OpenOf(u)) <= PendingCap

UnderCap(u) == PendingCap = 0 \/ Cardinality(OpenOf(u)) < PendingCap

\* checkPendingCap fails open.
CheckPendingCap(c) ==
    /\ Live /\ cl[c].pc = "cap"
    /\ \/ /\ UnderCap(cl[c].body.user) \/ StoreFaults
          /\ cl' = [cl EXCEPT ![c].pc = "insert"]
       \/ /\ ~UnderCap(cl[c].body.user)
          /\ cl' = [cl EXCEPT ![c] = IdleClient]
    /\ UNCHANGED <<rowVars, state, stale, audit, procVars, rv, pw, aw, histVars>>

InsertRequest(c) ==
    /\ Live /\ cl[c].pc = "insert"
    /\ \/ /\ CreateRequest(cl[c].body)
          /\ cl' = [cl EXCEPT ![c].pc = "audit", ![c].id = nextId]
       \/ /\ StoreFaults
          /\ cl' = [cl EXCEPT ![c] = IdleClient]
          /\ UNCHANGED <<rowVars, state, stale>>
    /\ UNCHANGED <<audit, procVars, rv, pw, aw, histVars>>

RecordSubmitAudit(c) ==
    /\ Live /\ cl[c].pc = "audit"
    /\ RecordAudit(cl[c].id, "request_submitted")
    /\ cl' = [cl EXCEPT ![c] = IdleClient]
    /\ UNCHANGED <<rowVars, state, stale, procVars, rv, pw, aw, histVars>>

ClientStep(c) == \/ FindDedupTarget(c) \/ CheckPendingCap(c)
                 \/ InsertRequest(c) \/ RecordSubmitAudit(c)

-----------------------------------------------------------------------------
(***************************************************************************)
(* POST /api/v1/requests/{id}/approve and .../deny: transitionByReviewer   *)
(***************************************************************************)
\* GetRequest and the allowedFroms check (otherwise 404 or 409, no change).
ReviewReads(r, i, to) ==
    /\ proc = "up"
    /\ rv[r].pc = "idle"
    /\ state[i] \in AllowedFroms(to)
    /\ rv' = [rv EXCEPT ![r] = [pc |-> "cas", id |-> i, seen |-> state[i], to |-> to]]
    /\ UNCHANGED <<rowVars, state, stale, audit, procVars, cl, pw, aw, histVars>>

ReviewTransition(r) ==
    /\ Live /\ rv[r].pc = "cas"
    /\ \/ /\ TransitionRequest(rv[r].id, rv[r].seen, rv[r].to)
          /\ rv' = [rv EXCEPT ![r].pc = "audit"]
          /\ granted' = IF rv[r].to = "approved" THEN granted \cup {rv[r].id} ELSE granted
       \/ /\ TransitionLost(rv[r].id, rv[r].seen)
          /\ rv' = [rv EXCEPT ![r] = IdleReviewer]
          /\ UNCHANGED granted
    /\ UNCHANGED <<rowVars, audit, procVars, cl, pw, aw, pub, attempts>>

ReviewAudit(r) ==
    /\ Live /\ rv[r].pc = "audit"
    /\ RecordAudit(rv[r].id, IF rv[r].to = "approved" THEN "request_approved"
                                                      ELSE "request_denied")
    /\ rv' = [rv EXCEPT ![r] = IdleReviewer]
    /\ UNCHANGED <<rowVars, state, stale, procVars, cl, pw, aw, histVars>>

ReviewerStep(r) == ReviewTransition(r) \/ ReviewAudit(r)

-----------------------------------------------------------------------------
(***************************************************************************)
(* Preflight runner                                                        *)
(***************************************************************************)
PfLimit == 2 * Cardinality(PfWorkers)

\* A tick: ListRequests(pending).
PfList(w) ==
    /\ proc = "up" /\ pw[w].pc = "idle"
    /\ LET cand == ListRequests({"pending"}, PfLimit)
       IN  pw' = [pw EXCEPT ![w].cand = cand,
                            ![w].pc = IF cand = {} THEN "idle" ELSE "claim"]
    /\ UNCHANGED <<rowVars, state, stale, audit, procVars, cl, rv, aw, histVars>>

\* Mutant: the worker moves on to the next candidate when it has claimed one.
PfClaimMovesOn(w, i) ==
    /\ proc = "up" /\ pw[w].pc = "claim"
    /\ \A j \in pw[w].cand : j <= i
    /\ TransitionRequest(i, "pending", "preflighting") \/ TransitionLost(i, "pending")
    /\ pw' = [pw EXCEPT ![w].cand = @ \ {i},
                        ![w].pc = IF pw[w].cand = {i} THEN "idle" ELSE "claim"]
    /\ UNCHANGED <<rowVars, audit, procVars, cl, rv, aw, histVars>>

\* CAS pending -> preflighting on the newest candidate left; a loser moves on.
PfClaim(w, i) ==
    /\ proc = "up" /\ pw[w].pc = "claim"
    /\ \A j \in pw[w].cand : j <= i
    /\ \/ /\ TransitionRequest(i, "pending", "preflighting")
          /\ pw' = [pw EXCEPT ![w] = [IdlePf EXCEPT !.pc = "check", !.id = i]]
       \/ /\ TransitionLost(i, "pending")
          /\ pw' = [pw EXCEPT ![w].cand = @ \ {i},
                              ![w].pc = IF pw[w].cand = {i} THEN "idle" ELSE "claim"]
    /\ UNCHANGED <<rowVars, audit, procVars, cl, rv, aw, histVars>>

\* DefaultChecker.Check under any policy: only a source_url can be refused
\* (require_https, host lists), and auto_pass comes with a cascade source.
CheckVerdicts(b) == {"auto_pass", "needs_review"} \cup (IF b.src THEN {"denied"} ELSE {})

PfVerdict(w) ==
    /\ proc = "up" /\ pw[w].pc = "check"
    /\ LET i == pw[w].id
       IN  \/ \E v \in CheckVerdicts(body[i]) :
                /\ TransitionRequest(i, "preflighting", v)
                /\ hit' = IF v = "auto_pass" THEN hit \cup {i} ELSE hit
                /\ granted' = IF v = "auto_pass" THEN granted \cup {i} ELSE granted
                /\ pw' = [pw EXCEPT ![w].pc = "audit",
                            ![w].kind = CASE v = "auto_pass"    -> "preflight_auto_pass"
                                          [] v = "needs_review" -> "preflight_needs_review"
                                          [] OTHER              -> "preflight_denied"]
           \/ /\ TransitionLost(i, "preflighting")
              /\ pw' = [pw EXCEPT ![w] = IdlePf]
              /\ UNCHANGED <<hit, granted>>
    /\ UNCHANGED <<nextId, body, retryCount, audit, procVars, cl, rv, aw, pub, attempts>>

\* Written with the runner's context: a cancelled one loses the event.
PfAudit(w) ==
    /\ proc = "up" /\ pw[w].pc = "audit"
    /\ RecordAudit(pw[w].id, pw[w].kind)
    /\ pw' = [pw EXCEPT ![w] = IdlePf]
    /\ UNCHANGED <<rowVars, state, stale, procVars, cl, rv, aw, histVars>>

\* Every store call on the cancelled context fails; the worker returns.
PfCancelled(w) ==
    /\ proc = "stopping" /\ pw[w].pc # "idle"
    /\ pw' = [pw EXCEPT ![w] = IdlePf]
    /\ UNCHANGED <<rowVars, state, stale, audit, procVars, cl, rv, aw, histVars>>

PfStep(w) == \/ PfList(w) \/ PfVerdict(w) \/ PfAudit(w) \/ PfCancelled(w)
             \/ \E i \in pw[w].cand : PfClaim(w, i)

-----------------------------------------------------------------------------
(***************************************************************************)
(* Admit runner                                                            *)
(***************************************************************************)
AdLimit == 2 * Cardinality(AdWorkers)

\* sweepStuckFetching, once, before the workers start; a failure is ignored.
BootSweep ==
    /\ proc = "up" /\ phase = "sweep"
    /\ phase' = "run"
    /\ \/ ReclaimStuckFetching
       \/ StoreFaults /\ UNCHANGED <<state, stale>>
    /\ UNCHANGED <<rowVars, audit, proc, boots, cl, rv, pw, aw, histVars>>

AdList(w) ==
    /\ proc = "up" /\ phase = "run" /\ aw[w].pc = "idle"
    /\ LET cand == {<<i, state[i]>> : i \in ListRequests(AdmitCandidates, AdLimit)}
       IN  aw' = [aw EXCEPT ![w].cand = cand,
                            ![w].pc = IF cand = {} THEN "idle" ELSE "claim"]
    /\ UNCHANGED <<rowVars, state, stale, audit, procVars, cl, rv, pw, histVars>>

\* CAS from the state that was listed to fetching.
AdClaim(w, i, seen) ==
    /\ proc = "up" /\ aw[w].pc = "claim"
    /\ <<i, seen>> \in aw[w].cand
    /\ \A d \in aw[w].cand : d[1] <= i
    /\ \/ /\ TransitionRequest(i, seen, "fetching")
          /\ aw' = [aw EXCEPT ![w] = [IdleAd EXCEPT !.pc = "admit", !.id = i]]
       \/ /\ TransitionLost(i, seen)
          /\ aw' = [aw EXCEPT ![w].cand = @ \ {<<i, seen>>},
                              ![w].pc = IF aw[w].cand = {<<i, seen>>} THEN "idle" ELSE "claim"]
    /\ UNCHANGED <<rowVars, audit, procVars, cl, rv, pw, histVars>>

(***************************************************************************)
(* One admitOne call.  Without a source_url and without a cascade source   *)
(* it fails at once.  A git-direct Publish of an entry that this request   *)
(* already committed finds nothing to commit and fails; every other call   *)
(* may succeed.  Only fetch errors are transient.                          *)
(***************************************************************************)
HasURL(i) == body[i].src \/ i \in hit
MayPublish(i) == HasURL(i) /\ ~(GitPublisher /\ i \in pub)

\* Mutant: one retry too many.
RetriesLeftOffByOne(w) == aw[w].attempt <= MaxRetries

RetriesLeft(w) == aw[w].attempt < MaxRetries

AdmitOne(w) ==
    /\ proc = "up" /\ aw[w].pc = "admit"
    /\ attempts' = [attempts EXCEPT ![aw[w].id] = @ + 1]
    /\ \/ /\ MayPublish(aw[w].id)
          /\ pub' = pub \cup {aw[w].id}
          /\ aw' = [aw EXCEPT ![w].pc = "succeed"]
       \/ /\ HasURL(aw[w].id)                              \* ErrTransient
          /\ aw' = [aw EXCEPT ![w].pc = IF RetriesLeft(w)
                                          THEN "backoff" ELSE "fail"]
          /\ UNCHANGED pub
       \/ /\ aw' = [aw EXCEPT ![w].pc = "fail"]            \* anything else
          /\ UNCHANGED pub
    /\ UNCHANGED <<rowVars, state, stale, audit, procVars, cl, rv, pw, granted>>

AdBackoff(w) ==
    /\ proc = "up" /\ aw[w].pc = "backoff"
    /\ aw' = [aw EXCEPT ![w].pc = "admit", ![w].attempt = @ + 1]
    /\ UNCHANGED <<rowVars, state, stale, audit, procVars, cl, rv, pw, histVars>>

\* succeed and fail: retry_count is written only when there was a retry.
AdOutcome(w, from, to, kind) ==
    /\ proc = "up" /\ aw[w].pc = from
    /\ LET i == aw[w].id
       IN  \/ /\ TransitionRequest(i, "fetching", to)
              /\ retryCount' = [retryCount EXCEPT
                                  ![i] = IF aw[w].attempt > 0 THEN aw[w].attempt ELSE @]
              /\ aw' = [aw EXCEPT ![w].pc = "audit", ![w].kind = kind]
           \/ /\ TransitionLost(i, "fetching")
              /\ aw' = [aw EXCEPT ![w] = IdleAd]
              /\ UNCHANGED retryCount
    /\ UNCHANGED <<nextId, body, hit, audit, procVars, cl, rv, pw, histVars>>

\* Mutant: a denial that leaves no audit event.
FailUnaudited(w) ==
    /\ proc = "up" /\ aw[w].pc = "fail"
    /\ TransitionRequest(aw[w].id, "fetching", "denied")
    /\ aw' = [aw EXCEPT ![w] = IdleAd]
    /\ UNCHANGED <<rowVars, audit, procVars, cl, rv, pw, histVars>>

Succeed(w) == AdOutcome(w, "succeed", "indexed", "admit_success")
Fail(w)    == AdOutcome(w, "fail", "denied", "admit_failure")

\* The terminal event is written on a context without cancellation.
AdAudit(w) ==
    /\ Live /\ aw[w].pc = "audit"
    /\ RecordAudit(aw[w].id, aw[w].kind)
    /\ aw' = [aw EXCEPT ![w] = IF aw[w].kind = "admit_success"
                                 THEN [aw[w] EXCEPT !.pc = "purge"] ELSE IdleAd]
    /\ UNCHANGED <<rowVars, state, stale, procVars, cl, rv, pw, histVars>>

\* purgeAfterIndex: the outcome of the CDN call is recorded either way.
AdPurge(w) ==
    /\ Live /\ aw[w].pc = "purge"
    /\ RecordAudit(aw[w].id, "cdn_purge")
    /\ aw' = [aw EXCEPT ![w] = IdleAd]
    /\ UNCHANGED <<rowVars, state, stale, procVars, cl, rv, pw, histVars>>

\* Cancelled before the terminal transition: the row stays in fetching.
AdCancelled(w) ==
    /\ proc = "stopping"
    /\ aw[w].pc \in {"claim", "admit", "backoff", "succeed", "fail"}
    /\ aw' = [aw EXCEPT ![w] = IdleAd]
    /\ UNCHANGED <<rowVars, state, stale, audit, procVars, cl, rv, pw, histVars>>

AdStep(w) == \/ AdList(w) \/ AdmitOne(w) \/ AdBackoff(w) \/ Succeed(w) \/ Fail(w)
             \/ AdAudit(w) \/ AdPurge(w) \/ AdCancelled(w)
             \/ \E i \in Ids, seen \in AdmitCandidates : AdClaim(w, i, seen)

-----------------------------------------------------------------------------
(***************************************************************************)
(* The process.  serve starts the runners as goroutines on the signal      *)
(* context and does not wait for them: after SIGTERM it returns as soon as *)
(* the HTTP server has shut down (or after 5 s), whatever they are doing.  *)
(***************************************************************************)
Boot ==
    /\ proc = "down" /\ boots < MaxBoots
    /\ proc' = "up" /\ phase' = "sweep" /\ boots' = boots + 1
    /\ UNCHANGED <<rowVars, state, stale, audit, cl, rv, pw, aw, histVars>>

Terminate ==
    /\ proc = "up" /\ boots < MaxBoots
    /\ proc' = "stopping"
    /\ UNCHANGED <<rowVars, state, stale, audit, phase, boots, cl, rv, pw, aw, histVars>>

Exit ==
    /\ \/ proc = "stopping"
       \/ proc = "up" /\ Crashes /\ boots < MaxBoots
    /\ proc' = "down" /\ phase' = "off"
    /\ cl' = [c \in Clients |-> IdleClient]
    /\ rv' = [r \in Reviewers |-> IdleReviewer]
    /\ pw' = [w \in PfWorkers |-> IdlePf]
    /\ aw' = [w \in AdWorkers |-> IdleAd]
    /\ UNCHANGED <<rowVars, state, stale, audit, boots, histVars>>

Next ==
    \/ \E c \in Clients : (\E b \in Body : SubmitArrives(c, b)) \/ ClientStep(c)
    \/ \E r \in Reviewers :
          \/ \E i \in Ids, to \in {"approved", "denied"} : ReviewReads(r, i, to)
          \/ ReviewerStep(r)
    \/ \E w \in PfWorkers : PfStep(w)
    \/ \E w \in AdWorkers : AdStep(w)
    \/ \E i \in Ids : Age(i)
    \/ BootSweep \/ Boot \/ Terminate \/ Exit

Spec == Init /\ [][Next]_vars

-----------------------------------------------------------------------------
(***************************************************************************)
(* Safety                                                                  *)
(***************************************************************************)
Holding == {"admit", "backoff", "succeed", "fail"}

\* A fetching row is held by at most one admit worker and stays fetching.
AdOwnership ==
    \A w \in AdWorkers : aw[w].pc \in Holding =>
        /\ state[aw[w].id] = "fetching"
        /\ \A v \in AdWorkers : aw[v].pc \in Holding /\ aw[v].id = aw[w].id => v = w

\* A row under preflight is held by one worker; only a denial overtakes it.
PfOwnership ==
    \A w \in PfWorkers : pw[w].pc = "check" =>
        /\ state[pw[w].id] \in {"preflighting", "denied"}
        /\ \A v \in PfWorkers : pw[v].pc = "check" /\ pw[v].id = pw[w].id => v = w

(* A row has at most one owner among the live workers, and the state the   *)
(* owner claimed is still there when it writes: the claim CAS, a reviewer  *)
(* and the boot sweep never take a fetching row from a live admit worker,  *)
(* and only a denial can overtake a preflight worker.                      *)
ExclusiveOwnership == AdOwnership /\ PfOwnership

(* The pipeline implements the abstract life of a request: granted before  *)
(* fetched, published only while fetched, indexed only when published,     *)
(* terminal for good; recovery is the only backward edge.                  *)
Lifecycle == INSTANCE RequestLifecycle
                 WITH Ids <- Ids, state <- state, granted <- granted, pub <- pub
ImplementsLifecycle == Lifecycle!AbsSpec

(* The unsynchronised dedup probe lets several requests for one coordinate *)
(* in, but never more than there are handlers in flight at once.           *)
DedupBound ==
    StoreFaults \/ \A c \in Coords : Cardinality(OpenFor(c)) <= Cardinality(Clients)

(* The unsynchronised pool cap is overshot by at most the handlers that    *)
(* counted before the others inserted.                                     *)
PendingCapOvershoot ==
    StoreFaults \/ PendingCap = 0 \/
    \A u \in Users : Cardinality(OpenOf(u)) <= PendingCap + Cardinality(Clients) - 1

(* What concurrent submits get past the checks of apiSubmitRequest, all    *)
(* of them statements apart from the insert: as many open requests as      *)
(* there were handlers at once, and not one more, for a coordinate and, on *)
(* top of the cap, for a user.                                             *)
SubmitRacesBounded == DedupBound /\ PendingCapOvershoot

Ended(i) == {"admit_success", "admit_failure"} \cap {k \in Kind : <<i, k>> \in audit}

(* While the process runs and its store works, a row the admit runner      *)
(* ended has its audit event, or the worker that ended it is about to      *)
(* write it; and a publish is never disowned: a request whose entry        *)
(* reached the registry is not reported as denied.                         *)
AdmitAudited ==
    /\ \A i \in Ids :
          attempts[i] > 0 /\ IsTerminal(state[i]) =>
              \/ Cardinality(Ended(i)) = 1
              \/ \E w \in AdWorkers : aw[w].pc = "audit" /\ aw[w].id = i
    /\ \A i \in pub : state[i] # "denied"

(* The attempt counter lives in the goroutine, so a restart gives a row    *)
(* its retries again; but only a restart does. Within a lifetime no claim, *)
(* sweep, lost transition or approval sends a row through admitOne more    *)
(* than MaxRetries + 1 times (processOwned, sweepStuckFetching).           *)
RetriesPerBoot == \A i \in Ids : attempts[i] <= (MaxRetries + 1) * boots

\* Rows in preflighting that no worker is going to decide.
Stranded ==
    {i \in Ids : /\ state[i] = "preflighting"
                 /\ \A w \in PfWorkers : pw[w].pc = "check" => pw[w].id # i}
EndedBoots == IF proc = "up" THEN boots - 1 ELSE boots

(* No sweep resets preflighting, so what a dying lifetime leaves there     *)
(* waits for a reviewer; but over a store that works that is one row per   *)
(* preflight worker and ended lifetime, and a running one strands nothing. *)
StrandedBounded ==
    StoreFaults \/ Cardinality(Stranded) <= Cardinality(PfWorkers) * EndedBoots

(* What a restart costs, a crash between any two statements included: for  *)
(* a row its retries once more (processOwned, sweepStuckFetching), for the *)
(* table a row per preflight worker (pollOnce), and nothing beyond that.   *)
RestartsBounded == RetriesPerBoot /\ StrandedBounded

(***************************************************************************)
(* What comments in the code say and the code does not do.                 *)
(***************************************************************************)
(* "the request stays in `fetching` and the next bzlhub boot's             *)
(* sweepStuckFetching reclaims it" (admit/runner.go:302).                  *)
NextBootReclaims ==
    phase = "run" /\ proc = "up" =>
        \A i \in Ids : state[i] = "fetching" =>
            \E w \in AdWorkers : aw[w].pc \in Holding /\ aw[w].id = i

(* "retry_count is preserved so the admit runner's retry budget continues  *)
(* from where it left off" (store/requests.go:415).                        *)
RetryBudget == \A i \in Ids : attempts[i] <= MaxRetries + 1

(* "the handler rejects a new submit when this count is already at the     *)
(* configured cap" (store/requests.go:387).                                *)
PendingCapExact ==
    PendingCap = 0 \/ \A u \in Users : Cardinality(OpenOf(u)) <= PendingCap

(* "201 -> new request created ... 500 -> store failure"                   *)
(* (server/request_handlers.go:70): a submit answered 500 creates nothing. *)
NoRowAfter500 == \A c \in Clients : cl[c].pc = "audit" => cl[c].resp = "none"

(***************************************************************************)
(* Liveness.  Workers tick forever and the store answers; nobody is fair   *)
(* about submitting, reviewing or crashing.                                *)
(***************************************************************************)
FairSpec ==
    /\ Spec
    /\ WF_vars(Boot) /\ WF_vars(BootSweep)
    /\ \A w \in PfWorkers : WF_vars(PfStep(w))
    /\ \A w \in AdWorkers : WF_vars(AdStep(w))

(* Every request leaves the automatic part of the pipeline: it ends, or it *)
(* waits for a reviewer.                                                   *)
Progress ==
    \A i \in Ids : state[i] \in OpenStates \ {"needs_review"}
                      ~> state[i] \in {"needs_review", "indexed", "denied"}
=============================================================================
