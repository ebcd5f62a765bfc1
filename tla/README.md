# Verification of bzlhub

bzlhub is a self-hosted Bazel module registry: one Go process that serves a
BCR-shape tree over HTTP, mirrors module versions from upstream registries into
that tree, indexes them in SQLite, federates to upstream registries for what it
does not have, and lets users *request* modules through a reviewed procurement
pipeline. This directory holds TLA+ models of the parts of it that are stateful
and concurrent, the TLC configurations that check them on small instances, and
TLAPS proofs that every safety property a passing run checks holds on any instance.

Paths below are relative to the repository. `PROJECT.json` maps every modelled
definition to the lines it stands for and lists runs, mutants, findings, hazards
and theorems.

## 1. The system and its parts

| part | state it keeps | operations that change it | what is hard |
|---|---|---|---|
| Requests store (`internal/store/requests.go`) | `requests` rows with a state, `retry_count`, `state_changed_at`; `audit_events` | insert, compare-and-swap transition, reclaim of stuck rows | every caller reads, waits, then writes |
| Request handlers (`internal/server/request_handlers.go`) | none of their own | submit (dedup probe, pool cap, insert, audit), approve, deny | probe, count and insert are separate statements |
| Preflight runner (`internal/preflight`) | per worker: the row it holds | list, claim, check, verdict, audit | workers race each other and a reviewer's denial; SIGTERM in the middle |
| Admit runner (`internal/admit`) | per worker: row, attempt | boot sweep, list, claim, fetch+publish with retries, terminal transition, audit, CDN purge | crash between publish and transition; sweep against a clock; retries |
| Process (`cmd/bzlhub/serve.go`) | goroutines, root context | boot, SIGTERM, exit without waiting for the runners | everything in flight dies at any statement |
| Mirror writer (`internal/mirror`) | the tree: blobs, `source.json`, `MODULE.bazel`, `metadata.json` | atomic file writes in a fixed order; read-merge-write of the version list | concurrent writers, interruption between two files |
| Index (`internal/store`) | `module_versions`, reports, SCIP blobs, flags | WriteReport (replace + cascade delete), WriteScipBlob, flags, backfills | several statements per ingest, rows replaced in between |
| Service (`internal/bzlhub`) | wiring of the above | Bump, RefreshMetadata, ReindexScip, backfills, sync, drift | long multi-step operations that may run at the same time |
| Recursive ingest (`internal/ingest/recursive.go`) | coordinator: visited, pending, inflight; two channels; workers | dispatch, absorb, walk one | bounded channels in both directions; cycles; failures |
| Federation cascade (`internal/backend`) | LRU cache with expiry, coalescing table, upstream health | cascading GET, parallel probes, drains, hooks | answers in any order, timeouts, stale cache fills |
| Publishers (`internal/publish`) | a git clone and its remote; pull requests | sync, write, stage, commit, push, retry; branch and PR | failure between any two git commands; other committers |
| Event bus (`internal/eventbus`, SSE in `internal/server`) | subscribers, channels, drop counters | publish, subscribe, unsubscribe, close, forward | channels closed under a publisher, slow clients, shutdown |
| Boot and routes (`cmd/bzlhub/serve.go`, `internal/server`, `internal/mcpsrv`) | wiring of backend, store, policy, identities | boot stages that may refuse, reload, one request at a time | many switches; what each combination lets a caller change |
| Identity and policy (`internal/auth`, `internal/policy`) | identity file, policy snapshot, maintainer verdicts | load, merge, gate, cache | merged files; a cached verdict after a revocation |
| Egress (`internal/egress`, `internal/fetch`) | process-wide policy, clients, audit file | check, send, follow a redirect | hops; clients that bypass the policy |
| Fetch and extract (`internal/resolve`, `internal/archive`) | a temporary tree, a running digest | stream, tee, extract, verify, clean up | truncated, oversized and trailing bytes; verification after extraction |
| Source cache (`internal/codenav`) | unpacked trees with a sentinel, LRU of entries | resolve, materialize, unpack | callers without the entry's Once; crashes |
| Offline verification (`internal/verify`) | a snapshot of tree and index | walk, list, hash, compare | an ingest at work meanwhile |
| Dependency reads (`internal/bzlhub/service_closure.go`, `service_external.go`, `internal/scip`, `internal/closurediff`) | a queue, a graph, a shared report | breadth-first walks, fan-out | the store changes between two reads; caps, cycles, versions that win late |
| Repository metadata (`internal/githubmeta`) | a row per module with its ETag | read, conditional fetch, upsert | overlapping refreshes |
| Audit daemons (`internal/audit`) | webhook watermark; retention | poll and POST, prune | restart loses or repeats; prune against delivery |
| Forge watcher (`internal/forgewatch`) | last seen commit, backoff | poll, emit, save | crash between emit and save |
| Rate limiters (`internal/ratelimit`) | token buckets, semaphores | consume, GC, acquire | GC against a request in flight |
| Runtime reload (`internal/runtime`) | config snapshot | SIGHUP reload | coalesced signals |
| Drift, sync (`internal/drift`, `internal/bzlhub`) | drift summaries, mirror clone | sync, refresh | refresh lost after a failed step |

How they interact. HTTP handlers and the two runners meet only in the `requests`
table: the compare-and-swap on `state` is the whole of their synchronisation. The
admit runner calls a publisher, which writes through the mirror writer and, for
git, pushes. Handlers call the service, which writes the mirror first and the
index second. The service and the recursive walk publish on the event bus, which
feeds `/api/events`. The registry endpoints read the mirror through the cascade;
the cascade's promote hook calls the service back. Nothing coordinates two of
these with a lock that spans more than one call.

What makes each part correct, in a sentence:

- *Requests*: a row has one owner at a time; a request is granted before it is
  fetched, published only while fetched, indexed only when published, and a
  terminal verdict is final; every request eventually leaves the automatic states.
- *Ingest*: whatever the registry advertises can be fetched, whoever was
  interrupted where; nothing a successful call listed disappears.
- *Walk*: every reachable coordinate is fetched exactly once and the walk returns.
- *Publish*: nothing that landed on the base branch is lost, and the clone is never
  left in a state that blocks the next publish.
- *Cascade*: bounded staleness, no 404 where somebody had the file, every GET returns.
- *Event bus*: order per publisher, losses counted, shutdown ends the streams.
- *Serving and gates*: nobody passes a gate that the files in force do not open to
  them, and nothing is changed for a caller nobody let in.
- *Limiters and caches*: tokens, slots and stale verdicts stay within their bounds
  however callers interleave, are evicted or the rate is reloaded.
- *Audit, watcher, reload, drift*: an event is posted once and in order, the state
  file never runs ahead of the index, no signal is lost, a label never claims more
  than was computed.
- *Fetch, source cache, verification*: a tree that is handed out is the whole archive;
  a sentinel is honest unless two unpackings overlapped; a scan finds damage and
  nothing else.
- *Dependency reads*: a graph, a closure, an airgap configuration and a diff leave
  nothing out silently.

## 2. Modules

Component modules:

| module | models | checked in |
|---|---|---|
| `RequestStates` | request states, legal transitions, the state sets the queries name | `requests_*` |
| `RequestLifecycle` | the abstract promise about a request | `requests_safety` (refinement) |
| `Requests` | requests store, handlers, preflight, admit, process | `requests_*`, proofs |
| `Ingest` | mirror writer, index, Bump, walk workers, refresh, reindex, boot backfill | `ingest` |
| `Walk` | coordinator and workers of a recursive ingest | `streams` |
| `EventBus` | bus, forwarder, SSE handler | `streams` |
| `Reload` | SIGHUP to snapshot swap | `streams` |
| `Cascade` | cascading GET, probes, cache, hooks | `streams`, `server` |
| `RegistryHistory` | the abstract promise of a registry repository | `mirror` (refinement) |
| `Publish` | `GitDirectPublisher`, `GitPRPublisher`, remote, forge | `mirror` |
| `ForgeWatch` | watcher, state file, sync callback | `mirror` |
| `Verify` | verify scan beside an ingest | `mirror` |
| `SourceCache` | code-nav resolver and unpacking | `mirror` |
| `Materialize` | source.json to extracted tree | `mirror` |
| `DriftSync`, `DriftReport` | registry sync and drift rows; the comparison itself | `mirror` |
| `GitHubMeta` | conditional refresh of repository facts | `mirror` |
| `DepGraph`, `Airgap` | stored dependency graph; the external surface on top of it | `mirror` |
| `SymbolClosure` | closure of a symbol index | `mirror` |
| `ClosureDiff` | parallel diff of two closures | `mirror` |
| `Gates`, `Serving` | identity, policy and gates; boot, routes and reload on top of them | `server` |
| `IngestLimits`, `UserLimits` | the two rate limiters | `server` |
| `Maintainers` | maintainer table and verdict cache | `server` |
| `AuditTrail` | audit table, webhook, retention | `server` |
| `Egress` | outbound calls and redirects | `server` |

Proof modules, checked by tlapm:

| module | theorems about |
|---|---|
| `RequestsProofs` | `Requests`, and its refinement of `RequestLifecycle` |
| `IngestProofs` | `Ingest`, and the casts of `MCIngest` |
| `PublishProofs` | `Publish`, and its refinement of `RegistryHistory` |
| `CacheProofs` | `Cascade`, `Maintainers` |
| `EventBusProofs` | `EventBus` |
| `MirrorProofs` | `ForgeWatch`, `Verify`, `SourceCache`, `Materialize`, `DriftSync`, `DriftReport`, `GitHubMeta` |
| `ClosureProofs` | `Walk`, `SymbolClosure`, `ClosureDiff`, `DepGraph`, `Airgap` |
| `ServerProofs` | `Gates` and `Serving`, `Egress`, `IngestLimits`, `UserLimits`, `AuditTrail` |

`Airgap` extends `DepGraph` (it walks its graph while an ingest writes the rows),
`Serving` extends `Gates`. `MCRequests` and `MCIngest` instantiate one module each;
`MCRequestsCast` adds to `MCRequests` a choice of who may act.
`MCStreams`, `MCMirror` and `MCServer` put several machines into one run: machines
that share no variable do not influence each other, so the initial state chooses one
of them (`part`) and the others rest. Nothing is lost by this, since every
interleaving of two such machines is a shuffle of their own behaviours.

### Requests

*State.* One variable per column that matters (`state`, `body`, `retryCount`;
`stale` stands for "`state_changed_at` is older than `sweepStaleness`"; `hit` for a
`preflight_json` with a cascade source), the audit table as a set of (row, kind),
the process (`proc`, `phase`, `boots`) and a record per handler and worker holding
its program counter and what it has read. `granted`, `pub` and `attempts` are
history. Rows are numbered 1..`MaxId`; `"none"` is a row that does not exist yet.

*Actions.* One SQL statement or one external call per action, in the order of the
code. `TransitionRequest` is the `UPDATE ... WHERE id = ? AND state = ?`;
`TransitionLost` is its `ErrStateMismatch` (or SQL error when `StoreFaults`).
`ListRequests` keeps the newest-first limit of the query. `PfCancelled` and
`AdCancelled` are what a cancelled context does to a worker; `AdAudit` and `AdPurge`
still run while the process is stopping because the code detaches them from
cancellation. `Exit` is both the end of a graceful stop (`serve` does not wait for
its runners) and a crash. `MayPublish` says what module `Publish` shows of
git-direct: an entry that is already on the branch cannot be committed again.
`CheckVerdicts` is the set of verdicts `DefaultChecker` can reach for a body under
some policy.

*Abstract specification.* `RequestLifecycle` has no workers, handlers or crashes:
Submit, Work, Grant, BeginFetch, PublishEntry, Index, Refuse and Recover. `Requests`
instantiates it as `Lifecycle` (`INSTANCE ... WITH`, the identity on `state`,
`granted` and `pub`; everything else is hidden). The refinement is checked by TLC
(`ImplementsLifecycle`) and proved (`Refinement`).

### Ingest, Walk

A thread of `Ingest` (a Bump, a worker of one walk, a refresh, a reindex) carries its
coordinate, the version list it has read and what is left to do. One atomic file
replacement or one store transaction is one step. `SharesLock` is the per-name mutex
of a `mirror.Writer`: workers of one walk share a Writer, every Bump and refresh has
its own. `WriteReport` replaces a row and thereby drops its SCIP blob, flag and size
(`ON DELETE CASCADE`). `HEAD` is the placeholder version of an archive without one;
it sorts after every numeric version, as in the string comparison of the code.
`Fail` ends a thread at any point.

`Walk` is the coordinator and the workers of `RecursiveFromRegistry` with the two FIFO
channels of capacity `2 * workers`; `walkOne` may fail for any key. The dependency
graph and the pool are chosen in the initial state.

### Publish, ForgeWatch

A tree is the set of version directories it holds and the set of versions its
`metadata.json` files list. The clone has a working tree, an index and a checked-out
commit; `ResetHard` keeps what git does not track. The remote moves through
`SiblingCommit` and `MergePR` (external). `Fail` stands for an error of any git
command or file write, a cancelled context or a kill. The strategy (`mode`) is chosen
in the initial state. `cutShort` is history: the versions of calls that ended between
writing their files and `git add`.

*Abstract specification.* `RegistryHistory` is the base branch as its readers see it: a
set of entries (files and place in the version list) that commits only add to, and the
versions somebody was told of, which are among them. `Publish` instantiates it as
`History` with `entries <- main.dirs \cap main.listed`, `told <- landed`; the clone, the
branches, the pull requests and the calls are hidden. TLC checks the refinement
(`ImplementsHistory`), `PublishRefines` proves it. A push whose author is killed before it
hears of its success is a `Land` that tells nobody.

`ForgeWatch` numbers the commits of the watched branch. `Fetch`, `Reset`, `Diff` and
`IngestNext` are the steps of the callback, `SaveState` the atomic write of the state
file, `KillWatch` a kill between any two of them. A callback that finds HEAD where it
left it lists the whole tree (`ChangedModuleVersions`), which is what makes a replay
safe; a branch that moved between an interrupted callback and its replay defeats it
(`overrun`).

### Cascade, EventBus, Reload

A body of `Cascade` is represented by the time the upstream produced it, so its age
can be measured. `Lookup`, `Respond`, `Fill` and `TimeOut` are `probeOne`; `Tally` and
`Drain` are the two passes over the result channel (buffered for all results, so a
send never blocks). Cancelled siblings are a special case of `Respond` with an error.

`Snapshot` and `Offer` of `EventBus` are the two halves of `Publish`: the mutex is not
held while sending. `ForwardRecv` and `ForwardSend` are the goroutine of
`Service.Subscribe`. A panic ends a handler (net/http recovers it) or, in a detached
goroutine, the process; a panic while the bus mutex is held leaves it locked (`stuck`).

`Reload` has the two channels of capacity one between the signal and `runOnce`. A
file is known by how often it was edited; a bad edit fails to load and keeps the old
value.

### Serving, Gates, Maintainers and the limiters

`Gates` is a module of operators: the two identity middlewares, the identity file, the
loading and merging of policy files and `Allow`. `Serving` runs the boot sequence as
one action per stage; every refusal of the code is a refusal of the stage, and the
environment (flags, files, probe outcomes) is chosen where it is read. Its properties
quantify over the requests a started server could get. `Meant` and `Earned`
are the reference: what the files say, read without the code's merge and lookup. What a
deployment chooses is a constant: tokens, peers, the networks an operator trusts, groups,
the `auth.actions` tables of its policy files and the entries of its identity files. A
group is a name and the gate `group:<name>` that stands for it in a policy file;
`GatesAssumption` says that two groups have two gates, neither of which is `any` or
`authenticated`, and that the groups the embedded profiles name are there.

`Maintainers` splits `AllowFor` into cache lookup, table read and store. `IngestLimits`
and `UserLimits` count tokens in fractions of a tick and split the calls where the code
releases a lock: between reading the clock, the bucket and the semaphore, and between
looking a bucket up, consuming and stamping it.

### AuditTrail, Egress

Events get the ids of an AUTOINCREMENT column; any process may record, the webhook
lists and posts in batches behind a watermark in memory, retention prunes by age.
`Egress` follows a request hop by hop through the transports of its client; what was
really contacted is history (`wire`). The audit file is best effort: `WriteLine` is
`JSONLSink.Emit`, whose event and newline are two writes that may each fail, the first
one half-way, and whose errors are dropped. What follows the last newline (`logTail`)
joins the next line and spoils it; an earlier process may have left the file so.

### DriftSync, DriftReport, GitHubMeta

Upstream is a sequence of revisions; a drift row carries the label it was written with
and the revision its verdict was computed from, which may differ because the mirror
moves under a refresh. `DriftReport` is the comparison of one module as a worker of
`Compute` makes it, step by step: the list of `metadata.json` (or, when that is empty, of
the directory), sorted as strings; the loop of `pickLatest`, one version a step; upstream's
answer or its failure; the loop over upstream's list; the verdict. A version is its
sequence of segments, and what the strings mean (order, the number of a segment of digits)
are constants under `ReportAssumption`. The row of a status is decided by `IF`, in the
order of the code's `switch`: a `CASE` with several guards true lets TLA+ choose, and what
it chooses is not the first arm to a prover. A row of `GitHubMeta` is the edit whose facts
it holds and the status of the last answer.

### Verify, SourceCache, Materialize

`Verify` walks version by version, lists blobs, reads the index and hashes, in that
order, while an ingest writes blob, source.json, MODULE.bazel and index row in its
own and `Harm` damages files; what `CloseBlob` found under the blob's name and what it
left there is history (`found`, `left`). The versions there have a MODULE.bazel that is
not empty. `SourceCache` has the Resolver's calls (LRU entry, Once,
cached outcome) and the calls that go to `unpackSource` directly, on a directory whose
members are written one by one. `Materialize` is one call of `FromRegistry`; what the
registry serves (kind, entries, sizes, a broken or trailing stream, the integrity) is
chosen in the initial state.

### DepGraph, Airgap, SymbolClosure, ClosureDiff

Every report a walk reads is a read of its own, and other requests store reports in
between. `DepGraph` keeps the queue with its duplicates and the depth cap; the children
of a node are queued in the sorted order of the code, and `level` remembers the depth a
node was first taken at. `Airgap` adds the three tables of the external surface, the
ingest that writes them and the `WriteReport`s that delete them, and the reads of a
surface request; `FirstSeen` keeps the first row of every (URL, platform, file) key, as
the code's map does. A response of `AirgapSurface` has the list, the missing modules and
whether the cap was reached; a config of `AirgapDownloaderConfig` is made of the list
alone (`RewrittenHosts`, `ManualURLs`).
`SymbolClosure` takes the dependencies of a module one by one (`Record`), promotes the
greatest version met and expands it again.
`ClosureDiff` hands jobs over an unbuffered channel and may be cancelled while it does.

## 3. Runs

Every passing run lists the invariants and temporal properties it checks; a mutant of
the code breaks each of them (`PROJECT.json`, `mutants`). Four of them are named for
what their parts say together, and each part is broken by a mutant too:
`SubmitRacesBounded` is `DedupBound` and `PendingCapOvershoot`, `RestartsBounded` is
`RetriesPerBoot` and `StrandedBounded`, `EntriesSafe` is `NothingLost` and
`PRCarriesEntry`, `RefusalsJustified` is `UndisturbedSucceeds` and `RefusalsExplained`.

- **requests_safety** (`Requests_safety.cfg`, `TypeOK`, `ExclusiveOwnership`,
  `ImplementsLifecycle`): Two workers and reviewers of each kind race for one row, any
  store call may fail, SIGTERM and crashes fall between any two statements and a second
  process boots: the row keeps one owner and the pipeline implements RequestLifecycle.
- **requests_counts** (`Requests_counts.cfg`, `SubmitRacesBounded`, `RestartsBounded`):
  Either racing submit handlers, and how far the unsynchronised dedup probe and pool cap
  can be overshot, or three lifetimes ended by SIGTERM or a crash between any two
  statements, and what a restart costs: attempts of a row the sweep takes back, and rows
  left in preflighting.
- **requests_live** (`Requests_live.cfg`, `AdmitAudited`, `Progress`): In one
  uninterrupted lifetime every request leaves the automatic states, every admitted row
  is audited and no published entry is denied.
- **ingest** (`Ingest_all.cfg`, `TreeServable`, `WalkStaysListed`, `IndexedIsMirrored`,
  `FlagMatchesBlob`): Either three workers of one walk merge versions of a module, or
  two bumps, a walk worker, a refresh and a reindex meet on one version, or bumps and
  other writers meet on a version with an empty MODULE.bazel, each failing anywhere:
  nothing unfetchable is advertised, a walk loses no listing, the index never runs ahead
  of the mirror, and without failures the flag agrees with the blob.
- **streams** (`Streams_all.cfg`, `ClosureExact`, `StreamFaithful`, `No404OverHit`,
  `WalkTerminates`, `ShutdownEndsStreams`, `SignalledIsLoaded`, `EveryGetReturns`): The
  machines with something that must happen in the end: every recursive walk returns the
  closure, streams see each publisher in order with losses counted and end at shutdown,
  every SIGHUP is honoured, and every GET of the cascade is answered, never by 404 over
  a hit.
- **mirror** (`Mirror_all.cfg`, `EntriesSafe`, `RefusalsJustified`, `ImplementsHistory`,
  `StateBehindIndex`, `VerifyIsExact`, `SentinelIsHonest`, `MaterializedIsWhole`,
  `DriftRowsHonest`, `ReportIsExact`, `ShownMetaHasFacts`, `GraphIsExact`,
  `NothingSilentlyOmitted`, `WinnersExpanded`, `DiffAccountsForAll`): The machines around
  the mirror and the index, each with its failures, kills and concurrent writers:
  publishing (with the base branch implementing RegistryHistory), following the forge,
  verifying, unpacking, fetching, drift and its report, repository metadata and the walks
  over the dependency graph.
- **server** (`Server_all.cfg`, `GatesAreEarned`, `WritesAreGated`, `AdmissionBounded`,
  `UserRateBounded`, `StaleVerdictBounded`, `FreshEnough`, `WebhookPostsOnce`,
  `HopsGated`): The machines behind the HTTP server: every boot and reload leaves gates
  and writes to those the files name, the limiters and caches keep their bounds under
  concurrent callers, the webhook posts once and every outbound hop of a gated client
  passes its policy and is accounted for in a log whose writes may fail.

Bounds and why they are enough.

- `MaxId`: one row for the races over a row (two workers and two reviewers of each
  kind, two boots, faults), two rows for progress, three for the dedup and cap bounds
  (the bound plus one). Ownership and refinement are proved for any number.
- Workers: two of a kind race; a third adds nothing the second does not, since every
  conflict is about one row. `requests_safety` has two admit workers although
  `serve.go` starts one, because `Options.Workers` allows more.
- `MaxBoots` = 2 in `requests_safety`: one interruption and the recovery from it; 3 in
  `requests_counts`, so that a row is taken back twice and what one lifetime strands adds
  to what the one before left. Its restarts have two rows, of different users and
  coordinates and with a `source_url` (the only ones that are retried). `MaxRetries` = 1:
  one retry reaches both sides of the budget test.
- Ingest: the initial state casts either three walk workers over three versions of one
  module (the mutex and the order of merges), or two bumps, a walk worker, a refresh
  and a reindex on one version (rows and files replaced under each other), or two bumps
  and a refresh on a version the registry serves with an empty MODULE.bazel.
- Walk: all 512 dependency graphs over three modules with two workers, and a root
  with more dependencies (6) than the channels (2 + 2) and a lone worker hold.
- EventBus: buffers of one and three events per publisher, so that both channels fill
  and drop, with two publishers and one stream.
- Reload: three edits per file, the second unreadable, one or both files registered.
- Cascade: three upstreams and one GET in `streams` (winner, shadow and loser in every
  order); one upstream and three GETs in `server`, with `MaxClock` = 3 > TTL + probe
  timeout, so that an entry can be too old, filled late and filled again.
- Publish: two versions of one module, so that one call meets the traces of another, and
  three commits on the base branch, so that a push loses the race twice.
- ForgeWatch: three commits, one of them without modules, and one kill.
- Verify: one version with every kind of damage beside one ingest. SourceCache: two
  coordinates in a cache of one entry, archives of two members, three calls, one crash.
- Materialize: archives around the byte budget (one below, at and above it), every kind
  of entry.
- Drift: two rows of one module (they share the upstream cache), two upstream
  revisions, a bootstrap and a sync run, the other writers once. DriftReport: every
  listing of up to three of five versions, in any order, on either side: numbers of one and
  two digits, one number in two spellings, a trailing zero, and a segment that is no
  number.
- GitHubMeta: two refreshes, two edits.
- DepGraph: a diamond with a cross edge past the cap, unpinned dependencies, a cycle;
  cap 2 instead of 10 so that it is reached. Airgap: a producer of an extension, its
  consumer and a module that was never ingested, two rows with one key, two ingests.
- SymbolClosure: a module met at two versions, the greater one later and under another
  repository name. ClosureDiff: every pair of closures over three modules, two workers.
- Serving: every combination of the modelled flags, files and probe outcomes, with two
  tokens, a peer inside and one outside the trusted network, policy tables that open,
  misspell and close gates, and identity files with an anonymous, a malformed and a
  repeated entry. IngestLimits: three calls, two addresses, limits on and off.
  UserLimits: two calls, two rates, two buckets. Maintainers: two grants in a cache of
  one entry.
- AuditTrail: four events in batches of two, two days, two boots. Egress: two calls,
  three hosts, three clients, one redirect, every profile and allowlist, an audit file
  that is unset, usable, left without a final newline or unusable, and any of its writes
  failing.

`CHECK_DEADLOCK FALSE` is set where the system may stop: a walk returned, every GET
answered, a scan finished, a boot refused.

## 4. Fairness

- `Requests` (`FairSpec`): weak fairness of the steps of each worker (tickers fire
  forever, `time.Ticker` loops), of boot and of the boot sweep. No fairness for
  submitting, reviewing, SIGTERM, crashes or the clock. `requests_live` runs one
  process lifetime without store faults: with faults a worker may lose every write.
- `MCStreams` (`StreamsFairness`): weak fairness of the coordinator and of each worker
  of a walk (the HTTP client has timeouts, so `WalkOne` ends); of forwarder and handler
  of a stream (a client that stays connected reads; disconnecting is not assumed); of
  the two goroutines of the reload; of time and of some probe or tally of the cascade.
  Nothing is assumed of upstreams, operators or signals.

## 5. Proofs

The runs check small instances; the theorems state the same definitions for every
value of the constants: any number of workers, callers, modules, versions, upstreams,
retries, restarts, any capacity, time-out and bound. Their only premises are the named
`ASSUME`s of the component modules, which TLC evaluates on every run, and the few
hypotheses written into a theorem, which are named below.

Each invariant follows from an inductive one. Lemmas `...Init...`/`...Start...` show that
it holds initially, lemmas `...Step...` (one for each action that does more than stutter
on most of it) that every step keeps it, and the theorem combines them with `PTL`. What
the inductive invariants add to the properties they serve:

**RequestsProofs** (`IInv`): `TypeCorrect`, `Ownership` and `Refinement`.
`ExclusiveOwnership` is not inductive alone: whether a worker's write is legal depends on
what it carried from earlier steps. `IInv` adds

- `ClCarried`, `RvCarried`, `PwCarried`, `AwCarried`: what a handler or worker in the
  middle of its work carries (row ids, the state a reviewer saw, candidates);
- `FreshRows`: rows not inserted yet are `"none"`, so an insert cannot hit an owned row;
- `Phases`: while the process is down, or before the boot sweep, no admit worker
  holds a row. This is what makes the sweep safe: it takes rows away from nobody;
- `RowsGranted`: a row in `auto_pass`, `approved`, `fetching` or `indexed` was
  granted, and `SuccessPublished`: a worker about to report success has published.
  The refinement needs these two; `StepRefines` shows that every step is a step or a
  stutter of `RequestLifecycle`.

`SubmitRacesStayBounded` (`DuplicatesStayBounded`, `OvershootStaysBounded`) counts, so
it assumes finitely many submit handlers. A handler that has probed or counted is as
good as a row (`RoomForProbed`, `RoomForCounted`): open rows of a coordinate and
handlers past its probe together never exceed the handlers, and the same for a user and
the cap. `EndsAreAudited` assumes a working store and one boot, as its run does; without
either an event can be lost, which the code accepts. `LifeInv` says who holds a fetching
row, that only fetched rows were attempted, and that an ended row has one event or a
worker about to write it.

`RestartsStayBounded` (`RetriesStayPerBoot`, `StrandedStaysBounded`) is about any number
of lifetimes, ended anywhere. `BudgetInv` follows the attempts of a row: a worker that
holds it has used at most what earlier lifetimes may have (`Earlier`) and its own
attempt counter, and a row the running lifetime has already held cannot come back to a
worker, because nothing but a boot sweep leaves `fetching` for a state that workers
poll, and the sweep runs before them. It needs no assumption on the store. `StrandedInv`
needs the store to work, since a lost transition of a running worker strands a row too:
while the process is up the bound counts the ended lifetimes, and while it stops or is
down it counts the rows its preflight workers still check with those already stranded.

**IngestProofs** (`TreeInv`, `FlagInv`): `VersionsServable`, `TreeAlwaysServable`,
`IndexAlwaysMirrored`, `FlagSettles`, `WalkKeepsListings`. The order of writes becomes a
fact about each thread (`Written`, `Refreshed`, `Merging`, `Reindexed`): the files of its
coordinate are in the tree as far as it has come, and every version in the list it read
was servable; a file never leaves the tree, so this outlives any interleaving. A version
is servable (`Whole`) with its archive, its source.json and its MODULE.bazel, if the
registry serves one that is not empty: `Bump` writes no empty one.
`VersionsServable` covers every version somebody asked for; `TreeAlwaysServable` is
`TreeServable` itself and assumes, as its run does, that every archive declares its
version: the index row of one that does not is named `HEAD`, and a refresh lists it.
`FlagInv` says that a flag that disagrees with the blob has a thread on its way to set it.
`WalkKeepsListings` is about the walk of `MCIngest`: the workers of a walk share the
mutex, so the list a worker merges into is the current one (`ReadCurrent`).

**PublishProofs** (`PublishInv`): `EntriesStaySafe` (from `RegistryLosesNothing` and
`PullRequestsCarryEntries`), `RefusalsStayJustified` (from `DirectPublishHeals` and
`RefusalsStayExplained`), `PublishRefines`. Every tree (working tree, index, commit,
branches, base) lists only what it holds (`TreesSound`); between the re-sync and the
push the clone builds on the commit it was reset to, which is the tip unless somebody
moved the tip (`CloneBuilds`); and the new entry has come as far as the call has
(`EntryCarried`). `RefusalsStayExplained` (`DebrisInv`) accounts for every directory in
the working tree: git tracks it, the call in progress wrote it, or a call for it was cut
short before `git add`. `PublishRefines` maps every step to a step of `RegistryHistory`
or a stutter: `StepGains` shows it for the push, another committer's commit and the
merge, the only steps that move the base branch, and `InCoord` says that what they add
is a version somebody asked for or committed.

**CacheProofs** (`CascadeInv`, `MaintInv`): `AnswersAreFresh`, `NotFoundIsEarned`,
`CacheStaysBounded`, `StaleVerdictsExpire`. An entry expires no later than its body's time
plus TTL plus the probe time-out, because a probe in flight is no older than the time-out;
this survives a late probe overwriting a later one. `CacheStaysBounded` (capacity, no key
twice) is proved only: `Cascade` keeps the LRU list, and the lemmas about removing and
inserting are shared with the verdict cache of `Maintainers`.

**EventBusProofs** (`BusInv`): `StreamsAreFaithful`. Sent, forwarded, buffered and received
events of a stream form one sequence that no step reorders, and it never holds the event
its publisher has yet to offer (`NotAhead`), so what is appended is the greatest.

**MirrorProofs**: `StateFileBehindIndex` (once the diff is taken, what the worktree
holds is settled or in the batch, and the listed head has reached the worktree),
`VerifyStaysExact` (what the scan has learnt about a version, in the order it learns it,
against the order in which an ingest writes), `SentinelStaysHonest` (a call alone in a
directory has written exactly the members it has passed), `MaterializesWholeTrees` (the
entries passed so far are extracted in full, within the budget), `DriftLabelsHonest`
(what a writer has read is no older than the label it has noted; under a sync run the
mirror stands still), `MetaIsNeverBlank` (a 200 in hand carries facts, a 304 those of
the row that was read), `ReportStaysExact`. The last one is about a loop: `ReportInv`
carries, from step to step of `pickLatest`, a version of the list that none of those
seen so far is newer than (`Best`). That the comparison of the code agrees with the
order of the numbers (`Newer`) needs the first segment that differs, which exists
because a version has finitely many, and no induction over it. `SentinelStaysHonest` and
`MetaIsNeverBlank` name the overlap in the property itself; run `sourcecache_v` shows
that it is needed.

**ClosureProofs**:

- `WalkReturnsClosure` (`WalkInv`): every visited key is in exactly one place (pending,
  handed out, with a worker, on its way back, counted); `inflight` counts those not in the
  result yet, so it is zero only when nothing is left; the visited keys hold the seeds and
  the dependencies of whatever was mirrored, and lie in every set that does.
- `WinnersAreExpanded` (`SymbolInv`): every dependency of an expanded module counts
  towards the winner of its name or is still to be recorded, and each winner is expanded
  or queued.
- `DiffsAreComplete` (`DiffInv`): a moved module is reported, held by a worker or not yet
  handed out, and in one of these places only.
- `GraphsAreExact` (`GraphInv`): the queue ascends by at most one level, so the level a
  node is first taken at is its least. What is reachable is defined by paths, and the
  provers cannot do induction over them; instead, the first node of a path that is not
  drawn (`LeastOf`, `PathStays`) has a drawn, expanded parent, which is a contradiction.
- `SurfacesOmitNothing` (`AirgapInv`): `GraphInv` with the tables' types, the phases of a
  surface request (while no ingest writes, the stored reports are those of its start),
  that the graph it took said so when it met the cap (`CapFlagged`), and what the nodes
  read so far have added. It is about the response; of a config it says that each URL of
  the list is under a rewrite line or among the manual ones, and nothing of what the list
  does not hold.

**ServerProofs**: `EgressStaysGated` (the policy a client consults is the profile's, and
nothing was sent before it was configured; for the log, `TailAccounted` counts an event
that waits for its newline or a torn tail on the side of the failed emissions), `AdmissionStaysBounded` (a late caller brings a
clock reading older than the bucket's last fill and pushes it back: what was let pass and
what is left were earned by the last fill, `Refilled`, and a balance pushed below zero is
covered by the time since, `Covered`), `UserRateStaysBounded` (between two buckets a whole
burst was earned that nobody took; this needs the collector to wait at least a unit and two
calls, which `UserLimitsAssumption` states and the code's two hours satisfy),
`WebhookStaysOnce` (the batch lies in order above the watermark without a gap in the table,
and every event since the start is ahead, posted, in hand or pruned), `GatesStayEarned` and
`WritesStayGated` (`ServingInv`: the registry and the policy in force are what the files in
force give, through any number of reloads, and the checks of the boot outlive them). The
lemmas follow a request: what a registry holds was in its file (`RegistryVouches`), what a
merged policy says of an action is what profile and overlay mean (`FileMeans`), the groups
of an identity were vouched for (`CallerVouched`), and so an allowed action was earned
(`AllowedIsEarned`). Nothing but `GatesAssumption` is assumed of tokens, groups, tables and
entries.

Only model-checked:

- `Progress`, `WalkTerminates`, `ShutdownEndsStreams`, `SignalledIsLoaded`,
  `EveryGetReturns`: liveness under fairness is out of this prover's reach. `Reload` has
  no other property.
- The violation runs, which show counterexamples.

## 6. Where comments and code disagree

Five runs end in a counterexample (`expect: violation`):

- **ingest_lost_v** (`MirroredStaysListed`, internal/bzlhub/service_ingest.go:183): The
  comments internal/mirror/mirror.go:39 ("serializes metadata.json read-modify-writes
  per module name") and internal/mirror/mirror.go:204 ("Concurrent calls for the same
  name are serialized via a per-name mutex") rest on a mutex that belongs to one Writer,
  but Bump, RefreshMetadata and IngestRecursive each call mirror.New: concurrent bumps
  of two versions of one module both read the old list and the later rename drops a
  version whose bump returned success.
- **eventbus_panic_v** (`PublishReturns`, internal/eventbus/bus.go:56): The comment
  internal/eventbus/bus.go:38 says "Publish never blocks and returns immediately".
  Publish sends outside the mutex to a snapshot of the subscribers; an unsubscribe (a
  client closing /api/events) or Close in between closes the channel, and a send on a
  closed channel panics even in a select with a default. In an HTTP handler the panic
  costs the request, in a detached promote-on-serve bump the process.
- **airgap_surface_v** (`IngestedSurfaceKept`, internal/bzlhub/service_ingest.go:248):
  The comment internal/api/bzlhub.go:413 says of ExternalSurface "Populated by
  bzlhub/internal/external.IngestModule during ingest". ingest.FromDir calls it right
  after its own WriteReport, but Bump writes the report again, under the canonical
  coordinate (internal/bzlhub/service_ingest.go:248) and after hydration
  (internal/bzlhub/service_ingest.go:260); WriteReport deletes the versions row
  (internal/store/reports.go:34) and ON DELETE CASCADE drops external_refs,
  module_extension_usages and module_extension_sources with it, so the surface of the
  ingested version is empty.
- **verify_reingest_v** (`ReingestRepairs`, internal/mirror/mirror.go:175): The finding
  internal/verify/blob_integrity.go:79 tells the operator to repair a blob whose hash is
  wrong: "re-ingest with `bzlhub ingest --from <upstream> <m>@<v> --mirror-to <root>`,
  or restore from backup". BlobSink.Close stats the final name and, when a file is
  there, drops the freshly downloaded bytes in favour of it ("the existing blob is
  canonical", internal/mirror/mirror.go:177), so the re-ingest reports success and
  leaves the damaged blob.
- **sourcecache_v** (`SentinelMeansComplete`, internal/codenav/unpack.go:98): The
  comment internal/codenav/unpack.go:61 says "completeSentinel marks a finished extract.
  Written as the LAST step of a successful unpackSource", and
  internal/codenav/codenav.go:30 "per-(module, version) sync.Once guarantees the unpack
  runs exactly once even under concurrent Resolve calls". MaterializeSource (Summary,
  ExampleFiles, reindex) calls unpackSource without that Once: it finds no sentinel,
  removes the tree another call is writing, and the other one goes on and writes the
  sentinel over what is left.

The modules state further sentences of the comments that the code does not keep
(section "What comments in the code say" of each). TLC refutes each of them when it
is added to a configuration with the constants given here.

- `NextBootReclaims` of `Requests`, internal/admit/runner.go:230 (two boots): The
  comment internal/admit/runner.go:301 says "the request stays in `fetching` and the
  next bzlhub boot's sweepStuckFetching reclaims it". sweepStuckFetching runs once per
  boot and only takes rows whose state_changed_at is older than sweepStaleness (5
  minutes), so a restart sooner than that leaves the row in fetching for the whole next
  lifetime; no other code picks it up.
- `RetryBudget` of `Requests`, internal/admit/runner.go:306 (two boots): The comment
  internal/store/requests.go:415 says "retry_count is preserved so the admit runner's
  retry budget continues from where it left off". processOwned starts every ownership at
  attempt 0 and never reads RetryCount, and retry_count is only written by the terminal
  transition, so the reclaimed request is given maxRetries + 1 new attempts. What holds
  instead is `RetriesPerBoot`: only a restart gives attempts back.
- `AdmitAudited` (second conjunct) of `Requests`, internal/store/requests.go:430 (two
  boots, git publisher): The comment internal/store/requests.go:414 calls the recovery
  edge "semantically equivalent to \"we never started this attempt, please retry from
  scratch.\"" But the interrupted attempt may already have published: with the
  git-direct publisher the retry finds nothing to commit, fails, is not transient, and
  the request is denied although its module version is in the registry.
- `AdmitAudited` of `Requests`, cmd/bzlhub/serve.go:603 (two boots): The comment
  internal/admit/runner.go:455 says "Once that happens, caller cancellation must not
  leave the durable state without its corresponding audit record" and writes the event
  on a context without cancellation, but serve starts the runner with `go
  admitRunner.Run(ctx)` and on SIGTERM returns as soon as srv.Shutdown has returned,
  without waiting for it, so the process can exit before the event is written.
- `PendingCapExact` of `Requests`, internal/server/request_handlers.go:100 (two clients,
  two coordinates, cap 1): The comment internal/store/requests.go:387 says "the handler
  rejects a new submit when this count is already at the configured cap". The count and
  the insert are separate statements, so concurrent submits of one user (for different
  coordinates) all count below the cap and all insert.
- `NoRowAfter500` of `Requests`, internal/server/request_handlers.go:159 (store faults):
  The handler documents "201 + {id, state:\"pending\"} -> new request created" and "500
  -> store failure" (internal/server/request_handlers.go:71). findDedupTarget writes the
  500 and returns nil, which apiSubmitRequest reads as "no open request": it goes on to
  insert a row, so the client is told of a failure and a request exists.
- `CanonicalRows` of `Ingest`, internal/bzlhub/service_ingest.go:242 (`Placeholder` =
  the module): Analyze documents (internal/ingest/ingest.go:22) "callers that have a
  canonical coordinate (e.g. registry-mode ingest) must override Name/Version before
  writing". Bump calls ingest.FromDir, which writes the report under the placeholder
  coordinate first, then writes it again under the canonical one; nothing removes the
  first row.
- `TreeServable` of `Ingest`, internal/bzlhub/service_ingest.go:107 (one bump, one
  refresh, `Placeholder` = the module): The comment
  internal/bzlhub/service_ingest.go:103 says the refresh passes "the module's latest so
  the version list invariant stays correct". The latest version is the greatest string
  among the indexed rows, and Bump indexes archives without a version also as HEAD,
  which sorts after every numeric version and was never mirrored: the refresh lists it
  in metadata.json.
- `ReconciledAtBoot` of `Ingest`, internal/bzlhub/service_admin.go:43 (two bumps of one
  version, faults): The comment internal/bzlhub/service_modules.go:93 says
  has_source_index "is kept fresh by the ingest path (Service.Bump + IngestDir) and
  reconciled at boot via BackfillSourceIndexFlags". Blob and flag are two statements:
  when a second bump of the coordinate replaces the row between them (dropping the blob)
  and then fails to store its own, the flag stays true without a blob; the backfill
  skips rows whose flag is true.
- `StagedOnlyOwn` of `Publish`, internal/publish/git_direct.go:170 (git-direct, faults):
  The comment internal/publish/git_direct.go:165 says "Explicit paths (not `git add -A`)
  so leftover untracked state from an earlier crash can't accidentally land in the
  commit". reset --hard keeps untracked files and the staged path is the whole directory
  of the module, so the version directory of an interrupted publish of another version
  of the same module is committed (unlisted, or listed when the module is new) with the
  next one.
- `RefusalsExact` of `Publish`, internal/publish/git_pr.go:198 (git-pr, faults): The
  comment internal/publish/git_pr.go:119 says Publish "refuses if
  `modules/<module>/<version>/` already exists on the base branch HEAD".
  versionDirExists looks at the working tree, where reset --hard leaves the untracked
  files of an attempt that failed before git add: the version is refused as existing
  although the base branch does not have it. What holds instead is `RefusalsExplained`:
  such an attempt is the only cause.
- `RetryReachesForge` of `Publish`, internal/publish/git_pr.go:214 (git-pr, forge
  faults): The comment internal/publish/git_pr.go:169 says of a failed OpenPR "The
  branch is pushed; opening the PR is what failed. Caller can retry or open the PR
  manually". The retry finds the clone on that branch: git branch -D cannot delete a
  checked-out branch (the error is ignored) and git checkout -b fails because it exists;
  after another publish in between it fails at the push, the old remote branch not being
  an ancestor.
- `NotFoundUnanimous` of `Cascade`, internal/backend/probe.go:130 (two upstreams): The
  comment internal/backend/probe.go:44 says "Returns ErrNotFound only if every upstream
  returned 404 (authoritative \"no\" from all sources)". The code returns ErrNotFound as
  soon as one upstream said 404 and no other answered 200, even when the others timed
  out or failed and may well have the file.
- `PromoteOncePerProbe` of `Cascade`, internal/backend/probe.go:269 (two upstreams): The
  comment internal/backend/cascade.go:230 says "The hook is called at most once per (m,
  v, path) within a probe". probeOne fires it for every upstream whose body it has read,
  also for the ones that lose, so one GET starts one Bump per upstream that has the
  version.
- `EgressConfined` of `Egress`, cmd/bzlhub/serve.go:710 (`Server_all.cfg`):
  README.md:181 says that "`mirror-only` denies all egress", and
  internal/purge/factory.go:35 wants the purge calls to share the posture of other
  egress. buildPurger passes no HTTPClient, so purge/factory.go:56 falls back to
  http.DefaultClient and its requests pass no policy.

Met while modelling, and built into the models as the code does it:

- `Closure` queues a coordinate once per parent and expands it again
  (internal/bzlhub/service_closure.go:86), a failed read of a report is drawn as
  external (:62), and MaxDepthReached may be set by a node that has no children.
- `AirgapSurface` shows a module whose surface could not be read without references
  (internal/bzlhub/service_external.go:57); `NothingSilentlyOmitted` is stated for
  requests whose reads succeed.
- `AirgapDownloaderConfig` takes `closure.Refs` of that response and nothing else
  (internal/bzlhub/airgap_config.go:52): a module without a report, a reached depth cap
  and a fork that failed to interpret are absent from the config without a word, although
  the page offers it as one that "Covers every URL"
  (ui/src/routes/modules/[name]/[version]/airgap/+page.svelte:163). This is why
  `NothingSilentlyOmitted` is a property of the response and, of the config, only says
  that the list is carried over whole.
- The symbol closure is keyed by repository name and compares versions as strings
  (internal/scip/closure_walk.go:98): a name may keep an older version than the winner.
- compareVersions is cyclic once segments mix digits and letters (2 < 10 < 1a < 2), so
  what pickLatest returns depends on the order of the list; `ReportIsExact` is stated for
  numbered versions.
- A denial by the registry client's own allowlist leaves no line in the egress audit
  file (internal/fetch/registry.go:256).
- The egress audit file may miss decisions: `Emit` is "best-effort"
  (internal/egress/sink.go:10) and "Errors are silently dropped" (:46), while a deny or
  audit profile refuses to start without the file "so egress decisions are durably
  audited" (cmd/bzlhub/main.go:140). A write that fails may also join two events into one
  line, and a file that an earlier process left without a final newline spoils the first
  line of the next. `HopsGated` therefore does not say that every hop has its line: it
  bounds what is missing by what failed.
- `Bump` writes MODULE.bazel only when it is not empty
  (internal/bzlhub/service_ingest.go:220), a walk writes it always
  (internal/ingest/recursive.go:273): a version that is served with an empty one and was
  bumped is listed without the file, and verify reports it.
- Promote-on-serve lets an anonymous GET write, an empty identity file satisfies
  CheckMCPWriteStartup, and apiPolicyEffective dereferences a nil policy
  (internal/server/request_handlers.go:543) when none is configured.
- The maintainer Evaluator and RefreshGitHubMetaAll are not called by the server.
- The orphan check of verify reports blobs of a running ingest as safe to delete.
- Bytes after the end of a tar stream are teed but not hashed, so an archive with a
  tail fails its integrity check; without an integrity a truncated blob is kept.
- A failed unpack stays cached in a Resolver entry, also after the archive was mirrored
  again.

## 7. Hazards

`PROJECT.json` lists what is hard to test in this code, at the line where it bites.
Covered by a property:

- internal/store/requests.go:345 (interleaving; `ExclusiveOwnership`,
  `ImplementsLifecycle`): Two workers, or a worker and a reviewer, act on a row both of
  them read earlier; without the CAS one overwrites the other.
- internal/server/request_handlers.go:100 (atomicity; `SubmitRacesBounded`): The dedup
  probe and the insert are separate statements: concurrent submits of one coordinate
  both see no open row.
- internal/server/request_handlers.go:247 (resource_bound; `SubmitRacesBounded`): The
  open-request count is read before the insert, so concurrent submits of one user pass a
  cap only one of them should; a failed count lets every submit through.
- internal/admit/runner.go:456 (partial_failure; `AdmitAudited`): Row transition and
  audit event are separate statements, a publish and its transition are too, and SIGTERM
  exits without waiting for the workers: an admitted row may never be audited, and a
  published one may be fetched, and fail, again. The property is checked in one
  uninterrupted lifetime with a working store, over every order of the statements; what a
  fault or a SIGTERM loses is under the disagreements above.
- internal/admit/runner.go:263 (liveness; `Progress`): A request that passes preflight
  must reach a terminal state although every poll may lose its claim to another worker
  or back off. Checked with one worker of each kind, so that claims are lost to reviewers
  only; serve starts one admit worker, preflight workers may be more.
- internal/bzlhub/service_ingest.go:183 (atomicity; `MirroredStaysListed`,
  `WalkStaysListed`): Every Bump and refresh builds its own Writer, so the per-module
  mutex does not order their read-modify-writes of metadata.json (`MirroredStaysListed`
  fails). The workers of one walk share a Writer, and there it must hold
  (`WalkStaysListed`).
- internal/mirror/mirror.go:233 (partial_failure; `TreeServable`): A bump or walk
  interrupted between blob, source.json, MODULE.bazel and metadata.json must not leave a
  listed version that cannot be fetched.
- internal/bzlhub/service_ingest.go:240 (ordering; `IndexedIsMirrored`): The index row
  is written after the mirror files by several concurrent operations; a row without its
  files would be offered by the catalog.
- internal/store/versions.go:161 (partial_failure; `FlagMatchesBlob`): Blob and flag are
  two statements, and a replaced row drops the blob: the flag and the blob can part for
  good. Claimed while no call has failed; after a failure they do part
  (`ReconciledAtBoot` above).
- internal/bzlhub/service_ingest.go:247 (protocol_sequence; `IngestedSurfaceKept`): A
  Bump writes the report under the coordinate found in the archive, then again under the
  registry's, then once more with hydrated attributes; every write replaces the version
  row and takes along what earlier steps hung off it, the external surface too.
- internal/ingest/recursive.go:147 (deadlock; `WalkTerminates`): Coordinator and workers
  exchange jobs and discoveries over two bounded channels; with both full, everyone may
  wait on everyone.
- internal/ingest/recursive.go:143 (ordering; `ClosureExact`, `WalkTerminates`): Workers
  discover the same dependency, or a cycle leads back, and the walk ends when a counter
  reaches zero: a miscount closes the job channel with work left or leaves the last
  discovery unread.
- internal/publish/git_direct.go:134 (interleaving; `EntriesSafe`, `ImplementsHistory`):
  Other committers push between the sync and the push; the one retry must rebuild on the
  new tip and keep their entries.
- internal/publish/git_direct.go:170 (crash_recovery; `EntriesSafe`,
  `RefusalsJustified`, `ImplementsHistory`): A publish that died between two git
  commands leaves commits, staged or untracked files that the next one builds on.
- internal/publish/git_pr.go:214 (timeout_retry; `EntriesSafe`): A retry after the
  branch was pushed meets its own branch, locally and on the remote.
- internal/backend/cache.go:117 (stale_state; `FreshEnough`): A slow upstream answer
  overwrites a cache entry filled by a later request and restarts its expiry.
- internal/backend/probe.go:130 (ordering; `No404OverHit`): Answers of the upstreams
  arrive in any order, with errors and timeouts among them; the verdict must not depend
  on who is first.
- internal/backend/probe.go:200 (timeout_retry; `EveryGetReturns`): An upstream that
  accepts the connection and never answers must not hold a client beyond the probe
  timeout.
- internal/eventbus/bus.go:56 (interleaving; `PublishReturns`): Publish sends outside
  the mutex to a snapshot, while unsubscribe or Close closes the channels in it.
- internal/bzlhub/service.go:140 (ordering; `StreamFaithful`): Events pass two buffers
  and two goroutines and are dropped when the first is full: a client must see each
  publisher's events in order, and the counter is the only trace of the missing ones.
- internal/eventbus/bus.go:88 (liveness; `ShutdownEndsStreams`): Shutdown must end every
  stream, also the ones that subscribe while the bus closes.
- internal/audit/webhook.go:117 (crash_recovery; `WebhookPostsOnce`): The delivery
  watermark lives in memory and advances event by event behind batches, while retention
  prunes by age and other processes record: an event could be posted twice, out of
  order, or passed over. What was recorded before a restart and not delivered is never
  sent.
- cmd/bzlhub/watch/handler.go:82 (crash_recovery; `StateBehindIndex`): The versions to
  ingest are the diff from the HEAD the callback finds to the one it pulls. When it
  fails or dies after the reset, the replay finds the new HEAD already there and an
  empty diff.
- internal/ratelimit/user.go:58 (stale_state; `UserRateBounded`): The bucket is looked
  up under the map lock and consumed after it is released; an eviction in between gives
  the user a fresh bucket. Only tokens of the bucket in the map are counted: a call that
  stands still between the two for as long as the collector waits (hours) is not.
- internal/runtime/reload.go:113 (interleaving; `SignalledIsLoaded`): A SIGHUP that
  arrives while a reload runs must not be lost: the last edit of the file has to be
  read.
- internal/bzlhub/sync_run.go:66 (partial_failure; `DriftRowsHonest`): The mirror moves
  under a refresh, a backfill or an ingest that writes the same rows; and when the
  refresh after a sync fails, the next run finds the mirror up to date and returns
  before the refresh. That last case is excused: a sync that reports an error promises
  nothing, and the rows stay behind until the mirror moves again.
- internal/ratelimit/ratelimit.go:104 (resource_bound; `AdmissionBounded`): Callers read
  the clock before the bucket lock and meet the semaphore after it: interleaved callers
  must not spend tokens nobody earned, and a slot must be given back exactly once.
- internal/policy/evaluator.go:116 (stale_state; `StaleVerdictBounded`): Lookup, table
  read and store of a maintainer verdict are three steps: a caller that read before a
  revocation stores its verdict after InvalidateMaintainer.
- internal/bzlhub/githubmeta.go:40 (interleaving; `ShownMetaHasFacts`): Overlapping
  refreshes of one module: one writes "not modified" for the ETag of a row another has
  emptied since. The code does this; the property shows that nothing else leaves an empty
  row that counts as valid.
- internal/policy/load.go:125 (protocol_sequence; `GatesAreEarned`, `WritesAreGated`): A
  profile and an overlay are merged map by map, identities come from tokens or proxy
  headers, and all are reloaded at run time: a combination may open a gate no file
  opens, or let a write route start ungated.
- internal/verify/state.go:136 (interleaving; `VerifyIsExact`, `ReingestRepairs`): A
  scan beside a running ingest takes its snapshot in pieces and may report a version
  that is fine, or miss damage; and the repair it suggests keeps the damaged blob.
- internal/codenav/unpack.go:98 (crash_recovery; `SentinelIsHonest`,
  `SentinelMeansComplete`): Calls that take no lock, or a restart, clear a directory
  others are unpacking into; the sentinel may then stand for half a tree.
- internal/egress/client.go:91 (protocol_sequence; `HopsGated`): A redirect leaves for
  another host, the configuration is process-wide and replaced at start: every hop of
  every client must be checked, not only the first. The log that vouches for it is best
  effort.
- internal/resolve/resolve.go:189 (partial_failure; `MaterializedIsWhole`): Integrity is
  checked after the extractor has written its files, and the extractor may stop before
  the end of the stream: truncated, oversized or trailing bytes must not pass for the
  archive.
- internal/bzlhub/service_closure.go:56 (stale_state; `GraphIsExact`,
  `NothingSilentlyOmitted`, `WinnersExpanded`): The walks over the dependency graph read
  report after report while ingests and bumps write them, stop at a depth cap, meet
  cycles and failed reads, and promote a later, greater version after it was passed
  over.
- internal/closurediff/closurediff.go:140 (interleaving; `DiffAccountsForAll`): Workers
  add to one report while the feeder may be cancelled: a module that moved may be
  missing from the report a release is gated on. A cancelled call returns an error and no
  report, so the property speaks of the calls that return one.
- internal/drift/drift.go:294 (numeric_edge; `ReportIsExact`): Versions are compared
  segment by segment, as numbers only when both are digits: 9 against 10, and missing
  segments.

- internal/admit/runner.go:306 (timeout_retry; `RestartsBounded`): The attempt counter
  lives in the goroutine: a row reclaimed after a restart starts again from zero and is
  fetched more often than the budget; nothing else (a sweep, a lost transition, an
  approval in between) may hand out attempts again.
- internal/preflight/runner.go:158 (crash_recovery; `RestartsBounded`): A crash or a
  cancelled transition after the claim leaves the row in preflighting, which no worker
  polls and no boot sweep resets; only a reviewer's denial ends it.
- internal/publish/git_pr.go:198 (stale_state; `RefusalsJustified`): Whether the version
  exists is read from the working tree, which may hold files the base branch does not
  have.

Exposed, and without a property of a run:

- internal/server/request_handlers.go:159: a failed dedup probe answers 500 and the
  handler goes on to insert (`NoRowAfter500` fails).
- internal/admit/runner.go:230: the boot sweep spares rows younger than the cutoff
  (`NextBootReclaims` fails).
- internal/store/requests.go:257: workers list a page of the newest rows; under a steady
  arrival the oldest may starve. The models submit finitely often.
- internal/bzlhub/service.go:140: a client that leaves while the forwarder waits on a
  full channel leaves that goroutine blocked for good; no comment promises otherwise.

## 8. What is not modelled

- The UI (`ui/`), CLI output and read-only endpoints (search, compatibility, health,
  statistics, docs): projections of the index without state of their own.
- Static analysis, SCIP generation, module diffs, URL extraction, head tags, Open Graph
  images, Markdown: pure functions over parsed input and formats; their data is outside
  what TLC can enumerate usefully, and a model of them would repeat the code.
- The rendering and validation of airgap configuration text (`airgap_validate.go`);
  the hosts and URLs that go into it are in `Airgap`.
- SQLite itself: a statement or transaction is atomic and durable.
- The content of files and rows beyond what the properties tell apart.
- `git` killed in the middle of a command (a stale `index.lock`).
- The List operation and the path filters of a cascade upstream.

## 9. Plan

1. *Done*: the procurement pipeline with its abstract specification; every other stateful
   part of the server, the mirror and the command line, model-checked; the base branch with
   its abstract specification; proofs of every invariant and both refinements that a
   passing run checks.
2. Proofs left: `AdmitAudited` with store faults and restarts, as a bound on what is lost;
   an abstract specification of the registry tree (a growing set of fetchable versions)
   that `Ingest` implements.
3. Compositions left: `Requests` with `Publish` in place of `MayPublish`; `Cascade` with
   `Ingest` through the promote hook.
