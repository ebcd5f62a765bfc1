----------------------------- MODULE AuditTrail -----------------------------
(***************************************************************************)
(* The audit log (internal/store/audit.go) and the two daemons that read   *)
(* and prune it (internal/audit): the webhook, which posts new events in   *)
(* batches behind a watermark kept in memory, and the retention sweep.     *)
(* Events are recorded by any process that has the database open, also     *)
(* while the server is down.                                               *)
(***************************************************************************)
EXTENDS Naturals, Sequences, FiniteSets

CONSTANTS MaxEvents,   \* bound: events recorded
          MaxDay,      \* bound: days that pass
          MaxBoots,    \* bound: starts of the server
          BatchSize,   \* WebhookOptions.BatchSize
          AuditPolicies \* policy.audit: retain_days (0 disables) and whether a webhook_url is set

ASSUME AuditAssumption ==
    /\ MaxEvents \in Nat /\ MaxDay \in Nat /\ MaxBoots \in Nat
    /\ BatchSize \in Nat \ {0}
    /\ AuditPolicies \subseteq [retain : Nat, url : BOOLEAN]

VARIABLES
    auditRows,     \* audit_events: records of the event, its id and its day
    autoinc,       \* the AUTOINCREMENT counter of the table
    recorded,      \* number of events recorded so far
    today,
    auditPolicy,
    retention,     \* "down", "off", "start" (the sweep before the first tick), "tick"
    hook,          \* webhook daemon: pc in down/off/new/tick/sweep, watermark, batch
    boots,
    posts,         \* history: the events POSTed since the daemon was built, in order
    since,         \* history: the events recorded since the daemon was built
    unseen         \* history: the events pruned before the daemon listed them

auditVars == <<auditRows, autoinc, recorded, today, auditPolicy, retention, hook, boots,
               posts, since, unseen>>

Down == [pc |-> "down", watermark |-> 0, batch |-> <<>>]

AuditInit ==
    /\ auditRows = {} /\ autoinc = 0 /\ recorded = 0 /\ today = 0
    /\ auditPolicy \in AuditPolicies
    /\ retention = "down" /\ hook = Down /\ boots = 0
    /\ posts = <<>> /\ since = {} /\ unseen = {}

-----------------------------------------------------------------------------
\* The largest id in the table, 0 when it is empty: the set of the one answer.
MaxAuditID == {m \in {r.id : r \in auditRows} \cup {0} : \A r \in auditRows : r.id <= m}

\* Mutant: a table without AUTOINCREMENT gives the id after the largest one left.
NextIdReused == (CHOOSE m \in MaxAuditID : TRUE) + 1

NextId == autoinc + 1

RecordAuditEvent ==
    /\ recorded < MaxEvents
    /\ recorded' = recorded + 1
    /\ autoinc' = NextId
    /\ auditRows' = auditRows \cup {[ev |-> recorded + 1, id |-> NextId, day |-> today]}
    /\ since' = IF hook.pc \in {"tick", "sweep"} THEN since \cup {recorded + 1} ELSE since
    /\ UNCHANGED <<today, auditPolicy, retention, hook, boots, posts, unseen>>

NextDay ==
    /\ today < MaxDay
    /\ today' = today + 1
    /\ UNCHANGED <<auditRows, autoinc, recorded, auditPolicy, retention, hook, boots, posts, since, unseen>>

Later(after) == {r \in auditRows : r.id > after}

\* The rows with an id above the watermark, oldest first, at most limit of them
\* and none left out between two: the set of the one answer.
ListAuditAfterID(after, limit) ==
    LET all == Cardinality(Later(after))
        n   == IF all < limit THEN all ELSE limit
    IN  {s \in [1..n -> Later(after)] :
            /\ \A i, j \in 1..n : i < j => s[i].id < s[j].id
            /\ \A i \in 1..n, r \in Later(after) : r.id < s[i].id => \E j \in 1..n : s[j] = r}

\* PruneAudit deletes by timestamp, whether or not a row was delivered.
PruneAudit ==
    LET old == {r \in auditRows : r.day + auditPolicy.retain < today}
    IN  /\ auditRows' = auditRows \ old
        /\ unseen' = unseen \cup {r.ev : r \in {q \in old : q.id > hook.watermark}}

-----------------------------------------------------------------------------
\* serve starts the retention daemon, then builds the webhook daemon.
BootAudit ==
    /\ retention = "down" /\ boots < MaxBoots
    /\ boots' = boots + 1
    /\ retention' = IF auditPolicy.retain = 0 THEN "off" ELSE "start"
    /\ hook' = [Down EXCEPT !.pc = IF auditPolicy.url THEN "new" ELSE "off"]
    /\ posts' = <<>> /\ since' = {} /\ unseen' = {}
    /\ UNCHANGED <<auditRows, autoinc, recorded, today, auditPolicy>>

\* The constructor stamps the watermark; if the read fails it stays 0 and
\* the rows already in the log are posted too.
NewWebhookDaemon ==
    /\ hook.pc = "new"
    /\ \E read \in MaxAuditID \cup {0} :
          hook' = [hook EXCEPT !.pc = "tick", !.watermark = read]
    /\ UNCHANGED <<auditRows, autoinc, recorded, today, auditPolicy, retention, boots, posts, since, unseen>>

\* A tick: the batch is read once. A failed read ends the sweep.
SweepWebhook ==
    /\ hook.pc = "tick"
    /\ \E batch \in ListAuditAfterID(hook.watermark, BatchSize) :
          /\ batch # <<>>
          /\ hook' = [hook EXCEPT !.pc = "sweep", !.batch = batch]
    /\ UNCHANGED <<auditRows, autoinc, recorded, today, auditPolicy, retention, boots, posts, since, unseen>>

\* deliver's outcome is only logged: the watermark moves on either way.
DeliverNext ==
    /\ hook.pc = "sweep"
    /\ LET ev == Head(hook.batch)
           rest == Tail(hook.batch)
       IN  /\ posts' = Append(posts, ev)
           /\ hook' = [pc |-> IF rest = <<>> THEN "tick" ELSE "sweep",
                       watermark |-> IF ev.id > hook.watermark THEN ev.id ELSE hook.watermark,
                       batch |-> rest]
    /\ UNCHANGED <<auditRows, autoinc, recorded, today, auditPolicy, retention, boots, since, unseen>>

\* RetentionDaemon.sweep, before the first tick and on every tick.
SweepRetention ==
    /\ retention \in {"start", "tick"}
    /\ retention' = "tick"
    /\ PruneAudit
    /\ UNCHANGED <<autoinc, recorded, today, auditPolicy, hook, boots, posts, since>>

\* The context is cancelled between two deliveries, or the process dies.
StopAudit ==
    /\ retention # "down"
    /\ retention' = "down" /\ hook' = Down
    /\ UNCHANGED <<auditRows, autoinc, recorded, today, auditPolicy, boots, posts, since, unseen>>

AuditNext ==
    \/ RecordAuditEvent \/ NextDay \/ BootAudit \/ NewWebhookDaemon
    \/ SweepWebhook \/ DeliverNext \/ SweepRetention \/ StopAudit

AuditSpec == AuditInit /\ [][AuditNext]_auditVars

-----------------------------------------------------------------------------
(* While the webhook daemon lives, every event is POSTed at most once and  *)
(* in the order of the log; and the watermark passes over no event         *)
(* recorded since the daemon was built unless retention deleted it before  *)
(* the daemon listed it (webhook.go: "every new event with id > watermark  *)
(* is POSTed once").                                                       *)
WebhookPostsOnce ==
    hook.pc \in {"tick", "sweep"} =>
        /\ \A i, j \in 1..Len(posts) : i < j => posts[i].id < posts[j].id
        /\ \A e \in since :
              \/ \E r \in auditRows : r.ev = e /\ r.id > hook.watermark
              \/ \E i \in 1..Len(posts) : posts[i].ev = e
              \/ \E i \in 1..Len(hook.batch) : hook.batch[i].ev = e
              \/ e \in unseen
=============================================================================
