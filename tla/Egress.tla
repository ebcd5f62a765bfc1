---- MODULE Egress ----
(***************************************************************************)
(* Outbound HTTP: the profile a process is started with (internal/config,  *)
(* cmd/bzlhub/main.go), the policy every RoundTrip consults                *)
(* (internal/egress), the registry client's own allowlist (internal/fetch),*)
(* and the clients that carry requests: "fetch" for registries and         *)
(* archives, "egress" for webhooks, probes, forges and GitHub, "purge" for *)
(* the CDN purger.  Redirects are followed hop by hop through the same     *)
(* transport.                                                              *)
(***************************************************************************)
EXTENDS Naturals, FiniteSets

CONSTANTS OutCalls,   \* outbound calls, one-shot
          MaxHops     \* redirects net/http follows before it gives up

\* A host, its parent domain, and a host of another domain.
Hosts == {"raw.gh", "gh", "cdn"}

\* A pattern is a host or "*." and a domain, which does not match the domain.
Patterns == Hosts \cup {"*.gh"}
Matches(pattern, host) == pattern = host \/ (pattern = "*.gh" /\ host = "raw.gh")

VARIABLES
    environment,    \* BZLHUB_PROFILE, BZLHUB_ALLOWED_HOSTS, BZLHUB_EGRESS_AUDIT_FILE
    egressPolicy,   \* the process default: mode, allow, whether a sink is open
    outbound,       \* call -> its request
    wire,           \* history: <<client, host>> that was really contacted
    gatePasses,     \* history: hops decided by policyTransport
    egressLog,      \* history: lines of the audit file that hold one event, and end
    logTail,        \* what follows its last newline: "closed" (nothing), "event", "torn"
    emitFailures    \* history: emissions that were not written whole

logVars == <<egressLog, logTail, emitFailures>>
egressVars == <<environment, egressPolicy, outbound, wire, gatePasses, logVars>>

Unconfigured == [mode |-> "none", allow |-> {}, sink |-> FALSE]
NotSent == [pc |-> "idle", via |-> "none", host |-> "none", hops |-> 0]

profileEgressMode(p) ==
    CASE p = "mirror-only" -> "deny" [] p = "sync-runner" -> "audit" [] OTHER -> "allow"

\* The audit file is appended to; an earlier process may have died in a line.
EgressInit ==
    /\ environment \in [profile : {"default", "mirror-only", "sync-runner", "unknown"},
                        allow : {{}, {"gh"}, {"*.gh"}, {"*.gh", "cdn"}},
                        auditFile : {"unset", "usable", "unterminated", "unusable"}]
    /\ egressPolicy = Unconfigured
    /\ outbound = [c \in OutCalls |-> NotSent]
    /\ wire = {} /\ gatePasses = 0 /\ egressLog = 0 /\ emitFailures = 0
    /\ logTail = IF environment.auditFile = "unterminated" THEN "torn" ELSE "closed"

\* LoadEnvironment's parse and Validate: mirror-only takes no allowlist,
\* sync-runner needs one.
Validate(env) ==
    /\ env.profile # "unknown"
    /\ env.profile = "mirror-only" => env.allow = {}
    /\ env.profile = "sync-runner" => env.allow # {}

\* configureProcessEgress, before any command runs.  Deny and audit refuse to
\* start without an audit file.
configureProcessEgress ==
    /\ egressPolicy = Unconfigured
    /\ LET mode == profileEgressMode(environment.profile)
           starts == /\ Validate(environment)
                     /\ environment.auditFile # "unusable"
                     /\ mode # "allow" => environment.auditFile # "unset"
       IN egressPolicy' = IF starts
                          THEN [mode |-> mode, allow |-> environment.allow,
                                sink |-> environment.auditFile # "unset"]
                          ELSE [Unconfigured EXCEPT !.mode = "refused"]
    /\ UNCHANGED <<environment, outbound, wire, gatePasses, logVars>>

Configured == egressPolicy.mode \in {"allow", "deny", "audit"}

\* The two matchers read alike: no list, no restriction.
hostAllowed(host) ==
    egressPolicy.allow = {} \/ \E p \in egressPolicy.allow : Matches(p, host)

\* Mutant: the policy is consulted for the first request and not for a redirect.
PolicyCheckFirst(c) ==
    \/ outbound[c].hops > 0
    \/ egressPolicy.mode # "deny" /\ hostAllowed(outbound[c].host)

\* Policy.Check.
PolicyCheck(c) == egressPolicy.mode # "deny" /\ hostAllowed(outbound[c].host)

Set(c, pc) == outbound' = [outbound EXCEPT ![c].pc = pc]

\* Client.get refuses a host on its own before it makes a request; the other
\* clients have no such check.
Get(c, via, host) ==
    /\ Configured /\ outbound[c].pc = "idle"
    /\ outbound' = [outbound EXCEPT ![c] =
          [NotSent EXCEPT !.via = via, !.host = host,
             !.pc = IF via = "fetch" /\ ~hostAllowed(host) THEN "failed" ELSE "hop"]]
    /\ UNCHANGED <<environment, egressPolicy, wire, gatePasses, logVars>>

\* JSONLSink.Emit: the event and its newline are two writes under one mutex.
\* Either may fail, the first one half-way; an event that cannot be encoded is
\* not written at all.  Every error is dropped, and the tail waits for the next.
WriteLine(body, newline) ==
    LET tail == IF body = "none" THEN logTail
                ELSE IF body = "whole" /\ logTail = "closed" THEN "event" ELSE "torn"
    IN  /\ logTail' = IF newline THEN "closed" ELSE tail
        /\ egressLog' = egressLog + IF newline /\ tail = "event" THEN 1 ELSE 0
        /\ emitFailures' = emitFailures + IF body = "whole" /\ newline THEN 0 ELSE 1

\* emitDenial and emitOutcome write nothing when the sink is a NopSink.
Emit ==
    IF egressPolicy.sink
    THEN \E body \in {"none", "half", "whole"}, newline \in BOOLEAN : WriteLine(body, newline)
    ELSE UNCHANGED logVars

\* policyTransport.RoundTrip on a forbidden host.
Denied(c) ==
    /\ outbound[c].pc = "hop" /\ outbound[c].via # "purge" /\ ~PolicyCheck(c)
    /\ gatePasses' = gatePasses + 1 /\ Emit
    /\ Set(c, "failed")
    /\ UNCHANGED <<environment, egressPolicy, wire>>

\* The request leaves the process: through the policy, and for a fetch client
\* through allowlistTransport as well.  buildPurger hands purge.Build no
\* HTTPClient, and http.DefaultClient has neither.
Send(c) ==
    /\ outbound[c].pc = "hop"
    /\ outbound[c].via # "purge" => PolicyCheck(c)
    /\ wire' = wire \cup {<<outbound[c].via, outbound[c].host>>}
    /\ Set(c, "sent")
    /\ UNCHANGED <<environment, egressPolicy, gatePasses, logVars>>

\* Mutant: only the first hop of a call is audited.
RoundTripEndsFirst(c) ==
    IF outbound[c].via = "purge" THEN UNCHANGED <<gatePasses, logVars>>
    ELSE /\ gatePasses' = gatePasses + 1
         /\ IF egressPolicy.mode = "audit" /\ outbound[c].hops = 0 THEN Emit ELSE UNCHANGED logVars

\* What follows RoundTrip: audit mode records success and failure alike.
RoundTripEnds(c) ==
    IF outbound[c].via = "purge" THEN UNCHANGED <<gatePasses, logVars>>
    ELSE /\ gatePasses' = gatePasses + 1
         /\ IF egressPolicy.mode = "audit" THEN Emit ELSE UNCHANGED logVars

\* A redirect is a new hop with the same client, up to net/http's limit.
Redirect(c, host) ==
    /\ outbound[c].pc = "sent"
    /\ RoundTripEnds(c)
    /\ IF outbound[c].hops = MaxHops THEN Set(c, "failed")
       ELSE outbound' = [outbound EXCEPT ![c] =
                [outbound[c] EXCEPT !.pc = "hop", !.host = host, !.hops = outbound[c].hops + 1]]
    /\ UNCHANGED <<environment, egressPolicy, wire>>

\* A body, or a failure: transport error, a status outside 2xx, an HTML body
\* where JSON is due, a body over the cap.
Response(c) ==
    /\ outbound[c].pc = "sent"
    /\ RoundTripEnds(c)
    /\ \E pc \in {"answered", "failed"} : Set(c, pc)
    /\ UNCHANGED <<environment, egressPolicy, wire>>

EgressNext ==
    \/ configureProcessEgress
    \/ \E c \in OutCalls, via \in {"fetch", "egress", "purge"}, h \in Hosts : Get(c, via, h)
    \/ \E c \in OutCalls : Denied(c)
    \/ \E c \in OutCalls : Send(c)
    \/ \E c \in OutCalls, h \in Hosts : Redirect(c, h)
    \/ \E c \in OutCalls : Response(c)

EgressSpec == EgressInit /\ [][EgressNext]_egressVars

Permitted(host) ==
    /\ environment.profile # "mirror-only"
    /\ environment.allow = {} \/ \E p \in environment.allow : Matches(p, host)

\* No request of the fetch and egress clients, redirects included, reaches a
\* host the operator's profile forbids.
OnlyPermittedContacted == \A w \in wire : w[1] # "purge" => Permitted(w[2])

\* A torn line left by an earlier process spoils the first one of this process.
Inherited == IF environment.auditFile = "unterminated" THEN 1 ELSE 0

\* The log is best effort (sink.go): in a profile that must be audited, a hop
\* the transport decided lacks its line only for an emission that failed, and a
\* failed emission costs no more than its own line and the next.  No line
\* stands for a hop that was not decided.
HopsAccounted ==
    /\ egressLog <= gatePasses
    /\ egressPolicy.mode \in {"audit", "deny"} =>
          gatePasses <= egressLog + 2 * emitFailures + Inherited

\* Whatever a registry answers and whichever writes of the audit file fail,
\* every hop of every gated client goes through the profile's policy and is
\* accounted for in the log.  (policyTransport.RoundTrip, JSONLSink.Emit.)
HopsGated == OnlyPermittedContacted /\ HopsAccounted

\* purge/factory.go wants the CDN's calls to "flow through the same audit +
\* allowlist + timeout posture as other egress", and the README says that
\* mirror-only denies all egress: no client at all contacts a host the profile
\* forbids.
EgressConfined == \A w \in wire : Permitted(w[2])
====
