---------------------------- MODULE ServerProofs ----------------------------
(***************************************************************************)
(* Proofs about the machines behind the HTTP server, each for every value  *)
(* of its constants: the gate in front of outbound requests, the two rate  *)
(* limiters, the webhook beside the pruning of the audit log, and who gets *)
(* past the gates of a started server.                                     *)
(***************************************************************************)
EXTENDS Serving, Egress, IngestLimits, UserLimits, AuditTrail, FiniteSetTheorems,
        SequenceTheorems, TLAPS

(***************************************************************************)
(* Outbound requests (Egress)                                              *)
(***************************************************************************)
CallPcs == {"idle", "hop", "sent", "failed", "answered"}
Clients == {"none", "fetch", "egress", "purge"}

EgressTypeOK ==
    /\ environment \in [profile : {"default", "mirror-only", "sync-runner", "unknown"},
                        allow : {{}, {"gh"}, {"*.gh"}, {"*.gh", "cdn"}},
                        auditFile : {"unset", "usable", "unterminated", "unusable"}]
    /\ outbound \in [OutCalls -> [pc : CallPcs, via : Clients, host : Hosts \cup {"none"},
                                  hops : Nat]]
    /\ gatePasses \in Nat /\ egressLog \in Nat /\ emitFailures \in Nat
    /\ logTail \in {"closed", "event", "torn"}

\* Before the policy is set nothing has been sent.
SilentUntilConfigured ==
    ~Configured => /\ \A c \in OutCalls : outbound[c].pc = "idle"
                   /\ gatePasses = 0 /\ egressLog = 0 /\ emitFailures = 0
                   /\ logTail = IF environment.auditFile = "unterminated" THEN "torn" ELSE "closed"

\* The policy in force is the profile's, and a mode that must be audited has its sink.
PolicyIsTheProfiles ==
    Configured => /\ egressPolicy.mode = profileEgressMode(environment.profile)
                  /\ egressPolicy.allow = environment.allow
                  /\ egressPolicy.mode # "allow" => egressPolicy.sink = TRUE

\* Under deny no gated call is on the wire, so none can end unlogged.
NothingSentUnderDeny ==
    egressPolicy.mode = "deny" =>
        \A c \in OutCalls : outbound[c].pc = "sent" => outbound[c].via = "purge"

\* HopsAccounted with the tail: an event that waits there for its newline was
\* decided, and whatever waits there may spoil the next line.
TailAccounted ==
    /\ egressLog + (IF logTail = "event" THEN 1 ELSE 0) <= gatePasses
    /\ egressPolicy.mode \in {"audit", "deny"} =>
          gatePasses + (IF logTail = "closed" THEN 0 ELSE 1) <= egressLog + 2 * emitFailures + Inherited

EgressInv ==
    /\ EgressTypeOK /\ SilentUntilConfigured /\ PolicyIsTheProfiles
    /\ NothingSentUnderDeny /\ OnlyPermittedContacted /\ TailAccounted

\* A process that has not read its environment has sent nothing.
LEMMA EgressStarts == EgressInit => EgressInv
<1> SUFFICES ASSUME EgressInit PROVE EgressInv
    OBVIOUS
<1>1. ~Configured /\ egressPolicy.mode = "none"
    BY DEF EgressInit, Configured, Unconfigured
<1>2. EgressTypeOK
    BY DEF EgressInit, EgressTypeOK, NotSent, CallPcs, Clients, Hosts
<1>3. SilentUntilConfigured
    BY DEF EgressInit, SilentUntilConfigured, NotSent
<1>4. PolicyIsTheProfiles /\ NothingSentUnderDeny
    BY <1>1 DEF PolicyIsTheProfiles, NothingSentUnderDeny
<1>5. OnlyPermittedContacted /\ TailAccounted
    BY <1>1 DEF EgressInit, OnlyPermittedContacted, TailAccounted, Inherited
<1> QED
    BY <1>2, <1>3, <1>4, <1>5 DEF EgressInv

\* One emission for one decided hop keeps the tail in account (JSONLSink.Emit).
LEMMA EmitAccounts ==
    ASSUME EgressTypeOK, TailAccounted, Emit, gatePasses' = gatePasses + 1,
           UNCHANGED <<environment, egressPolicy>>,
           egressPolicy.mode \in {"audit", "deny"} => egressPolicy.sink = TRUE
    PROVE  /\ gatePasses' \in Nat /\ egressLog' \in Nat /\ emitFailures' \in Nat
           /\ logTail' \in {"closed", "event", "torn"} /\ TailAccounted'
<1>1. CASE egressPolicy.sink
    <2>1. PICK body \in {"none", "half", "whole"}, newline \in BOOLEAN : WriteLine(body, newline)
        BY <1>1 DEF Emit
    <2>2. PICK tail \in {"closed", "event", "torn"} :
              /\ body = "none" => tail = logTail
              /\ body = "half" => tail = "torn"
              /\ body = "whole" => tail = IF logTail = "closed" THEN "event" ELSE "torn"
              /\ logTail' = IF newline THEN "closed" ELSE tail
              /\ egressLog' = egressLog + IF newline /\ tail = "event" THEN 1 ELSE 0
              /\ emitFailures' = emitFailures + IF body = "whole" /\ newline THEN 0 ELSE 1
        BY <2>1 DEF WriteLine, EgressTypeOK
    <2>3. Inherited' = Inherited /\ Inherited \in {0, 1}
        BY DEF Inherited
    <2> QED
        BY <2>2, <2>3 DEF EgressTypeOK, TailAccounted
<1>2. CASE ~egressPolicy.sink
    BY <1>2 DEF Emit, logVars, EgressTypeOK, TailAccounted
<1> QED
    BY <1>1, <1>2

\* What a call becomes keeps its type.
LEMMA OutCallMoves ==
    ASSUME EgressTypeOK, NEW c \in OutCalls, NEW pc \in CallPcs, Set(c, pc)
    PROVE  /\ outbound' \in [OutCalls -> [pc : CallPcs, via : Clients, host : Hosts \cup {"none"},
                                          hops : Nat]]
           /\ outbound'[c].pc = pc /\ outbound'[c].via = outbound[c].via
           /\ \A d \in OutCalls \ {c} : outbound'[d] = outbound[d]
BY DEF EgressTypeOK, Set

\* configureProcessEgress installs the mode of the profile, or refuses to start.
LEMMA EgressConfigureKeeps ==
    ASSUME EgressInv, configureProcessEgress
    PROVE  EgressInv'
<1>1. UNCHANGED <<environment, outbound, wire, gatePasses, logVars>> /\ egressPolicy.mode = "none"
    BY DEF configureProcessEgress, Unconfigured
<1>2. /\ gatePasses = 0 /\ egressLog = 0 /\ emitFailures = 0 /\ \A c \in OutCalls : outbound[c].pc = "idle"
      /\ logTail = IF environment.auditFile = "unterminated" THEN "torn" ELSE "closed"
    BY <1>1 DEF EgressInv, SilentUntilConfigured, Configured
<1>3. EgressTypeOK'
    BY <1>1 DEF EgressInv, EgressTypeOK, logVars
<1>4. SilentUntilConfigured' /\ NothingSentUnderDeny'
    BY <1>1, <1>2 DEF SilentUntilConfigured, NothingSentUnderDeny, logVars
<1>5. PolicyIsTheProfiles'
    <2> DEFINE mode == profileEgressMode(environment.profile)
    <2>1. CASE egressPolicy' = [mode |-> mode, allow |-> environment.allow,
                                sink |-> environment.auditFile # "unset"]
                /\ (mode # "allow" => environment.auditFile # "unset")
        BY <1>1, <2>1 DEF PolicyIsTheProfiles, Configured
    <2>2. CASE egressPolicy' = [Unconfigured EXCEPT !.mode = "refused"]
        BY <2>2 DEF PolicyIsTheProfiles, Configured, Unconfigured
    <2> QED
        BY <2>1, <2>2 DEF configureProcessEgress
<1>6. OnlyPermittedContacted' /\ TailAccounted'
    BY <1>1, <1>2 DEF EgressInv, OnlyPermittedContacted, TailAccounted, Inherited, Permitted, logVars
<1> QED
    BY <1>3, <1>4, <1>5, <1>6 DEF EgressInv

\* Client.get, and the start of any other call, sends nothing yet.
LEMMA EgressGetKeeps ==
    ASSUME EgressInv, NEW c \in OutCalls, NEW via \in {"fetch", "egress", "purge"},
           NEW h \in Hosts, Get(c, via, h)
    PROVE  EgressInv'
<1>1. UNCHANGED <<environment, egressPolicy, wire, gatePasses, logVars>> /\ Configured /\ Configured'
    BY DEF Get, Configured
<1>2. PICK pc \in {"failed", "hop"} :
          outbound' = [outbound EXCEPT ![c] = [NotSent EXCEPT !.via = via, !.host = h, !.pc = pc]]
    BY DEF Get
<1>3. PICK z : z = [NotSent EXCEPT !.via = via, !.host = h, !.pc = pc]
    OBVIOUS
<1>4. z \in [pc : CallPcs, via : Clients, host : Hosts \cup {"none"}, hops : Nat]
    BY <1>3 DEF NotSent, CallPcs, Clients
<1>5. z.pc = pc
    BY <1>3 DEF NotSent
<1>6. outbound' = [outbound EXCEPT ![c] = z]
    BY <1>2, <1>3
<1>7. EgressTypeOK'
    BY <1>1, <1>4, <1>6 DEF EgressInv, EgressTypeOK, logVars
<1>8. NothingSentUnderDeny'
    BY <1>1, <1>5, <1>6 DEF EgressInv, EgressTypeOK, NothingSentUnderDeny
<1>9. SilentUntilConfigured' /\ PolicyIsTheProfiles'
    BY <1>1 DEF EgressInv, SilentUntilConfigured, PolicyIsTheProfiles
<1>10. OnlyPermittedContacted' /\ TailAccounted'
    BY <1>1 DEF EgressInv, OnlyPermittedContacted, TailAccounted, Inherited, Permitted, logVars
<1> QED
    BY <1>7, <1>8, <1>9, <1>10 DEF EgressInv

\* A call that has left idle is one of a configured process.
LEMMA BusyIsConfigured ==
    ASSUME EgressInv, NEW c \in OutCalls, outbound[c].pc # "idle"
    PROVE  Configured
BY DEF EgressInv, SilentUntilConfigured

\* A denied hop is decided and logged in one step (policyTransport, emitDenial).
LEMMA EgressDeniedKeeps ==
    ASSUME EgressInv, NEW c \in OutCalls, Denied(c)
    PROVE  EgressInv'
<1>1. /\ UNCHANGED <<environment, egressPolicy, wire>> /\ Configured /\ Configured'
      /\ gatePasses' = gatePasses + 1 /\ Set(c, "failed")
    BY BusyIsConfigured DEF Denied, Configured
<1>2. /\ gatePasses' \in Nat /\ egressLog' \in Nat /\ emitFailures' \in Nat
      /\ logTail' \in {"closed", "event", "torn"} /\ TailAccounted'
    BY <1>1, EmitAccounts DEF EgressInv, PolicyIsTheProfiles, Denied
<1>3. EgressTypeOK'
    BY <1>1, <1>2, OutCallMoves DEF EgressInv, EgressTypeOK, CallPcs
<1>4. NothingSentUnderDeny'
    BY <1>1, OutCallMoves DEF EgressInv, CallPcs, NothingSentUnderDeny
<1>5. SilentUntilConfigured' /\ PolicyIsTheProfiles'
    BY <1>1 DEF EgressInv, SilentUntilConfigured, PolicyIsTheProfiles
<1>6. OnlyPermittedContacted'
    BY <1>1 DEF EgressInv, OnlyPermittedContacted, Permitted
<1> QED
    BY <1>2, <1>3, <1>4, <1>5, <1>6 DEF EgressInv

\* A hop that Policy.Check let pass goes to a host the profile permits.
LEMMA EgressSendKeeps ==
    ASSUME EgressInv, NEW c \in OutCalls, Send(c)
    PROVE  EgressInv'
<1>1. /\ UNCHANGED <<environment, egressPolicy, gatePasses, logVars>> /\ Configured /\ Configured'
      /\ Set(c, "sent") /\ wire' = wire \cup {<<outbound[c].via, outbound[c].host>>}
    BY BusyIsConfigured DEF Send, Configured
<1>2. outbound[c].via # "purge" => egressPolicy.mode # "deny" /\ Permitted(outbound[c].host)
    <2> SUFFICES ASSUME outbound[c].via # "purge"
                 PROVE  egressPolicy.mode # "deny" /\ Permitted(outbound[c].host)
        OBVIOUS
    <2>1. egressPolicy.mode # "deny" /\ hostAllowed(outbound[c].host)
        BY DEF Send, PolicyCheck
    <2>2. environment.profile # "mirror-only" /\ egressPolicy.allow = environment.allow
        BY <1>1, <2>1 DEF EgressInv, PolicyIsTheProfiles, profileEgressMode
    <2> QED
        BY <2>1, <2>2 DEF hostAllowed, Permitted
<1>3. EgressTypeOK'
    BY <1>1, OutCallMoves DEF EgressInv, EgressTypeOK, CallPcs, logVars
<1>4. NothingSentUnderDeny'
    BY <1>1, <1>2, OutCallMoves DEF EgressInv, CallPcs, NothingSentUnderDeny
<1>5. SilentUntilConfigured' /\ PolicyIsTheProfiles'
    BY <1>1 DEF EgressInv, SilentUntilConfigured, PolicyIsTheProfiles
<1>6. \A w \in wire' : w[1] # "purge" => Permitted(w[2])
    BY <1>1, <1>2 DEF EgressInv, OnlyPermittedContacted
<1>7. OnlyPermittedContacted' /\ TailAccounted'
    BY <1>1, <1>6 DEF EgressInv, OnlyPermittedContacted, TailAccounted, Inherited, Permitted, logVars
<1> QED
    BY <1>3, <1>4, <1>5, <1>7 DEF EgressInv

\* The end of a round trip leaves the log in account with the decisions.
LEMMA RoundTripLogs ==
    ASSUME EgressInv, NEW c \in OutCalls, outbound[c].pc = "sent", RoundTripEnds(c),
           UNCHANGED <<environment, egressPolicy>>
    PROVE  /\ gatePasses' \in Nat /\ egressLog' \in Nat /\ emitFailures' \in Nat
           /\ logTail' \in {"closed", "event", "torn"} /\ TailAccounted'
<1>1. Configured /\ EgressTypeOK /\ TailAccounted
    BY BusyIsConfigured DEF EgressInv
<1>2. CASE outbound[c].via = "purge"
    BY <1>1, <1>2 DEF RoundTripEnds, EgressTypeOK, TailAccounted, Inherited, logVars
<1>3. CASE outbound[c].via # "purge"
    <2>1. egressPolicy.mode # "deny" /\ gatePasses' = gatePasses + 1
        BY <1>3 DEF EgressInv, NothingSentUnderDeny, RoundTripEnds
    <2>2. CASE egressPolicy.mode = "audit"
        <3>1. Emit /\ egressPolicy.sink = TRUE
            BY <1>1, <1>3, <2>2 DEF EgressInv, PolicyIsTheProfiles, RoundTripEnds
        <3> QED
            BY <1>1, <2>1, <3>1, EmitAccounts
    <2>3. CASE egressPolicy.mode # "audit"
        <3>1. UNCHANGED logVars
            BY <1>3, <2>3 DEF RoundTripEnds
        <3> QED
            BY <1>1, <2>1, <2>3, <3>1 DEF EgressTypeOK, TailAccounted, logVars
    <2> QED
        BY <2>2, <2>3
<1> QED
    BY <1>2, <1>3

\* A redirect ends one hop, with its line, and puts the next before the policy.
LEMMA EgressRedirectKeeps ==
    ASSUME EgressInv, NEW c \in OutCalls, NEW h \in Hosts, Redirect(c, h)
    PROVE  EgressInv'
<1>1. UNCHANGED <<environment, egressPolicy, wire>> /\ Configured /\ Configured'
    BY BusyIsConfigured DEF Redirect, Configured
<1>2. /\ gatePasses' \in Nat /\ egressLog' \in Nat /\ emitFailures' \in Nat
      /\ logTail' \in {"closed", "event", "torn"} /\ TailAccounted'
    BY RoundTripLogs DEF Redirect
<1> DEFINE C == [pc : CallPcs, via : Clients, host : Hosts \cup {"none"}, hops : Nat]
<1>3. outbound[c] \in C
    BY DEF EgressInv, EgressTypeOK
<1>4. /\ outbound' \in [OutCalls -> C] /\ outbound'[c].pc # "sent"
      /\ \A d \in OutCalls \ {c} : outbound'[d] = outbound[d]
    <2>1. CASE outbound[c].hops = MaxHops
        <3>1. Set(c, "failed") /\ "failed" \in CallPcs
            BY <2>1 DEF Redirect, CallPcs
        <3> QED
            BY <3>1, OutCallMoves DEF EgressInv
    <2>2. CASE outbound[c].hops # MaxHops
        <3>1. PICK z : z = [outbound[c] EXCEPT !.pc = "hop", !.host = h,
                                               !.hops = outbound[c].hops + 1]
            OBVIOUS
        <3>2. outbound[c].hops + 1 \in Nat
            BY <1>3
        <3>3. z \in C /\ z.pc = "hop"
            BY <1>3, <3>1, <3>2 DEF CallPcs
        <3>4. outbound' = [outbound EXCEPT ![c] = z]
            BY <2>2, <3>1 DEF Redirect
        <3> QED
            BY <3>3, <3>4 DEF EgressInv, EgressTypeOK
    <2> QED
        BY <2>1, <2>2
<1>5. EgressTypeOK'
    BY <1>1, <1>2, <1>4 DEF EgressInv, EgressTypeOK
<1>6. NothingSentUnderDeny'
    BY <1>1, <1>4 DEF EgressInv, NothingSentUnderDeny
<1>7. SilentUntilConfigured' /\ PolicyIsTheProfiles'
    BY <1>1 DEF EgressInv, SilentUntilConfigured, PolicyIsTheProfiles
<1>8. OnlyPermittedContacted'
    BY <1>1 DEF EgressInv, OnlyPermittedContacted, Permitted
<1> QED
    BY <1>2, <1>5, <1>6, <1>7, <1>8 DEF EgressInv

\* An answer or a failure ends the hop, with its line.
LEMMA EgressResponseKeeps ==
    ASSUME EgressInv, NEW c \in OutCalls, Response(c)
    PROVE  EgressInv'
<1>1. UNCHANGED <<environment, egressPolicy, wire>> /\ Configured /\ Configured'
    BY BusyIsConfigured DEF Response, Configured
<1>2. /\ gatePasses' \in Nat /\ egressLog' \in Nat /\ emitFailures' \in Nat
      /\ logTail' \in {"closed", "event", "torn"} /\ TailAccounted'
    BY RoundTripLogs DEF Response
<1>3. PICK pc \in {"answered", "failed"} : Set(c, pc)
    BY DEF Response
<1>4. pc \in CallPcs /\ pc # "sent"
    BY DEF CallPcs
<1>5. EgressTypeOK'
    BY <1>1, <1>2, <1>3, <1>4, OutCallMoves DEF EgressInv, EgressTypeOK
<1>6. NothingSentUnderDeny'
    BY <1>1, <1>3, <1>4, OutCallMoves DEF EgressInv, NothingSentUnderDeny
<1>7. SilentUntilConfigured' /\ PolicyIsTheProfiles'
    BY <1>1 DEF EgressInv, SilentUntilConfigured, PolicyIsTheProfiles
<1>8. OnlyPermittedContacted'
    BY <1>1 DEF EgressInv, OnlyPermittedContacted, Permitted
<1> QED
    BY <1>2, <1>5, <1>6, <1>7, <1>8 DEF EgressInv

(* Whatever the operator configures, whatever the hosts answer and         *)
(* whichever writes of the audit file fail, however many redirects         *)
(* net/http would follow: no gated client contacts a host the profile      *)
(* forbids, and in an audited profile each failed emission leaves at most  *)
(* two decided hops without a line, its own and the next.                  *)
THEOREM EgressStaysGated == EgressSpec => []HopsGated
<1>1. EgressInit => EgressInv
    BY EgressStarts
<1>2. EgressInv /\ [EgressNext]_egressVars => EgressInv'
    <2> SUFFICES ASSUME EgressInv, [EgressNext]_egressVars PROVE EgressInv'
        OBVIOUS
    <2>1. CASE configureProcessEgress
        BY <2>1, EgressConfigureKeeps
    <2>2. CASE \E c \in OutCalls, via \in {"fetch", "egress", "purge"}, h \in Hosts : Get(c, via, h)
        BY <2>2, EgressGetKeeps
    <2>3. CASE \E c \in OutCalls : Denied(c)
        BY <2>3, EgressDeniedKeeps
    <2>4. CASE \E c \in OutCalls : Send(c)
        BY <2>4, EgressSendKeeps
    <2>5. CASE \E c \in OutCalls, h \in Hosts : Redirect(c, h)
        BY <2>5, EgressRedirectKeeps
    <2>6. CASE \E c \in OutCalls : Response(c)
        BY <2>6, EgressResponseKeeps
    <2>7. CASE UNCHANGED egressVars
        BY <2>7 DEF egressVars, logVars, EgressInv, EgressTypeOK, SilentUntilConfigured, Configured,
                    PolicyIsTheProfiles, NothingSentUnderDeny, OnlyPermittedContacted, Permitted,
                    TailAccounted, Inherited
    <2> QED
        BY <2>1, <2>2, <2>3, <2>4, <2>5, <2>6, <2>7 DEF EgressNext
<1>3. EgressInv => HopsGated
    BY DEF EgressInv, EgressTypeOK, TailAccounted, HopsGated, HopsAccounted, Inherited
<1> QED
    BY <1>1, <1>2, <1>3, PTL DEF EgressSpec

(***************************************************************************)
(* The ingest limiter (IngestLimits)                                       *)
(***************************************************************************)
LimitsTypeOK ==
    /\ limits \in [perMin : Nat, maxConcurrent : Nat]
    /\ tick \in Nat /\ sem \in Int
    /\ bucket \in [Addrs -> [tokens : Int, lastFill : Int]]
    /\ call \in [IngestCalls -> [pc : {"idle", "allow", "slot", "serve"}, addr : Addrs, now : Nat]]
    /\ admits \in [Addrs -> Nat]
    /\ opened \in [Addrs -> Nat \cup {-1}]

\* No caller has a time from the future, and one at the bucket's lock has a bucket.
ClocksRead ==
    \A c \in IngestCalls : /\ call[c].now <= tick
                           /\ call[c].pc = "allow" => opened[call[c].addr] # -1

\* A bucket that is not there has let nothing pass.
UnopenedIsUnused == \A a \in Addrs : opened[a] = -1 => admits[a] = 0

\* What was let pass and what is left were both earned by lastFill.
Refilled(a) ==
    admits[a] * Minute + bucket[a].tokens
        <= limits.perMin * (Minute + (bucket[a].lastFill - opened[a]))

\* A balance a late caller pushed below zero is what the clock has earned gone its time.
Covered(a) == 0 <= bucket[a].tokens + (tick - bucket[a].lastFill) * limits.perMin

BucketsBalance == \A a \in Addrs : opened[a] # -1 => Refilled(a) /\ Covered(a)

Served == {c \in IngestCalls : call[c].pc = "serve"}

SlotsCounted ==
    limits.maxConcurrent > 0 => sem = Cardinality(Served) /\ sem <= limits.maxConcurrent

LimitsInv ==
    /\ LimitsTypeOK /\ ClocksRead /\ UnopenedIsUnused /\ BucketsBalance /\ SlotsCounted

-----------------------------------------------------------------------------
(* Arithmetic of the bucket.                                               *)

\* Moving lastFill to another time, also an earlier one, moves the earnings with it.
LEMMA RefillEarns ==
    ASSUME NEW n \in Int, NEW p \in Int, NEW m \in Int, NEW t \in Int, NEW fill \in Int,
           NEW now \in Int, NEW o \in Int,
           n + t <= p * (m + (fill - o))
    PROVE  n + (t + (now - fill) * p) <= p * (m + (now - o))
OBVIOUS

\* A balance the clock covers stays covered when lastFill moves.
LEMMA RefillCovers ==
    ASSUME NEW p \in Int, NEW t \in Int, NEW fill \in Int, NEW now \in Int, NEW k \in Int,
           0 <= t + (k - fill) * p
    PROVE  0 <= (t + (now - fill) * p) + (k - now) * p
OBVIOUS

\* What was let pass, with a covered balance, is bounded by what the clock has earned.
LEMMA BalanceBounds ==
    ASSUME NEW n \in Int, NEW p \in Int, NEW m \in Int, NEW t \in Int, NEW fill \in Int,
           NEW k \in Int, NEW o \in Int,
           n + t <= p * (m + (fill - o)), 0 <= t + (k - fill) * p
    PROVE  n <= p * (m + (k - o))
OBVIOUS

\* A product of natural numbers is one.
LEMMA NonNegative == ASSUME NEW p \in Nat, NEW q \in Nat PROVE p * q \in Nat
OBVIOUS

\* A tick earns at least nothing.
LEMMA LaterEarnsMore ==
    ASSUME NEW p \in Nat, NEW k \in Int, NEW fill \in Int
    PROVE  ((k + 1) - fill) * p >= (k - fill) * p
<1>1. ((k + 1) - fill) * p = (k - fill) * p + p
    OBVIOUS
<1>2. (k - fill) * p \in Int
    OBVIOUS
<1> QED
    BY <1>1, <1>2

-----------------------------------------------------------------------------
\* Without buckets and callers the invariant holds.
LEMMA LimitsStart == LimitsInit => LimitsInv
<1> SUFFICES ASSUME LimitsInit PROVE LimitsInv
    OBVIOUS
<1> USE LimitsAssumption
<1>1. PICK f \in [IngestCalls -> Addrs] : call = [c \in IngestCalls |-> IdleCall(f[c])]
    BY DEF LimitsInit
<1>2. \A c \in IngestCalls : call[c] = [pc |-> "idle", addr |-> f[c], now |-> 0]
    BY <1>1 DEF IdleCall
<1>3. call \in [IngestCalls -> [pc : {"idle", "allow", "slot", "serve"}, addr : Addrs, now : Nat]]
    BY <1>1 DEF IdleCall
<1>4. LimitsTypeOK
    BY <1>3 DEF LimitsInit, LimitsTypeOK
<1>5. ClocksRead
    BY <1>2 DEF LimitsInit, ClocksRead
<1>6. UnopenedIsUnused /\ BucketsBalance
    BY DEF LimitsInit, UnopenedIsUnused, BucketsBalance
<1>7. SlotsCounted
    <2>1. Served = {}
        <3>1. \A c \in IngestCalls : call[c].pc = "idle"
            BY <1>1 DEF IdleCall
        <3> QED
            BY <3>1 DEF Served
    <2>2. Cardinality(Served) = 0
        BY <2>1, FS_EmptySet
    <2> QED
        BY <1>4, <2>2 DEF SlotsCounted, LimitsInit, LimitsTypeOK
<1> QED
    BY <1>4, <1>5, <1>6, <1>7 DEF LimitsInv

\* Time alone only earns tokens.
LEMMA LimitsTickKeeps ==
    ASSUME LimitsInv, TickLimits
    PROVE  LimitsInv'
<1>1. tick' = tick + 1 /\ tick \in Nat /\ UNCHANGED <<limits, bucket, sem, call, admits, opened>>
    BY DEF LimitsInv, LimitsTypeOK, TickLimits
<1>2. LimitsTypeOK'
    BY <1>1 DEF LimitsInv, LimitsTypeOK
<1>3. ClocksRead'
    BY <1>1 DEF LimitsInv, LimitsTypeOK, ClocksRead
<1>4. BucketsBalance'
    <2> SUFFICES ASSUME NEW a \in Addrs, opened[a] # -1
                 PROVE  Refilled(a)' /\ Covered(a)'
        BY <1>1 DEF BucketsBalance
    <2>1. Refilled(a) /\ Covered(a)
        BY DEF LimitsInv, BucketsBalance
    <2>2. limits.perMin \in Nat /\ bucket[a].tokens \in Int /\ bucket[a].lastFill \in Int
        BY DEF LimitsInv, LimitsTypeOK
    <2>3. PICK x \in Int : x = (tick - bucket[a].lastFill) * limits.perMin
        BY <1>1, <2>2
    <2>4. PICK y \in Int : y = ((tick + 1) - bucket[a].lastFill) * limits.perMin
        BY <1>1, <2>2
    <2>5. y >= x
        BY <1>1, <2>2, <2>3, <2>4, LaterEarnsMore
    <2>6. 0 <= bucket[a].tokens + x
        BY <2>1, <2>3 DEF Covered
    <2>7. 0 <= bucket[a].tokens + y
        BY <2>2, <2>5, <2>6
    <2> QED
        BY <1>1, <2>1, <2>4, <2>7 DEF Refilled, Covered
<1>5. UnopenedIsUnused' /\ SlotsCounted'
    BY <1>1 DEF LimitsInv, UnopenedIsUnused, SlotsCounted, Served
<1> QED
    BY <1>2, <1>3, <1>4, <1>5 DEF LimitsInv

\* The handlers that run are finitely many.
LEMMA ServedFinite == IsFiniteSet(Served) /\ Cardinality(Served) \in Nat
<1>1. IsFiniteSet(Served)
    BY LimitsAssumption, FS_Subset DEF Served
<1> QED
    BY <1>1, FS_CardinalityType

\* A call's record after a step that sets its pc, or its pc and its time.
LEMMA IngestCallMoves ==
    ASSUME LimitsTypeOK, NEW c \in IngestCalls, NEW pc \in {"idle", "allow", "slot", "serve"},
           call' = [call EXCEPT ![c].pc = pc]
    PROVE  /\ call' \in [IngestCalls -> [pc : {"idle", "allow", "slot", "serve"}, addr : Addrs,
                                         now : Nat]]
           /\ call'[c].pc = pc /\ call'[c].addr = call[c].addr /\ call'[c].now = call[c].now
           /\ \A d \in IngestCalls \ {c} : call'[d] = call[d]
BY DEF LimitsTypeOK

\* bucketFor opens a full bucket at the time it is asked for (Acquire).
LEMMA LimitsStartIngestKeeps ==
    ASSUME LimitsInv, NEW c \in IngestCalls, StartIngest(c)
    PROVE  LimitsInv'
<1> DEFINE a == call[c].addr
           gated == limits.perMin > 0 /\ a \notin BypassIPs
           new == gated /\ opened[a] = -1
<1> USE LimitsAssumption
<1>1. /\ LimitsTypeOK /\ call[c].pc = "idle" /\ a \in Addrs /\ tick \in Nat
      /\ UNCHANGED <<limits, tick, sem, admits>>
    BY DEF LimitsInv, LimitsTypeOK, StartIngest
<1>2. PICK pc \in {"allow", "slot"} :
          /\ call' = [call EXCEPT ![c].pc = pc, ![c].now = tick]
          /\ pc = "allow" => gated
    BY DEF StartIngest
<1>3. PICK z : z = [call[c] EXCEPT !.pc = pc, !.now = tick]
    OBVIOUS
<1>4. z \in [pc : {"idle", "allow", "slot", "serve"}, addr : Addrs, now : Nat]
    BY <1>1, <1>3 DEF LimitsTypeOK
<1>5. z.pc = pc /\ z.now = tick /\ z.addr = a
    BY <1>1, <1>3 DEF LimitsTypeOK
<1>6. call' = [call EXCEPT ![c] = z]
    BY <1>2, <1>3
<1>7. limits.perMin * Minute \in Nat
    BY NonNegative DEF LimitsInv, LimitsTypeOK
<1>8. PICK b : b = [tokens |-> limits.perMin * Minute, lastFill |-> tick]
    OBVIOUS
<1>9. b \in [tokens : Int, lastFill : Int] /\ b.tokens = limits.perMin * Minute /\ b.lastFill = tick
    BY <1>1, <1>7, <1>8
<1>10. bucket' = (IF new THEN [bucket EXCEPT ![a] = b] ELSE bucket)
       /\ opened' = (IF new THEN [opened EXCEPT ![a] = tick] ELSE opened)
    BY <1>8 DEF StartIngest
<1>11. opened' \in [Addrs -> Nat \cup {-1}] /\ bucket' \in [Addrs -> [tokens : Int, lastFill : Int]]
    BY <1>1, <1>9, <1>10 DEF LimitsTypeOK
<1>12. LimitsTypeOK'
    BY <1>1, <1>4, <1>6, <1>11 DEF LimitsTypeOK
<1>13. \A d \in Addrs : opened[d] # -1 => opened'[d] # -1
    BY <1>1, <1>10 DEF LimitsTypeOK
<1>14. gated => opened'[a] # -1
    BY <1>1, <1>10 DEF LimitsTypeOK
<1>15. ClocksRead'
    <2> SUFFICES ASSUME NEW d \in IngestCalls
                 PROVE  /\ call'[d].now <= tick
                        /\ call'[d].pc = "allow" => opened'[call'[d].addr] # -1
        BY <1>1 DEF ClocksRead
    <2>1. CASE d = c
        BY <1>1, <1>2, <1>5, <1>6, <1>14, <2>1 DEF LimitsTypeOK
    <2>2. CASE d # c
        <3>1. call'[d] = call[d] /\ call[d].addr \in Addrs
            BY <1>1, <1>6, <2>2 DEF LimitsTypeOK
        <3> QED
            BY <3>1, <1>13 DEF LimitsInv, ClocksRead
    <2> QED
        BY <2>1, <2>2
<1>16. UnopenedIsUnused'
    BY <1>1, <1>13 DEF LimitsInv, UnopenedIsUnused
<1>17. BucketsBalance'
    <2> SUFFICES ASSUME NEW d \in Addrs, opened'[d] # -1
                 PROVE  Refilled(d)' /\ Covered(d)'
        BY DEF BucketsBalance
    <2>1. CASE new /\ d = a
        <3>1. bucket'[d] = b /\ opened'[d] = tick /\ admits[d] = 0
            BY <1>1, <1>10, <2>1 DEF LimitsTypeOK, LimitsInv, UnopenedIsUnused
        <3>2. limits.perMin \in Nat
            BY <1>1 DEF LimitsTypeOK
        <3>3. 0 * Minute + limits.perMin * Minute <= limits.perMin * (Minute + (tick - tick))
            BY <1>1, <3>2
        <3>4. 0 <= limits.perMin * Minute + (tick - tick) * limits.perMin
            BY <1>1, <1>7, <3>2
        <3> QED
            BY <1>1, <1>9, <3>1, <3>3, <3>4 DEF Refilled, Covered
    <2>2. CASE ~(new /\ d = a)
        <3>1. bucket'[d] = bucket[d] /\ opened'[d] = opened[d]
            BY <1>1, <1>10, <2>2 DEF LimitsTypeOK
        <3>2. Refilled(d) /\ Covered(d)
            BY <3>1 DEF LimitsInv, BucketsBalance
        <3> QED
            BY <1>1, <3>1, <3>2 DEF Refilled, Covered
    <2> QED
        BY <2>1, <2>2
<1>18. SlotsCounted'
    <2>1. Served' = Served
        BY <1>1, <1>5, <1>6 DEF LimitsTypeOK, Served
    <2> QED
        BY <1>1, <2>1 DEF LimitsInv, SlotsCounted
<1> QED
    BY <1>12, <1>15, <1>16, <1>17, <1>18 DEF LimitsInv

\* bucket.allow, by a caller whose time may be older than lastFill: the balance moves
\* back with the time, and a token is taken only when there is a whole one.
LEMMA LimitsAllowKeeps ==
    ASSUME LimitsInv, NEW c \in IngestCalls, AllowIngest(c)
    PROVE  LimitsInv'
<1> USE LimitsAssumption
<1>a. PICK a : a = call[c].addr
    OBVIOUS
<1>b. PICK now : now = call[c].now
    OBVIOUS
<1>c. PICK old : old = bucket[a]
    OBVIOUS
<1> DEFINE p == limits.perMin
           t == old.tokens + (now - old.lastFill) * p
           full == p * Minute
<1>1. /\ LimitsTypeOK /\ call[c].pc = "allow" /\ a \in Addrs /\ tick \in Nat
      /\ UNCHANGED <<limits, tick, sem, opened>>
    BY <1>a DEF LimitsInv, LimitsTypeOK, AllowIngest
<1>2. /\ p \in Nat /\ now \in Nat /\ old.tokens \in Int /\ old.lastFill \in Int /\ admits[a] \in Nat
      /\ Minute \in Nat /\ admits \in [Addrs -> Nat] /\ bucket \in [Addrs -> [tokens : Int, lastFill : Int]]
    BY <1>1, <1>b, <1>c DEF LimitsTypeOK
<1>3. /\ now <= tick /\ opened[a] # -1 /\ opened[a] \in Nat
    BY <1>1, <1>a, <1>b DEF LimitsInv, ClocksRead, LimitsTypeOK
<1>4. Refilled(a) /\ Covered(a)
    BY <1>1, <1>3 DEF LimitsInv, BucketsBalance
<1>5. full \in Nat
    BY <1>2, NonNegative
<1>6. t \in Int
    BY <1>2
<1>7. PICK n \in Nat : n = admits[a] * Minute
    BY <1>2, NonNegative
<1>8. PICK u \in Int : u = IF t > full THEN full ELSE t
    BY <1>5, <1>6
<1>9. u <= t /\ (u = t \/ u >= 0)
    BY <1>5, <1>6, <1>8
<1>10. PICK cap \in Int : cap = p * (Minute + (now - opened[a]))
    BY <1>2, <1>3
<1>11. n + t <= cap
    <2>1. n + old.tokens <= p * (Minute + (old.lastFill - opened[a]))
        BY <1>4, <1>7, <1>c DEF Refilled
    <2>2. n + (old.tokens + (now - old.lastFill) * p) <= p * (Minute + (now - opened[a]))
        BY <1>2, <1>3, <2>1, RefillEarns
    <2> QED
        BY <2>2, <1>10
<1>12. PICK gone \in Nat : gone = (tick - now) * p
    <2>1. tick - now \in Nat
        BY <1>1, <1>2, <1>3
    <2> QED
        BY <1>2, <2>1, NonNegative
<1>13. 0 <= t + gone
    <2>1. 0 <= old.tokens + (tick - old.lastFill) * p
        BY <1>4, <1>c DEF Covered
    <2>2. 0 <= (old.tokens + (now - old.lastFill) * p) + (tick - now) * p
        BY <1>1, <1>2, <2>1, RefillCovers
    <2> QED
        BY <2>2, <1>12
<1>14. PICK r : r = Refill(bucket[a], now)
    OBVIOUS
<1>15. PICK v \in Int, k \in {0, 1}, pc \in {"slot", "idle"} :
          /\ bucket' = [bucket EXCEPT ![a] = [tokens |-> v, lastFill |-> now]]
          /\ admits' = [admits EXCEPT ![a] = admits[a] + k]
          /\ call' = [call EXCEPT ![c].pc = pc]
          /\ (k = 0 /\ v = u) \/ (k = 1 /\ v = u - Minute /\ u >= Minute)
    <2>1. r = [tokens |-> u, lastFill |-> now]
        BY <1>8, <1>14, <1>c DEF Refill
    <2>2. r.tokens = u /\ [r EXCEPT !.tokens = r.tokens - Minute] = [tokens |-> u - Minute, lastFill |-> now]
        BY <2>1
    <2>3. CASE u >= Minute
        <3>1. /\ bucket' = [bucket EXCEPT ![a] = [r EXCEPT !.tokens = r.tokens - Minute]]
              /\ admits' = [admits EXCEPT ![a] = admits[a] + 1]
              /\ call' = [call EXCEPT ![c].pc = "slot"]
            BY <1>a, <1>b, <1>14, <2>2, <2>3 DEF AllowIngest
        <3>2. u - Minute \in Int
            BY <1>2
        <3> QED
            BY <2>2, <2>3, <3>1, <3>2
    <2>4. CASE ~(u >= Minute)
        <3>1. bucket' = [bucket EXCEPT ![a] = r] /\ admits' = admits /\ call' = [call EXCEPT ![c].pc = "idle"]
            BY <1>a, <1>b, <1>14, <2>2, <2>4 DEF AllowIngest
        <3>2. admits' = [admits EXCEPT ![a] = admits[a] + 0]
            BY <3>1, <1>2
        <3> QED
            BY <2>1, <3>1, <3>2
    <2> QED
        BY <2>3, <2>4
<1>16. admits' \in [Addrs -> Nat] /\ admits'[a] = admits[a] + k
       /\ \A d \in Addrs \ {a} : admits'[d] = admits[d]
    BY <1>1, <1>2, <1>15
<1>17. PICK w : w = [tokens |-> v, lastFill |-> now]
    OBVIOUS
<1>18. w \in [tokens : Int, lastFill : Int] /\ w.tokens = v /\ w.lastFill = now
    BY <1>2, <1>17
<1>19. bucket' \in [Addrs -> [tokens : Int, lastFill : Int]] /\ bucket'[a] = w
       /\ \A d \in Addrs \ {a} : bucket'[d] = bucket[d]
    BY <1>1, <1>2, <1>15, <1>17, <1>18
<1>20. /\ call' \in [IngestCalls -> [pc : {"idle", "allow", "slot", "serve"}, addr : Addrs, now : Nat]]
       /\ call'[c].pc = pc /\ call'[c].addr = a /\ call'[c].now = now
       /\ \A d \in IngestCalls \ {c} : call'[d] = call[d]
    BY <1>1, <1>15, <1>a, <1>b, IngestCallMoves
<1>21. LimitsTypeOK'
    BY <1>1, <1>16, <1>19, <1>20 DEF LimitsTypeOK
<1>22. ClocksRead'
    BY <1>1, <1>3, <1>20 DEF LimitsInv, ClocksRead
<1>23. UnopenedIsUnused'
    BY <1>1, <1>3, <1>16 DEF LimitsInv, UnopenedIsUnused
<1>24. BucketsBalance'
    <2> SUFFICES ASSUME NEW d \in Addrs, opened[d] # -1
                 PROVE  Refilled(d)' /\ Covered(d)'
        BY <1>1 DEF BucketsBalance
    <2>1. CASE d = a
        <3>1. (admits[a] + k) * Minute = n + k * Minute
            BY <1>2, <1>7
        <3>2. n + k * Minute + v <= cap
            <4>1. CASE k = 0
                BY <4>1, <1>2, <1>9, <1>11, <1>6, <1>15
            <4>2. CASE k = 1
                BY <4>2, <1>2, <1>9, <1>11, <1>6, <1>15
            <4> QED
                BY <4>1, <4>2
        <3>3. 0 <= v + gone
            BY <1>2, <1>6, <1>9, <1>13, <1>15
        <3>4. Refilled(a)'
            BY <1>1, <1>10, <1>16, <1>18, <1>19, <3>1, <3>2 DEF Refilled
        <3>5. Covered(a)'
            BY <1>1, <1>12, <1>18, <1>19, <3>3 DEF Covered
        <3> QED
            BY <2>1, <3>4, <3>5
    <2>2. CASE d # a
        <3>1. Refilled(d) /\ Covered(d)
            BY DEF LimitsInv, BucketsBalance
        <3> QED
            BY <1>1, <1>16, <1>19, <2>2, <3>1 DEF Refilled, Covered
    <2> QED
        BY <2>1, <2>2
<1>25. SlotsCounted'
    <2>1. Served' = Served
        BY <1>1, <1>20 DEF Served
    <2> QED
        BY <1>1, <2>1 DEF LimitsInv, SlotsCounted
<1> QED
    BY <1>21, <1>22, <1>23, <1>24, <1>25 DEF LimitsInv

\* A step that moves one goroutine past its bucket leaves the buckets' part alone.
LEMMA BucketsRest ==
    ASSUME LimitsInv, NEW c \in IngestCalls, NEW pc \in {"idle", "serve"},
           call' = [call EXCEPT ![c].pc = pc], sem' \in Int,
           UNCHANGED <<limits, tick, bucket, admits, opened>>
    PROVE  /\ LimitsTypeOK' /\ ClocksRead' /\ UnopenedIsUnused' /\ BucketsBalance'
           /\ call'[c].pc = pc /\ \A d \in IngestCalls \ {c} : call'[d] = call[d]
<1>1. LimitsTypeOK
    BY DEF LimitsInv
<1>2. /\ call' \in [IngestCalls -> [pc : {"idle", "allow", "slot", "serve"}, addr : Addrs, now : Nat]]
      /\ call'[c].pc = pc /\ call'[c].addr = call[c].addr /\ call'[c].now = call[c].now
      /\ \A d \in IngestCalls \ {c} : call'[d] = call[d]
    BY <1>1, IngestCallMoves
<1>3. LimitsTypeOK'
    BY <1>1, <1>2 DEF LimitsTypeOK
<1>4. ClocksRead'
    BY <1>2 DEF LimitsInv, ClocksRead
<1>5. UnopenedIsUnused' /\ BucketsBalance'
    BY DEF LimitsInv, UnopenedIsUnused, BucketsBalance, Refilled, Covered
<1> QED
    BY <1>2, <1>3, <1>4, <1>5

\* The semaphore: a slot for a handler that starts, nothing for a refusal.
LEMMA LimitsTakeSlotKeeps ==
    ASSUME LimitsInv, NEW c \in IngestCalls, TakeSlot(c)
    PROVE  LimitsInv'
<1>1. /\ call[c].pc = "slot" /\ UNCHANGED <<limits, tick, bucket, admits, opened>>
      /\ sem \in Int /\ limits.maxConcurrent \in Nat
    BY DEF TakeSlot, LimitsInv, LimitsTypeOK
<1>2. c \notin Served
    BY <1>1 DEF Served
<1>3. CASE /\ limits.maxConcurrent = 0 \/ sem < limits.maxConcurrent
           /\ sem' = IF limits.maxConcurrent = 0 THEN sem ELSE sem + 1
           /\ call' = [call EXCEPT ![c].pc = "serve"]
    <2>1. sem' \in Int
        BY <1>1, <1>3
    <2>2. /\ LimitsTypeOK' /\ ClocksRead' /\ UnopenedIsUnused' /\ BucketsBalance'
          /\ call'[c].pc = "serve" /\ \A d \in IngestCalls \ {c} : call'[d] = call[d]
        BY <1>1, <1>3, <2>1, BucketsRest
    <2>3. Served' = Served \cup {c}
        BY <2>2 DEF Served
    <2>4. Cardinality(Served') = Cardinality(Served) + 1
        BY <1>2, <2>3, ServedFinite, FS_AddElement
    <2>5. SlotsCounted'
        BY <1>1, <1>3, <2>4, ServedFinite DEF LimitsInv, SlotsCounted
    <2> QED
        BY <2>2, <2>5 DEF LimitsInv
<1>4. CASE call' = [call EXCEPT ![c].pc = "idle"] /\ UNCHANGED sem
    <2>1. /\ LimitsTypeOK' /\ ClocksRead' /\ UnopenedIsUnused' /\ BucketsBalance'
          /\ call'[c].pc = "idle" /\ \A d \in IngestCalls \ {c} : call'[d] = call[d]
        BY <1>1, <1>4, BucketsRest
    <2>2. Served' = Served
        BY <1>2, <2>1 DEF Served
    <2>3. SlotsCounted'
        BY <1>1, <1>4, <2>2 DEF LimitsInv, SlotsCounted
    <2> QED
        BY <2>1, <2>3 DEF LimitsInv
<1> QED
    BY <1>3, <1>4 DEF TakeSlot

\* The deferred release gives back the slot of a handler that ran.
LEMMA LimitsFinishKeeps ==
    ASSUME LimitsInv, NEW c \in IngestCalls, FinishIngest(c)
    PROVE  LimitsInv'
<1>1. /\ call[c].pc = "serve" /\ UNCHANGED <<limits, tick, bucket, admits, opened>>
      /\ sem \in Int /\ limits.maxConcurrent \in Nat
      /\ sem' = (IF limits.maxConcurrent = 0 THEN sem ELSE sem - 1)
      /\ call' = [call EXCEPT ![c].pc = "idle"]
    BY DEF FinishIngest, LimitsInv, LimitsTypeOK
<1>2. sem' \in Int
    BY <1>1
<1>3. /\ LimitsTypeOK' /\ ClocksRead' /\ UnopenedIsUnused' /\ BucketsBalance'
      /\ call'[c].pc = "idle" /\ \A d \in IngestCalls \ {c} : call'[d] = call[d]
    BY <1>1, <1>2, BucketsRest
<1>4. c \in Served /\ Served' = Served \ {c}
    BY <1>1, <1>3 DEF Served
<1>5. Cardinality(Served') = Cardinality(Served) - 1
    BY <1>4, ServedFinite, FS_RemoveElement
<1>6. SlotsCounted'
    BY <1>1, <1>5, ServedFinite DEF LimitsInv, SlotsCounted
<1> QED
    BY <1>3, <1>6 DEF LimitsInv

(* However many callers, addresses and ticks, and however the callers of   *)
(* one address interleave between reading the clock and taking the lock,   *)
(* the bucket never lets pass more than its capacity and its earnings, and *)
(* the semaphore counts the handlers that run.                             *)
THEOREM AdmissionStaysBounded == LimitsSpec => []AdmissionBounded
<1>1. LimitsInit => LimitsInv
    BY LimitsStart
<1>2. LimitsInv /\ [LimitsNext]_limitsVars => LimitsInv'
    <2> SUFFICES ASSUME LimitsInv, [LimitsNext]_limitsVars PROVE LimitsInv'
        OBVIOUS
    <2>1. CASE TickLimits
        BY <2>1, LimitsTickKeeps
    <2>2. CASE \E c \in IngestCalls :
                  StartIngest(c) \/ AllowIngest(c) \/ TakeSlot(c) \/ FinishIngest(c)
        BY <2>2, LimitsStartIngestKeeps, LimitsAllowKeeps, LimitsTakeSlotKeeps, LimitsFinishKeeps
    <2>3. CASE UNCHANGED limitsVars
        BY <2>3 DEF limitsVars, LimitsInv, LimitsTypeOK, ClocksRead, UnopenedIsUnused,
                    BucketsBalance, Refilled, Covered, SlotsCounted, Served
    <2> QED
        BY <2>1, <2>2, <2>3 DEF LimitsNext
<1>3. LimitsInv => AdmissionBounded
    <2> SUFFICES ASSUME LimitsInv PROVE AdmissionBounded
        OBVIOUS
    <2>1. ASSUME NEW a \in Addrs, opened[a] # -1
          PROVE  admits[a] * Minute <= limits.perMin * (Minute + (tick - opened[a]))
        <3>1. Refilled(a) /\ Covered(a)
            BY <2>1 DEF LimitsInv, BucketsBalance
        <3>2. /\ limits.perMin \in Int /\ bucket[a].tokens \in Int /\ bucket[a].lastFill \in Int
              /\ admits[a] \in Int /\ opened[a] \in Int /\ tick \in Int /\ Minute \in Int
            BY LimitsAssumption DEF LimitsInv, LimitsTypeOK
        <3>3. PICK n \in Int : n = admits[a] * Minute
            BY <3>2
        <3>4. /\ n + bucket[a].tokens <= limits.perMin * (Minute + (bucket[a].lastFill - opened[a]))
              /\ 0 <= bucket[a].tokens + (tick - bucket[a].lastFill) * limits.perMin
            BY <3>1, <3>3 DEF Refilled, Covered
        <3>5. n <= limits.perMin * (Minute + (tick - opened[a]))
            BY <3>2, <3>4, BalanceBounds
        <3> QED
            BY <3>3, <3>5
    <2> QED
        BY <2>1 DEF LimitsInv, SlotsCounted, Served, AdmissionBounded
<1> QED
    BY <1>1, <1>2, <1>3, PTL DEF LimitsSpec

(***************************************************************************)
(* The per-user limiter (UserLimits)                                       *)
(***************************************************************************)
UserBucket == [tokens : Nat, lastFill : Nat, lastSeen : Nat]
UserCall == [pc : {"idle", "get", "consume", "stamp"}, count : 0..MaxRate, now : Nat, b : Nat]

UserTypeOK ==
    /\ rate \in 0..MaxRate /\ time \in Nat /\ passed \in Nat /\ lent \in Nat
    /\ heap \in Seq(UserBucket) /\ live \in 0..Len(heap)
    /\ sub \in [SubmitCalls -> UserCall]

\* No call outlasts MaxHold, and one past the map's lock holds a bucket.
CallsTimely ==
    \A c \in SubmitCalls : sub[c].pc # "idle" =>
        /\ sub[c].now <= time /\ time <= sub[c].now + MaxHold
        /\ sub[c].b <= Len(heap)
        /\ sub[c].pc \in {"consume", "stamp"} => sub[c].b >= 1

\* Callers that have consumed from the bucket in the map and not stamped it.
Unstamped == {c \in SubmitCalls : sub[c].pc = "stamp" /\ sub[c].b = live}

\* What was let pass and what the bucket in the map still holds was earned by lastFill.
BucketPaced ==
    live # 0 => /\ heap[live].lastFill <= time
                /\ (passed - lent) * Per + heap[live].tokens <= MaxRate * (Per + heap[live].lastFill)

\* What stamped callers took was earned soon after lastSeen: stamps may come out
\* of order, but by no more than the time one call may take.
SeenPaced ==
    live # 0 => (passed - lent - Cardinality(Unstamped)) * Per
                    <= MaxRate * (Per + heap[live].lastSeen + MaxHold)

\* Between two buckets a whole burst has been earned that nobody took.
GapPaced ==
    live = 0 => \/ passed <= lent
                \/ (passed - lent) * Per <= MaxRate * (time - MaxHold)

UserInv == UserTypeOK /\ CallsTimely /\ BucketPaced /\ SeenPaced /\ GapPaced

-----------------------------------------------------------------------------
\* A rate earns no less in more time.
LEMMA MoreEarnsMore ==
    ASSUME NEW p \in Nat, NEW x \in Int, NEW y \in Int, x <= y
    PROVE  p * x <= p * y /\ p * x \in Int /\ p * y \in Int
<1>1. PICK d \in Nat : y = x + d
    <2>1. y - x \in Nat /\ y = x + (y - x)
        OBVIOUS
    <2> QED
        BY <2>1
<1>2. p * y = p * x + p * d
    BY <1>1
<1>3. p * d \in Nat /\ p * x \in Int
    BY NonNegative
<1> QED
    BY <1>2, <1>3

\* A higher rate earns no less in the same time.
LEMMA FasterEarnsMore ==
    ASSUME NEW p \in Nat, NEW q \in Nat, NEW x \in Nat, p <= q
    PROVE  x * p <= x * q /\ x * p \in Nat /\ x * q \in Nat
BY MoreEarnsMore, NonNegative

\* No passes, no charge.
LEMMA NotPositive ==
    ASSUME NEW n \in Int, NEW p \in Nat, n <= 0
    PROVE  n * p <= 0
<1>1. 0 - n \in Nat
    OBVIOUS
<1>2. (0 - n) * p \in Nat
    BY <1>1, NonNegative
<1>3. n * p = 0 - (0 - n) * p
    OBVIOUS
<1> QED
    BY <1>2, <1>3

\* The callers before their stamp are finitely many.
LEMMA UnstampedFinite == IsFiniteSet(Unstamped) /\ Cardinality(Unstamped) \in Nat
<1>1. IsFiniteSet(Unstamped)
    BY UserLimitsAssumption, FS_Subset DEF Unstamped
<1> QED
    BY <1>1, FS_CardinalityType

\* A call's time earns: the bound at any earlier moment holds at any later one.
LEMMA UserBound ==
    ASSUME UserInv
    PROVE  (passed - lent) * Per <= MaxRate * (Per + time)
<1> USE UserLimitsAssumption
<1>1. passed - lent \in Int /\ time \in Nat /\ MaxRate \in Nat /\ Per \in Nat /\ MaxHold \in Nat
    BY DEF UserInv, UserTypeOK
<1>2. PICK n \in Int : n = (passed - lent) * Per
    BY <1>1
<1>3. CASE live # 0
    <2>1. PICK z : z = heap[live]
        OBVIOUS
    <2>2. z \in UserBucket
        BY <1>3, <2>1, ElementOfSeq, LenProperties DEF UserInv, UserTypeOK
    <2>3. z.lastFill \in Nat /\ z.tokens \in Nat
        BY <2>2 DEF UserBucket
    <2>4. z.lastFill <= time /\ n + z.tokens <= MaxRate * (Per + z.lastFill)
        BY <1>2, <1>3, <2>1 DEF UserInv, BucketPaced
    <2>5. Per + z.lastFill <= Per + time /\ Per + z.lastFill \in Int /\ Per + time \in Int
        BY <1>1, <2>3, <2>4
    <2>6. MaxRate * (Per + z.lastFill) <= MaxRate * (Per + time)
          /\ MaxRate * (Per + z.lastFill) \in Int /\ MaxRate * (Per + time) \in Int
        BY ONLY <1>1, <2>5, MoreEarnsMore
    <2>7. PICK x \in Int : x = MaxRate * (Per + z.lastFill)
        BY <2>6
    <2>8. PICK y \in Int : y = MaxRate * (Per + time)
        BY <2>6
    <2>9. n <= y
        BY ONLY <2>3, <2>4, <2>6, <2>7, <2>8, <1>2, n \in Int, x \in Int, y \in Int
    <2> QED
        BY <1>2, <2>8, <2>9
<1>4. CASE live = 0
    <2>1. PICK y \in Nat : y = MaxRate * (Per + time)
        BY <1>1, NonNegative
    <2>2. CASE passed <= lent
        <3>1. n <= 0
            BY <1>1, <1>2, <2>2, NotPositive DEF UserInv, UserTypeOK
        <3> QED
            BY <1>2, <2>1, <3>1
    <2>3. CASE n <= MaxRate * (time - MaxHold)
        <3>1. time - MaxHold \in Int /\ Per + time \in Int /\ time - MaxHold <= Per + time
            BY <1>1
        <3>2. MaxRate * (time - MaxHold) <= MaxRate * (Per + time)
              /\ MaxRate * (time - MaxHold) \in Int
            BY ONLY <1>1, <3>1, MoreEarnsMore
        <3>3. PICK x \in Int : x = MaxRate * (time - MaxHold)
            BY <3>2
        <3>4. n <= y
            BY ONLY <2>1, <2>3, <3>2, <3>3, n \in Int, x \in Int, y \in Nat
        <3> QED
            BY <1>2, <2>1, <3>4
    <2> QED
        BY <1>2, <1>4, <2>2, <2>3 DEF UserInv, GapPaced
<1> QED
    BY <1>3, <1>4

-----------------------------------------------------------------------------
\* Without buckets and calls the invariant holds.
LEMMA UserStarts == UserInit => UserInv
<1> SUFFICES ASSUME UserInit PROVE UserInv
    OBVIOUS
<1> USE UserLimitsAssumption
<1>1. heap \in Seq(UserBucket) /\ Len(heap) = 0
    BY DEF UserInit
<1>2. IdleSub \in UserCall
    BY DEF IdleSub, UserCall
<1>3. UserTypeOK
    BY <1>1, <1>2 DEF UserInit, UserTypeOK
<1>4. CallsTimely
    BY DEF UserInit, CallsTimely, IdleSub
<1>5. BucketPaced /\ SeenPaced /\ GapPaced
    BY DEF UserInit, BucketPaced, SeenPaced, GapPaced
<1> QED
    BY <1>3, <1>4, <1>5 DEF UserInv

\* Time passes only as far as no call outlasts MaxHold.
LEMMA UserTickKeeps ==
    ASSUME UserInv, TickUser
    PROVE  UserInv'
<1> USE UserLimitsAssumption
<1>1. time \in Nat /\ time' = time + 1 /\ UNCHANGED <<rate, heap, live, sub, passed, lent>>
    BY DEF TickUser, UserInv, UserTypeOK
<1>2. UserTypeOK'
    BY <1>1 DEF UserInv, UserTypeOK
<1>3. CallsTimely'
    BY <1>1 DEF UserInv, UserTypeOK, UserCall, CallsTimely, TickUser
<1>4. BucketPaced'
    <2> SUFFICES ASSUME live # 0 PROVE heap[live].lastFill <= time'
        BY <1>1 DEF UserInv, BucketPaced
    <2>1. heap[live] \in UserBucket
        BY ElementOfSeq, LenProperties DEF UserInv, UserTypeOK
    <2> QED
        BY <1>1, <2>1 DEF UserBucket, UserInv, BucketPaced
<1>5. SeenPaced'
    BY <1>1 DEF UserInv, SeenPaced, Unstamped
<1>6. GapPaced'
    <2>1. time - MaxHold \in Int /\ time' - MaxHold \in Int /\ time - MaxHold <= time' - MaxHold
        BY <1>1
    <2>2. PICK x \in Int : x = MaxRate * (time - MaxHold)
        BY <2>1
    <2>3. PICK y \in Int : y = MaxRate * (time' - MaxHold)
        BY <2>1
    <2>4. x <= y
        BY <2>1, <2>2, <2>3, MoreEarnsMore
    <2>5. PICK n \in Int : n = (passed - lent) * Per
        BY DEF UserInv, UserTypeOK
    <2>6. n <= x => n <= y
        BY ONLY <2>4, n \in Int, x \in Int, y \in Int
    <2> QED
        BY <1>1, <2>2, <2>3, <2>5, <2>6 DEF UserInv, GapPaced
<1> QED
    BY <1>2, <1>3, <1>4, <1>5, <1>6 DEF UserInv

\* What moving one call does to the calls' part of the invariant.
LEMMA CallMovesTo ==
    ASSUME UserTypeOK, NEW c \in SubmitCalls, NEW z \in UserCall, sub' = [sub EXCEPT ![c] = z]
    PROVE  /\ sub' \in [SubmitCalls -> UserCall] /\ sub'[c] = z
           /\ \A d \in SubmitCalls \ {c} : sub'[d] = sub[d]
BY DEF UserTypeOK

\* A reloaded rate is for later calls; the buckets stay as they are.
LEMMA UserReloadKeeps ==
    ASSUME UserInv, ReloadRate
    PROVE  UserInv'
<1>1. rate' \in 0..MaxRate /\ UNCHANGED <<time, heap, live, sub, passed, lent>>
    BY UserLimitsAssumption DEF ReloadRate
<1> QED
    BY <1>1 DEF UserInv, UserTypeOK, CallsTimely, BucketPaced, SeenPaced, Unstamped, GapPaced

\* checkUserRate notes the rate and the time, and touches no bucket.
LEMMA UserStartKeeps ==
    ASSUME UserInv, NEW c \in SubmitCalls, StartSubmit(c)
    PROVE  UserInv'
<1> USE UserLimitsAssumption
<1>1. /\ UserTypeOK /\ sub[c].pc = "idle" /\ UNCHANGED <<rate, time, heap, live, passed, lent>>
      /\ rate \in 0..MaxRate /\ time \in Nat /\ Len(heap) \in Nat
    BY LenProperties DEF StartSubmit, UserInv, UserTypeOK
<1>2. PICK z : z = [pc |-> "get", count |-> rate, now |-> time, b |-> 0]
    OBVIOUS
<1>3. z \in UserCall /\ z.pc = "get" /\ z.now = time /\ z.b = 0
    BY <1>1, <1>2 DEF UserCall
<1>4. /\ sub' \in [SubmitCalls -> UserCall] /\ sub'[c] = z
      /\ \A d \in SubmitCalls \ {c} : sub'[d] = sub[d]
    BY <1>1, <1>2, <1>3, CallMovesTo DEF StartSubmit
<1>5. UserTypeOK'
    BY <1>1, <1>4 DEF UserTypeOK
<1>6. CallsTimely'
    BY <1>1, <1>3, <1>4 DEF UserInv, CallsTimely
<1>7. Unstamped' = Unstamped
    BY <1>1, <1>3, <1>4 DEF Unstamped
<1> QED
    BY <1>1, <1>5, <1>6, <1>7 DEF UserInv, BucketPaced, SeenPaced, GapPaced

\* Under the map's lock: a new bucket is full, and the gap since the last one has earned that.
LEMMA UserGetKeeps ==
    ASSUME UserInv, NEW c \in SubmitCalls, GetBucket(c)
    PROVE  UserInv'
<1> USE UserLimitsAssumption
<1>1. /\ UserTypeOK /\ sub[c].pc = "get" /\ UNCHANGED <<rate, time, passed, lent>>
      /\ Len(heap) \in Nat /\ heap \in Seq(UserBucket) /\ sub[c] \in UserCall
      /\ live \in 0..Len(heap)
    BY LenProperties DEF GetBucket, UserInv, UserTypeOK
<1>2. sub[c].count \in 0..MaxRate /\ sub[c].now \in Nat /\ sub[c].now <= time
      /\ time <= sub[c].now + MaxHold /\ time \in Nat
    BY <1>1 DEF UserCall, UserInv, CallsTimely, UserTypeOK
<1>3. CASE live # 0
    <2>1. UNCHANGED <<heap, live>>
        BY <1>3 DEF GetBucket
    <2>2. PICK z : z = [sub[c] EXCEPT !.pc = "consume", !.b = live]
        OBVIOUS
    <2>3. z \in UserCall /\ z.pc = "consume" /\ z.now = sub[c].now /\ z.b = live
        <3>1. live \in Nat
            BY <1>1
        <3> QED
            BY <1>1, <2>2, <3>1 DEF UserCall
    <2>4. sub' = [sub EXCEPT ![c] = z]
        BY <2>1, <2>2 DEF GetBucket
    <2>5. /\ sub' \in [SubmitCalls -> UserCall] /\ sub'[c] = z
          /\ \A d \in SubmitCalls \ {c} : sub'[d] = sub[d]
        BY <1>1, <2>3, <2>4, CallMovesTo
    <2>6. UserTypeOK'
        BY <1>1, <2>1, <2>5 DEF UserTypeOK
    <2>7. CallsTimely'
        BY <1>1, <1>2, <1>3, <2>1, <2>3, <2>5 DEF UserInv, CallsTimely
    <2>8. Unstamped' = Unstamped
        BY <1>1, <2>1, <2>3, <2>5 DEF Unstamped
    <2> QED
        BY <1>1, <2>1, <2>6, <2>7, <2>8 DEF UserInv, BucketPaced, SeenPaced, GapPaced
<1>4. CASE live = 0
    <2>1. PICK full \in Nat : full = sub[c].count * Per
        BY <1>2, NonNegative
    <2>2. PICK e : e = [tokens |-> full, lastFill |-> sub[c].now, lastSeen |-> sub[c].now]
        OBVIOUS
    <2>3. e \in UserBucket /\ e.tokens = full /\ e.lastFill = sub[c].now /\ e.lastSeen = sub[c].now
        BY <1>2, <2>2 DEF UserBucket
    <2>4. heap' = Append(heap, e) /\ live' = Len(heap) + 1
        BY <1>4, <2>1, <2>2 DEF GetBucket
    <2>5. heap' \in Seq(UserBucket) /\ Len(heap') = Len(heap) + 1 /\ heap'[live'] = e
        BY <1>1, <2>3, <2>4, AppendProperties
    <2>6. PICK z : z = [sub[c] EXCEPT !.pc = "consume", !.b = live']
        OBVIOUS
    <2>7. z \in UserCall /\ z.pc = "consume" /\ z.now = sub[c].now /\ z.b = live'
        <3>1. live' \in Nat
            BY <1>1, <2>4
        <3> QED
            BY <1>1, <2>6, <3>1 DEF UserCall
    <2>8. sub' = [sub EXCEPT ![c] = z]
        BY <2>6 DEF GetBucket
    <2>9. /\ sub' \in [SubmitCalls -> UserCall] /\ sub'[c] = z
          /\ \A d \in SubmitCalls \ {c} : sub'[d] = sub[d]
        BY <1>1, <2>7, <2>8, CallMovesTo
    <2>10. UserTypeOK'
        BY <1>1, <2>4, <2>5, <2>9 DEF UserTypeOK
    <2>11. CallsTimely'
        <3> SUFFICES ASSUME NEW d \in SubmitCalls, sub'[d].pc # "idle"
                     PROVE  /\ sub'[d].now <= time /\ time <= sub'[d].now + MaxHold
                            /\ sub'[d].b <= Len(heap')
                            /\ sub'[d].pc \in {"consume", "stamp"} => sub'[d].b >= 1
            BY <1>1 DEF CallsTimely
        <3>1. CASE d = c
            BY <1>1, <1>2, <2>4, <2>5, <2>7, <2>9, <3>1
        <3>2. CASE d # c
            <4>1. sub'[d] = sub[d] /\ sub[d].b \in Nat
                BY <1>1, <2>9, <3>2 DEF UserTypeOK, UserCall
            <4> QED
                BY <1>1, <2>5, <4>1 DEF UserInv, CallsTimely
        <3> QED
            BY <3>1, <3>2
    <2>12. Unstamped' = {}
        <3>1. ASSUME NEW d \in SubmitCalls, sub'[d].pc = "stamp" PROVE sub'[d].b # live'
            <4>1. sub'[d] = sub[d] /\ sub[d].pc = "stamp" /\ sub[d].b \in Nat
                BY <1>1, <2>7, <2>9, <3>1 DEF UserTypeOK, UserCall
            <4>2. sub[d].b <= Len(heap)
                BY <4>1 DEF UserInv, CallsTimely
            <4> QED
                BY <1>1, <2>4, <4>1, <4>2
        <3> QED
            BY <3>1 DEF Unstamped
    <2>13. Cardinality(Unstamped') = 0
        BY <2>12, FS_EmptySet
    <2>14. PICK n \in Int : n = (passed - lent) * Per
        BY <1>1 DEF UserTypeOK
    <2>15. PICK x \in Nat : x = MaxRate * sub[c].now
        BY <1>2, NonNegative
    <2>16. n <= x
        <3>1. CASE passed <= lent
            BY <1>1, <2>14, <3>1, NotPositive DEF UserTypeOK
        <3>2. CASE n <= MaxRate * (time - MaxHold)
            <4>1. time - MaxHold \in Int /\ sub[c].now \in Int /\ time - MaxHold <= sub[c].now
                BY <1>2
            <4>2. PICK y \in Int : y = MaxRate * (time - MaxHold)
                BY <4>1
            <4>3. y <= x
                BY <2>15, <4>1, <4>2, MoreEarnsMore
            <4> QED
                BY <3>2, <4>2, <4>3
        <3> QED
            BY <1>4, <2>14, <3>1, <3>2 DEF UserInv, GapPaced
    <2>17. PICK top \in Nat : top = MaxRate * Per
        BY NonNegative
    <2>18. full <= top
        <3>1. sub[c].count * Per = Per * sub[c].count /\ MaxRate * Per = Per * MaxRate
            BY <1>2
        <3>2. sub[c].count \in Nat /\ sub[c].count <= MaxRate
            BY <1>2
        <3>3. Per * sub[c].count <= Per * MaxRate
            BY <3>2, MoreEarnsMore
        <3> QED
            BY <2>1, <2>17, <3>1, <3>3
    <2>19. MaxRate * (Per + sub[c].now) = top + x
        BY <1>2, <2>15, <2>17
    <2>20. BucketPaced'
        <3>1. n + full <= top + x
            BY <2>16, <2>18
        <3> QED
            BY <1>1, <1>2, <2>3, <2>5, <2>14, <2>19, <3>1 DEF BucketPaced
    <2>21. SeenPaced'
        <3>1. Per + sub[c].now \in Int /\ Per + sub[c].now + MaxHold \in Int
              /\ Per + sub[c].now <= Per + sub[c].now + MaxHold
            BY <1>2
        <3>2. PICK y \in Int : y = MaxRate * (Per + sub[c].now + MaxHold)
            BY <3>1
        <3>3. top + x <= y
            BY <2>19, <3>1, <3>2, MoreEarnsMore
        <3>4. n <= y
            BY <2>16, <3>3
        <3>5. (passed - lent - 0) * Per = n
            BY <1>1, <2>14 DEF UserTypeOK
        <3> QED
            BY <1>1, <2>3, <2>5, <2>13, <3>2, <3>4, <3>5 DEF SeenPaced
    <2>22. GapPaced'
        BY <1>1, <2>4 DEF GapPaced
    <2> QED
        BY <2>10, <2>11, <2>20, <2>21, <2>22 DEF UserInv
<1> QED
    BY <1>3, <1>4

\* consume's refill: what it adds was earned between the two times, at most at MaxRate.
LEMMA CreditPaces ==
    ASSUME NEW z \in UserBucket, NEW t \in Nat, NEW count \in 0..MaxRate, NEW n \in Int,
           NEW r, r = Credit(z, t, count)
    PROVE  /\ r \in UserBucket /\ r.lastSeen = z.lastSeen
           /\ r.lastFill = t \/ r.lastFill = z.lastFill
           /\ n + z.tokens <= MaxRate * (Per + z.lastFill)
                 => n + r.tokens <= MaxRate * (Per + r.lastFill)
<1> USE UserLimitsAssumption
<1>1. z.tokens \in Nat /\ z.lastFill \in Nat /\ count \in Nat /\ count <= MaxRate /\ Per \in Nat
    BY DEF UserBucket
<1>2. CASE ~(t > z.lastFill)
    BY <1>2 DEF Credit
<1>3. CASE t > z.lastFill
    <2>1. PICK d \in Nat : d = t - z.lastFill
        BY <1>1, <1>3
    <2>2. PICK gain \in Nat : gain = d * count
        BY <1>1, <2>1, NonNegative
    <2>3. PICK most \in Nat : most = d * MaxRate
        BY <2>1, NonNegative
    <2>4. gain <= most
        BY <1>1, <2>1, <2>2, <2>3, FasterEarnsMore
    <2>5. PICK full \in Nat : full = count * Per
        BY <1>1, NonNegative
    <2>6. PICK tok \in Nat : tok = (IF z.tokens + gain > full THEN full ELSE z.tokens + gain)
                             /\ tok <= z.tokens + gain
        BY <1>1
    <2>7. z.tokens + (t - z.lastFill) * count = z.tokens + gain
        BY <2>1, <2>2
    <2>8. r = [z EXCEPT !.tokens = tok, !.lastFill = t]
        BY <1>3, <2>5, <2>6, <2>7 DEF Credit
    <2>9. r \in UserBucket /\ r.lastSeen = z.lastSeen /\ r.lastFill = t /\ r.tokens = tok
        BY <2>8 DEF UserBucket
    <2>10. PICK x \in Int : x = MaxRate * (Per + z.lastFill)
        BY <1>1
    <2>11. MaxRate * (Per + t) = x + most
        BY <1>1, <2>1, <2>3, <2>10
    <2>12. n + z.tokens <= x => n + tok <= x + most
        BY <1>1, <2>4, <2>6
    <2> QED
        BY <2>9, <2>10, <2>11, <2>12
<1> QED
    BY <1>2, <1>3

\* consume, also by a caller whose bucket has been evicted meanwhile.
LEMMA UserConsumeKeeps ==
    ASSUME UserInv, NEW c \in SubmitCalls, Consume(c)
    PROVE  UserInv'
<1> USE UserLimitsAssumption
<1>1. /\ UserTypeOK /\ sub[c].pc = "consume" /\ UNCHANGED <<rate, time, live, lent>>
      /\ Len(heap) \in Nat /\ heap \in Seq(UserBucket) /\ sub[c] \in UserCall
      /\ live \in 0..Len(heap) /\ time \in Nat /\ passed \in Nat /\ lent \in Nat
    BY LenProperties DEF Consume, UserInv, UserTypeOK
<1>2. PICK b : b = sub[c].b
    OBVIOUS
<1>3. PICK t : t = sub[c].now
    OBVIOUS
<1>4. PICK count : count = sub[c].count
    OBVIOUS
<1>5. b \in 1..Len(heap) /\ t \in Nat /\ count \in 0..MaxRate /\ t <= time
    BY <1>1, <1>2, <1>3, <1>4 DEF UserCall, UserInv, CallsTimely
<1>6. PICK z : z = heap[b]
    OBVIOUS
<1>7. z \in UserBucket
    BY <1>1, <1>5, <1>6, ElementOfSeq
<1>8. PICK r : r = Credit(z, t, count)
    OBVIOUS
<1>9. PICK n \in Int : n = (passed - lent) * Per
    BY <1>1
<1>10. /\ r \in UserBucket /\ r.lastSeen = z.lastSeen
       /\ r.lastFill = t \/ r.lastFill = z.lastFill
       /\ n + z.tokens <= MaxRate * (Per + z.lastFill)
              => n + r.tokens <= MaxRate * (Per + r.lastFill)
    BY ONLY <1>5, <1>7, <1>8, n \in Int, CreditPaces
<1>11. r.tokens \in Nat /\ r.lastFill \in Nat
    BY <1>10 DEF UserBucket
<1>12. PICK w \in UserBucket, k \in {0, 1} :
           /\ heap' = [heap EXCEPT ![b] = w]
           /\ w.tokens + k * Per = r.tokens /\ w.lastFill = r.lastFill /\ w.lastSeen = r.lastSeen
           /\ passed' = IF b = live THEN passed + k ELSE passed
    <2>1. CASE r.tokens >= Per
        <3>1. PICK left \in Nat : left = r.tokens - Per
            BY <1>11, <2>1
        <3>2. PICK w : w = [r EXCEPT !.tokens = left]
            OBVIOUS
        <3>3. w \in UserBucket /\ w.tokens = left /\ w.lastFill = r.lastFill /\ w.lastSeen = r.lastSeen
            BY <1>10, <3>2 DEF UserBucket
        <3>4. heap' = [heap EXCEPT ![b] = w]
            BY <1>2, <1>3, <1>4, <1>6, <1>8, <2>1, <3>1, <3>2 DEF Consume
        <3>5. passed' = IF b = live THEN passed + 1 ELSE passed
            BY <1>2, <1>3, <1>4, <1>6, <1>8, <2>1 DEF Consume
        <3>6. w.tokens + 1 * Per = r.tokens
            BY <1>11, <3>1, <3>3
        <3> QED
            BY <3>3, <3>4, <3>5, <3>6
    <2>2. CASE ~(r.tokens >= Per)
        <3>1. heap' = [heap EXCEPT ![b] = r] /\ passed' = passed
            BY <1>2, <1>3, <1>4, <1>6, <1>8, <2>2 DEF Consume
        <3>2. r.tokens + 0 * Per = r.tokens /\ passed + 0 = passed
            BY <1>1, <1>11
        <3> QED
            BY <1>10, <3>1, <3>2
    <2> QED
        BY <2>1, <2>2
<1>13. w.tokens \in Nat /\ k \in Nat
    BY DEF UserBucket
<1>14. /\ heap' \in Seq(UserBucket) /\ Len(heap') = Len(heap)
       /\ heap'[b] = w /\ \A j \in 1..Len(heap) : j # b => heap'[j] = heap[j]
    BY <1>1, <1>5, <1>12, ExceptSeq
<1>15. PICK s : s = [sub[c] EXCEPT !.pc = "stamp"]
    OBVIOUS
<1>16. s \in UserCall /\ s.pc = "stamp" /\ s.b = b /\ s.now = t
    BY <1>1, <1>2, <1>3, <1>15 DEF UserCall
<1>17. /\ sub' \in [SubmitCalls -> UserCall] /\ sub'[c] = s
       /\ \A d \in SubmitCalls \ {c} : sub'[d] = sub[d]
    <2>1. sub' = [sub EXCEPT ![c] = s]
        BY <1>15 DEF Consume
    <2> QED
        BY <1>1, <1>16, <2>1, CallMovesTo
<1>18. passed' \in Nat
    BY <1>1, <1>12, <1>13
<1>19. UserTypeOK'
    BY <1>1, <1>14, <1>17, <1>18 DEF UserTypeOK
<1>20. CallsTimely'
    <2>1. time <= t + MaxHold
        BY <1>1, <1>3 DEF UserInv, CallsTimely
    <2> QED
        BY <1>1, <1>5, <1>14, <1>16, <1>17, <2>1 DEF UserInv, CallsTimely
<1>21. CASE b = live
    <2>1. Unstamped' = Unstamped \cup {c} /\ c \notin Unstamped
        BY <1>1, <1>16, <1>17, <1>21 DEF Unstamped
    <2>2. PICK u \in Nat : u = Cardinality(Unstamped)
        BY UnstampedFinite
    <2>3. Cardinality(Unstamped') = u + 1
        BY <2>1, <2>2, UnstampedFinite, FS_AddElement
    <2>4. live # 0 /\ heap'[live] = w /\ heap[live] = z
        BY <1>5, <1>6, <1>14, <1>21
    <2>5. z.lastFill <= time /\ n + z.tokens <= MaxRate * (Per + z.lastFill)
        BY <1>9, <2>4 DEF UserInv, BucketPaced
    <2>6. (passed' - lent) * Per + w.tokens = n + r.tokens
        <3>1. passed' = passed + k
            BY <1>12, <1>21
        <3>2. ((passed + k) - lent) * Per = n + k * Per
            BY <1>1, <1>9, <1>13
        <3>3. k * Per \in Int
            BY <1>13
        <3> QED
            BY <1>11, <1>12, <1>13, <3>1, <3>2, <3>3
    <2>7. BucketPaced'
        BY <1>1, <1>5, <1>10, <1>12, <2>4, <2>5, <2>6 DEF BucketPaced
    <2>8. (passed - lent - u) * Per <= MaxRate * (Per + z.lastSeen + MaxHold)
        BY <2>2, <2>4 DEF UserInv, SeenPaced
    <2>9. (passed' - lent - (u + 1)) * Per <= (passed - lent - u) * Per
        <3>1. PICK x \in Int : x = passed' - lent - (u + 1)
            BY <1>1, <1>18, <2>2
        <3>2. PICK y \in Int : y = passed - lent - u
            BY <1>1, <2>2
        <3>3. x <= y
            BY <1>1, <1>12, <1>13, <1>18, <1>21, <3>1, <3>2
        <3>4. Per * x <= Per * y
            BY <3>3, MoreEarnsMore
        <3>5. Per * x = x * Per /\ Per * y = y * Per
            OBVIOUS
        <3> QED
            BY <3>1, <3>2, <3>4, <3>5
    <2>10. SeenPaced'
        <3>1. PICK x \in Int : x = (passed' - lent - (u + 1)) * Per
            BY <1>1, <1>18, <2>2
        <3>2. PICK y \in Int : y = (passed - lent - u) * Per
            BY <1>1, <2>2
        <3>3. PICK m \in Int : m = MaxRate * (Per + z.lastSeen + MaxHold)
            BY <1>7 DEF UserBucket
        <3>4. x <= m
            BY <2>8, <2>9, <3>1, <3>2, <3>3
        <3> QED
            BY <1>1, <1>10, <1>12, <2>3, <2>4, <3>1, <3>3, <3>4 DEF SeenPaced
    <2> QED
        BY <1>1, <1>19, <1>20, <2>4, <2>7, <2>10 DEF UserInv, GapPaced
<1>22. CASE b # live
    <2>1. passed' = passed /\ (live # 0 => heap'[live] = heap[live])
        BY <1>1, <1>12, <1>14, <1>22
    <2>2. Unstamped' = Unstamped
        BY <1>1, <1>16, <1>17, <1>22 DEF Unstamped
    <2> QED
        BY <1>1, <1>19, <1>20, <2>1, <2>2 DEF UserInv, BucketPaced, SeenPaced, GapPaced
<1> QED
    BY <1>21, <1>22

\* The late stamp: its time is at most MaxHold old, so what was let pass by now is
\* within what MaxHold after it had earned.
LEMMA UserStampKeeps ==
    ASSUME UserInv, NEW c \in SubmitCalls, StampSeen(c)
    PROVE  UserInv'
<1> USE UserLimitsAssumption
<1>1. /\ UserTypeOK /\ sub[c].pc = "stamp" /\ UNCHANGED <<rate, time, live, passed, lent>>
      /\ Len(heap) \in Nat /\ heap \in Seq(UserBucket) /\ sub[c] \in UserCall
      /\ live \in 0..Len(heap) /\ time \in Nat /\ passed \in Nat /\ lent \in Nat
    BY LenProperties DEF StampSeen, UserInv, UserTypeOK
<1>2. PICK b : b = sub[c].b
    OBVIOUS
<1>3. PICK t : t = sub[c].now
    OBVIOUS
<1>4. b \in 1..Len(heap) /\ t \in Nat /\ time <= t + MaxHold
    BY <1>1, <1>2, <1>3 DEF UserCall, UserInv, CallsTimely
<1>5. PICK z : z = heap[b]
    OBVIOUS
<1>6. z \in UserBucket
    BY <1>1, <1>4, <1>5, ElementOfSeq
<1>7. PICK w : w = [z EXCEPT !.lastSeen = t]
    OBVIOUS
<1>8. w \in UserBucket /\ w.lastSeen = t /\ w.lastFill = z.lastFill /\ w.tokens = z.tokens
    BY <1>4, <1>6, <1>7 DEF UserBucket
<1>9. heap' = [heap EXCEPT ![b] = w]
    BY <1>2, <1>3, <1>5, <1>7 DEF StampSeen
<1>10. /\ heap' \in Seq(UserBucket) /\ Len(heap') = Len(heap)
       /\ heap'[b] = w /\ \A j \in 1..Len(heap) : j # b => heap'[j] = heap[j]
    BY <1>1, <1>4, <1>8, <1>9, ExceptSeq
<1>11. PICK s : s = IdleSub
    OBVIOUS
<1>12. s \in UserCall /\ s.pc = "idle"
    BY <1>11 DEF IdleSub, UserCall
<1>13. /\ sub' \in [SubmitCalls -> UserCall] /\ sub'[c] = s
       /\ \A d \in SubmitCalls \ {c} : sub'[d] = sub[d]
    <2>1. sub' = [sub EXCEPT ![c] = s]
        BY <1>11 DEF StampSeen
    <2> QED
        BY <1>1, <1>12, <2>1, CallMovesTo
<1>14. UserTypeOK'
    BY <1>1, <1>10, <1>13 DEF UserTypeOK
<1>15. CallsTimely'
    BY <1>1, <1>10, <1>12, <1>13 DEF UserInv, CallsTimely
<1>16. BucketPaced'
    <2>1. CASE b = live
        BY <1>1, <1>5, <1>8, <1>10, <2>1 DEF UserInv, BucketPaced
    <2>2. CASE b # live
        BY <1>1, <1>10, <2>2 DEF UserInv, BucketPaced
    <2> QED
        BY <2>1, <2>2
<1>17. SeenPaced'
    <2>1. CASE b = live
        <3>1. PICK u \in Nat : u = Cardinality(Unstamped')
            <4>1. IsFiniteSet(Unstamped')
                BY UserLimitsAssumption, FS_Subset DEF Unstamped
            <4> QED
                BY <4>1, FS_CardinalityType
        <3>2. PICK x \in Int : x = (passed - lent - u) * Per
            BY <1>1, <3>1
        <3>3. PICK y \in Int : y = (passed - lent) * Per
            BY <1>1
        <3>4. x <= y
            <4>1. PICK p \in Int : p = passed - lent - u
                BY <1>1, <3>1
            <4>2. PICK q \in Int : q = passed - lent
                BY <1>1
            <4>3. Per * p <= Per * q
                BY <1>1, <3>1, <4>1, <4>2, MoreEarnsMore
            <4>4. Per * p = p * Per /\ Per * q = q * Per
                OBVIOUS
            <4> QED
                BY <3>2, <3>3, <4>1, <4>2, <4>3, <4>4
        <3>5. PICK m \in Int : m = MaxRate * (Per + time)
            BY <1>1
        <3>6. PICK h \in Int : h = MaxRate * (Per + t + MaxHold)
            BY <1>4
        <3>7. m <= h
            <4>1. Per + time \in Int /\ Per + t + MaxHold \in Int /\ Per + time <= Per + t + MaxHold
                BY <1>1, <1>4
            <4> QED
                BY <3>5, <3>6, <4>1, MoreEarnsMore
        <3>8. y <= m
            BY <3>3, <3>5, UserBound
        <3>9. x <= h
            BY <3>4, <3>7, <3>8
        <3> QED
            BY <1>1, <1>8, <1>10, <2>1, <3>1, <3>2, <3>6, <3>9 DEF SeenPaced
    <2>2. CASE b # live
        <3>1. Unstamped' = Unstamped
            BY <1>1, <1>2, <1>12, <1>13, <2>2 DEF Unstamped
        <3> QED
            BY <1>1, <1>10, <2>2, <3>1 DEF UserInv, SeenPaced
    <2> QED
        BY <2>1, <2>2
<1>18. GapPaced'
    BY <1>1 DEF UserInv, GapPaced
<1> QED
    BY <1>14, <1>15, <1>16, <1>17, <1>18 DEF UserInv

\* StartGC evicts: what stamped callers took was earned a burst before now.
LEMMA UserGCKeeps ==
    ASSUME UserInv, GCStaleBuckets
    PROVE  UserInv'
<1> USE UserLimitsAssumption
<1>1. /\ UserTypeOK /\ live # 0 /\ live' = 0 /\ UNCHANGED <<rate, time, heap, sub, passed>>
      /\ Len(heap) \in Nat /\ time \in Nat /\ passed \in Nat /\ lent \in Nat
      /\ heap[live].lastSeen < time - MaxAge
    BY LenProperties DEF GCStaleBuckets, UserInv, UserTypeOK
<1>2. PICK u \in Nat : u = Cardinality(Unstamped)
    BY UnstampedFinite
<1>3. lent' = lent + u
    BY <1>2 DEF GCStaleBuckets, Unstamped
<1>4. heap[live] \in UserBucket
    BY <1>1, ElementOfSeq DEF UserTypeOK
<1>5. PICK seen \in Nat : seen = heap[live].lastSeen
    BY <1>4 DEF UserBucket
<1>6. (passed - lent - u) * Per <= MaxRate * (Per + seen + MaxHold)
    BY <1>1, <1>2, <1>5 DEF UserInv, SeenPaced
<1>7. Per + seen + MaxHold \in Int /\ time - MaxHold \in Int
      /\ Per + seen + MaxHold <= time - MaxHold
    BY <1>1, <1>5
<1>8. GapPaced'
    <2>1. PICK x \in Int : x = MaxRate * (Per + seen + MaxHold)
        BY <1>7
    <2>2. PICK y \in Int : y = MaxRate * (time - MaxHold)
        BY <1>7
    <2>3. x <= y
        BY <1>7, <2>1, <2>2, MoreEarnsMore
    <2>4. PICK n \in Int : n = (passed - lent - u) * Per
        BY <1>1
    <2>5. n <= y
        BY <1>6, <2>1, <2>3, <2>4
    <2>6. (passed - (lent + u)) * Per = n
        BY <1>1, <2>4
    <2> QED
        BY <1>1, <1>3, <2>2, <2>5, <2>6 DEF GapPaced
<1>9. UserTypeOK' /\ CallsTimely' /\ BucketPaced' /\ SeenPaced'
    BY <1>1, <1>3 DEF UserInv, UserTypeOK, CallsTimely, BucketPaced, SeenPaced
<1> QED
    BY <1>8, <1>9 DEF UserInv

(* For any rates, units and numbers of concurrent calls, as long as the    *)
(* collector waits a unit and two calls: evicting idle buckets and         *)
(* changing the rate between calls never give a user more than the burst   *)
(* and the earnings of the largest rate, but for the counted late stamps.  *)
THEOREM UserRateStaysBounded == UserSpec => []UserRateBounded
<1>1. UserInit => UserInv
    BY UserStarts
<1>2. UserInv /\ [UserNext]_userVars => UserInv'
    <2> SUFFICES ASSUME UserInv, [UserNext]_userVars PROVE UserInv'
        OBVIOUS
    <2>1. CASE TickUser
        BY <2>1, UserTickKeeps
    <2>2. CASE ReloadRate
        BY <2>2, UserReloadKeeps
    <2>3. CASE GCStaleBuckets
        BY <2>3, UserGCKeeps
    <2>4. CASE \E c \in SubmitCalls : StartSubmit(c) \/ GetBucket(c) \/ Consume(c) \/ StampSeen(c)
        BY <2>4, UserStartKeeps, UserGetKeeps, UserConsumeKeeps, UserStampKeeps
    <2>5. CASE UNCHANGED userVars
        BY <2>5 DEF userVars, UserInv, UserTypeOK, CallsTimely, BucketPaced, SeenPaced, Unstamped,
                    GapPaced
    <2> QED
        BY <2>1, <2>2, <2>3, <2>4, <2>5 DEF UserNext
<1>3. UserInv => UserRateBounded
    BY UserBound DEF UserRateBounded
<1> QED
    BY <1>1, <1>2, <1>3, PTL DEF UserSpec

(***************************************************************************)
(* The audit webhook and retention (AuditTrail)                            *)
(***************************************************************************)
AuditRow == [ev : Nat, id : Nat, day : Nat]
HookPcs == {"down", "off", "new", "tick", "sweep"}

AuditTypeOK ==
    /\ auditRows \subseteq AuditRow /\ IsFiniteSet(auditRows)
    /\ autoinc \in Nat /\ recorded \in Nat /\ today \in Nat
    /\ hook.pc \in HookPcs /\ hook.watermark \in Nat /\ hook.batch \in Seq(AuditRow)
    /\ posts \in Seq(AuditRow)

\* AUTOINCREMENT: no id is given twice, and the counter is past every id and the watermark.
IdsFresh ==
    /\ \A r \in auditRows : r.id <= autoinc
    /\ \A q, r \in auditRows : q.id = r.id => q = r
    /\ hook.watermark <= autoinc

\* The daemon starts with a clean history.
NewIsClean == hook.pc = "new" => posts = <<>> /\ since = {} /\ hook.batch = <<>>

Running == hook.pc \in {"tick", "sweep"}

\* What is left of the batch lies in order above the watermark, and between the
\* watermark and any of it no row of the table is missing.
BatchSound ==
    Running =>
        /\ hook.pc = "tick" => hook.batch = <<>>
        /\ hook.pc = "sweep" => hook.batch # <<>>
        /\ \A i, j \in 1..Len(hook.batch) : i < j => hook.batch[i].id < hook.batch[j].id
        /\ \A i \in 1..Len(hook.batch) :
              hook.watermark < hook.batch[i].id /\ hook.batch[i].id <= autoinc
        /\ \A i \in 1..Len(hook.batch), r \in auditRows :
              hook.watermark < r.id /\ r.id <= hook.batch[i].id
                  => \E j \in 1..Len(hook.batch) : hook.batch[j] = r

\* Everything posted is at or below the watermark, in order.
PostsBehind ==
    Running =>
        /\ \A i, j \in 1..Len(posts) : i < j => posts[i].id < posts[j].id
        /\ \A i \in 1..Len(posts) : posts[i].id <= hook.watermark

\* An event recorded since the daemon was built is ahead, posted, in hand, or was pruned.
Accounted(e) ==
    \/ \E r \in auditRows : r.ev = e /\ r.id > hook.watermark
    \/ \E i \in 1..Len(posts) : posts[i].ev = e
    \/ \E i \in 1..Len(hook.batch) : hook.batch[i].ev = e
    \/ e \in unseen

NoneSkipped == Running => \A e \in since : Accounted(e)

AuditInv ==
    AuditTypeOK /\ IdsFresh /\ NewIsClean /\ BatchSound /\ PostsBehind /\ NoneSkipped

\* With no daemon and no rows the invariant holds.
LEMMA AuditStarts == AuditInit => AuditInv
<1> SUFFICES ASSUME AuditInit PROVE AuditInv
    OBVIOUS
<1>1. hook.pc = "down" /\ hook.watermark = 0 /\ hook.batch = <<>>
    BY DEF AuditInit, Down
<1>2. AuditTypeOK
    BY <1>1, FS_EmptySet, EmptySeq DEF AuditInit, AuditTypeOK, HookPcs
<1> QED
    BY <1>1, <1>2 DEF AuditInit, AuditInv, IdsFresh, NewIsClean, Running, BatchSound, PostsBehind,
                      NoneSkipped

\* Rows in hand and rows posted are rows of the table.
LEMMA BatchTyped ==
    ASSUME AuditTypeOK
    PROVE  /\ Len(hook.batch) \in Nat /\ Len(posts) \in Nat
           /\ \A i \in 1..Len(hook.batch) : hook.batch[i] \in AuditRow /\ hook.batch[i].id \in Nat
           /\ \A i \in 1..Len(posts) : posts[i] \in AuditRow /\ posts[i].id \in Nat
<1>1. \A i \in 1..Len(hook.batch) : hook.batch[i] \in AuditRow
    BY ElementOfSeq DEF AuditTypeOK
<1>2. \A i \in 1..Len(posts) : posts[i] \in AuditRow
    BY ElementOfSeq DEF AuditTypeOK
<1>3. Len(hook.batch) \in Nat /\ Len(posts) \in Nat
    BY LenProperties DEF AuditTypeOK
<1> QED
    BY <1>1, <1>2, <1>3 DEF AuditRow

\* A new row is past the watermark and everything in the batch.
LEMMA AuditRecordKeeps ==
    ASSUME AuditInv, RecordAuditEvent
    PROVE  AuditInv'
<1>1. /\ autoinc' = autoinc + 1 /\ recorded' = recorded + 1
      /\ UNCHANGED <<today, auditPolicy, retention, hook, boots, posts, unseen>>
      /\ since' = IF Running THEN since \cup {recorded + 1} ELSE since
      /\ autoinc \in Nat /\ recorded \in Nat /\ today \in Nat /\ hook.watermark \in Nat
    BY DEF RecordAuditEvent, NextId, AuditInv, AuditTypeOK, Running
<1>2. PICK new : new = [ev |-> recorded + 1, id |-> autoinc + 1, day |-> today]
    OBVIOUS
<1>3. new \in AuditRow /\ new.ev = recorded + 1 /\ new.id = autoinc + 1
    BY <1>1, <1>2 DEF AuditRow
<1>4. auditRows' = auditRows \cup {new}
    BY <1>2 DEF RecordAuditEvent, NextId
<1>5. \A r \in auditRows : r.id \in Nat /\ r.id <= autoinc
    BY DEF AuditInv, AuditTypeOK, AuditRow, IdsFresh
<1>6. AuditTypeOK'
    <2>1. IsFiniteSet(auditRows')
        BY <1>4, FS_AddElement DEF AuditInv, AuditTypeOK
    <2> QED
        BY <1>1, <1>3, <1>4, <2>1 DEF AuditInv, AuditTypeOK
<1>7. IdsFresh'
    BY <1>1, <1>3, <1>4, <1>5 DEF AuditInv, IdsFresh
<1>8. \A i \in 1..Len(hook.batch) : hook.batch[i].id \in Nat
    BY BatchTyped DEF AuditInv
<1>9. BatchSound'
    <2> SUFFICES ASSUME Running PROVE BatchSound'
        BY <1>1 DEF BatchSound, Running
    <2>1. /\ hook.pc = "tick" => hook.batch = <<>>
          /\ hook.pc = "sweep" => hook.batch # <<>>
          /\ \A i, j \in 1..Len(hook.batch) : i < j => hook.batch[i].id < hook.batch[j].id
          /\ \A i \in 1..Len(hook.batch) :
                hook.watermark < hook.batch[i].id /\ hook.batch[i].id <= autoinc
          /\ \A i \in 1..Len(hook.batch), r \in auditRows :
                hook.watermark < r.id /\ r.id <= hook.batch[i].id
                    => \E j \in 1..Len(hook.batch) : hook.batch[j] = r
        BY DEF AuditInv, BatchSound
    <2>2. \A i \in 1..Len(hook.batch) : hook.batch[i].id < new.id /\ hook.batch[i].id <= autoinc'
        BY <1>1, <1>3, <1>8, <2>1
    <2>3. \A i \in 1..Len(hook.batch), r \in auditRows' :
                hook.watermark < r.id /\ r.id <= hook.batch[i].id
                    => \E j \in 1..Len(hook.batch) : hook.batch[j] = r
        <3> SUFFICES ASSUME NEW i \in 1..Len(hook.batch), NEW r \in auditRows',
                            hook.watermark < r.id, r.id <= hook.batch[i].id
                     PROVE  \E j \in 1..Len(hook.batch) : hook.batch[j] = r
            OBVIOUS
        <3>1. r # new
            BY <1>1, <1>3, <1>8, <2>2
        <3> QED
            BY <1>4, <2>1, <3>1
    <2> QED
        BY <1>1, <2>1, <2>2, <2>3 DEF BatchSound
<1>10. NoneSkipped'
    <2> SUFFICES ASSUME Running, NEW e \in since' PROVE Accounted(e)'
        BY <1>1 DEF NoneSkipped, Running
    <2>1. CASE e \in since
        <3>1. Accounted(e)
            BY <2>1 DEF AuditInv, NoneSkipped
        <3> QED
            BY <1>1, <1>4, <3>1 DEF Accounted
    <2>2. CASE e = recorded + 1
        <3>1. new.id > hook.watermark
            BY <1>1, <1>3 DEF AuditInv, IdsFresh
        <3> QED
            BY <1>1, <1>3, <1>4, <2>2, <3>1 DEF Accounted
    <2> QED
        BY <1>1, <2>1, <2>2
<1>11. NewIsClean' /\ PostsBehind'
    BY <1>1 DEF AuditInv, NewIsClean, PostsBehind, Running
<1> QED
    BY <1>6, <1>7, <1>9, <1>10, <1>11 DEF AuditInv

\* A step that leaves the table, the daemon and its history alone, but for the clock.
LEMMA AuditRestKeeps ==
    ASSUME AuditInv, UNCHANGED <<auditRows, autoinc, recorded, hook, posts, since, unseen>>,
           today' \in Nat
    PROVE  AuditInv'
BY DEF AuditInv, AuditTypeOK, IdsFresh, NewIsClean, Running, BatchSound, PostsBehind, NoneSkipped,
       Accounted

\* A new server starts without a daemon and with a clean history.
LEMMA AuditBootKeeps ==
    ASSUME AuditInv, BootAudit
    PROVE  AuditInv'
<1>1. /\ UNCHANGED <<auditRows, autoinc, recorded, today>>
      /\ posts' = <<>> /\ since' = {}
    BY DEF BootAudit
<1>2. hook'.pc \in {"new", "off"} /\ hook'.watermark = 0 /\ hook'.batch = <<>>
    BY DEF BootAudit, Down
<1>3. AuditTypeOK' /\ IdsFresh'
    BY <1>1, <1>2, EmptySeq DEF AuditInv, AuditTypeOK, IdsFresh, HookPcs
<1> QED
    BY <1>1, <1>2, <1>3 DEF AuditInv, NewIsClean, Running, BatchSound, PostsBehind, NoneSkipped

\* NewWebhookDaemon stamps a watermark that is no larger than the counter.
LEMMA AuditNewKeeps ==
    ASSUME AuditInv, NewWebhookDaemon
    PROVE  AuditInv'
<1>1. /\ UNCHANGED <<auditRows, autoinc, recorded, today, posts, since, unseen>> /\ hook.pc = "new"
      /\ autoinc \in Nat
    BY DEF NewWebhookDaemon, AuditInv, AuditTypeOK
<1>2. PICK read \in MaxAuditID \cup {0} : hook' = [hook EXCEPT !.pc = "tick", !.watermark = read]
    BY DEF NewWebhookDaemon
<1>3. read \in Nat /\ read <= autoinc
    BY <1>1 DEF MaxAuditID, AuditInv, AuditTypeOK, AuditRow, IdsFresh
<1>4. posts = <<>> /\ since = {} /\ hook.batch = <<>>
    BY <1>1 DEF AuditInv, NewIsClean
<1>5. hook'.pc = "tick" /\ hook'.watermark = read /\ hook'.batch = <<>>
    BY <1>2, <1>4
<1>6. AuditTypeOK' /\ IdsFresh'
    BY <1>1, <1>3, <1>5, EmptySeq DEF AuditInv, AuditTypeOK, IdsFresh, HookPcs
<1>7. BatchSound' /\ PostsBehind'
    BY <1>1, <1>4, <1>5 DEF BatchSound, PostsBehind
<1> QED
    BY <1>1, <1>4, <1>5, <1>6, <1>7 DEF AuditInv, NewIsClean, NoneSkipped

\* A stopped daemon owes nothing.
LEMMA AuditStopKeeps ==
    ASSUME AuditInv, StopAudit
    PROVE  AuditInv'
<1>1. UNCHANGED <<auditRows, autoinc, recorded, today, posts>>
    BY DEF StopAudit
<1>2. hook'.pc = "down" /\ hook'.watermark = 0 /\ hook'.batch = <<>>
    BY DEF StopAudit, Down
<1>3. AuditTypeOK' /\ IdsFresh'
    BY <1>1, <1>2, EmptySeq DEF AuditInv, AuditTypeOK, IdsFresh, HookPcs
<1> QED
    BY <1>2, <1>3 DEF AuditInv, NewIsClean, Running, BatchSound, PostsBehind, NoneSkipped

\* Pruning notes what it takes from ahead of the watermark.
LEMMA AuditPruneKeeps ==
    ASSUME AuditInv, SweepRetention
    PROVE  AuditInv'
<1>1. PICK old : old = {r \in auditRows : r.day + auditPolicy.retain < today}
    OBVIOUS
<1>2. /\ auditRows' = auditRows \ old
      /\ unseen' = unseen \cup {r.ev : r \in {q \in old : q.id > hook.watermark}}
      /\ UNCHANGED <<autoinc, recorded, today, hook, posts, since>>
    BY <1>1 DEF SweepRetention, PruneAudit
<1>3. AuditTypeOK'
    <2>1. IsFiniteSet(auditRows')
        BY <1>2, FS_Subset DEF AuditInv, AuditTypeOK
    <2> QED
        BY <1>2, <2>1 DEF AuditInv, AuditTypeOK
<1>4. IdsFresh' /\ NewIsClean' /\ PostsBehind'
    BY <1>2 DEF AuditInv, IdsFresh, NewIsClean, PostsBehind, Running
<1>5. BatchSound'
    BY <1>2 DEF AuditInv, BatchSound, Running
<1>6. NoneSkipped'
    <2> SUFFICES ASSUME Running, NEW e \in since PROVE Accounted(e)'
        BY <1>2 DEF NoneSkipped, Running
    <2>1. Accounted(e)
        BY DEF AuditInv, NoneSkipped
    <2>2. CASE \E r \in auditRows : r.ev = e /\ r.id > hook.watermark
        <3>1. PICK r \in auditRows : r.ev = e /\ r.id > hook.watermark
            BY <2>2
        <3>2. CASE r \in old
            BY <1>2, <3>1, <3>2 DEF Accounted
        <3>3. CASE r \notin old
            BY <1>2, <3>1, <3>3 DEF Accounted
        <3> QED
            BY <3>2, <3>3
    <2>3. CASE ~\E r \in auditRows : r.ev = e /\ r.id > hook.watermark
        BY <1>2, <2>1, <2>3 DEF Accounted
    <2> QED
        BY <2>2, <2>3
<1> QED
    BY <1>3, <1>4, <1>5, <1>6 DEF AuditInv

\* A batch is the rows after the watermark, in order and without a gap (ListAuditAfterID).
LEMMA AuditSweepKeeps ==
    ASSUME AuditInv, SweepWebhook
    PROVE  AuditInv'
<1> USE AuditAssumption
<1>1. /\ UNCHANGED <<auditRows, autoinc, recorded, today, posts, since, unseen>> /\ hook.pc = "tick"
      /\ Running /\ autoinc \in Nat /\ hook.watermark \in Nat
    BY DEF SweepWebhook, Running, AuditInv, AuditTypeOK
<1>2. PICK batch \in ListAuditAfterID(hook.watermark, BatchSize) :
          batch # <<>> /\ hook' = [hook EXCEPT !.pc = "sweep", !.batch = batch]
    BY DEF SweepWebhook
<1>3. PICK L : L = Later(hook.watermark)
    OBVIOUS
<1>4. L \subseteq auditRows /\ L \subseteq AuditRow /\ \A r \in auditRows : r \in L <=> r.id > hook.watermark
    BY <1>3 DEF Later, AuditInv, AuditTypeOK
<1>5. PICK n \in Nat :
          /\ batch \in [1..n -> L]
          /\ \A i, j \in 1..n : i < j => batch[i].id < batch[j].id
          /\ \A i \in 1..n, r \in L : r.id < batch[i].id => \E j \in 1..n : batch[j] = r
    <2>1. IsFiniteSet(L)
        BY <1>4, FS_Subset DEF AuditInv, AuditTypeOK
    <2>2. Cardinality(L) \in Nat
        BY <2>1, FS_CardinalityType
    <2>3. PICK n : n = IF Cardinality(L) < BatchSize THEN Cardinality(L) ELSE BatchSize
        OBVIOUS
    <2>4. n \in Nat
        BY <2>2, <2>3
    <2>5. batch \in {s \in [1..n -> L] :
            /\ \A i, j \in 1..n : i < j => s[i].id < s[j].id
            /\ \A i \in 1..n, r \in L : r.id < s[i].id => \E j \in 1..n : s[j] = r}
        BY <1>2, <1>3, <2>3, Zenon DEF ListAuditAfterID
    <2> QED
        BY <2>4, <2>5
<1>6. batch \in Seq(L) /\ Len(batch) = n
    <2>1. batch \in Seq(L)
        BY <1>5, SeqDef
    <2>2. DOMAIN batch = 1..Len(batch) /\ DOMAIN batch = 1..n /\ Len(batch) \in Nat
        BY <1>5, <2>1, LenProperties
    <2> QED
        BY <1>5, <2>1, <2>2
<1>7. batch \in Seq(AuditRow)
    BY <1>4, <1>6, SeqMonotonic
<1>8. hook'.pc = "sweep" /\ hook'.watermark = hook.watermark /\ hook'.batch = batch
    BY <1>2, <1>1
<1>9. AuditTypeOK' /\ IdsFresh' /\ NewIsClean' /\ PostsBehind'
    BY <1>1, <1>7, <1>8 DEF AuditInv, AuditTypeOK, HookPcs, IdsFresh, NewIsClean, PostsBehind, Running
<1>10. \A i \in 1..n : batch[i] \in L
    BY <1>5
<1>11. \A i \in 1..n : /\ batch[i] \in auditRows /\ batch[i].id \in Nat /\ batch[i].id <= autoinc
                       /\ hook.watermark < batch[i].id
    BY <1>1, <1>4, <1>10 DEF AuditInv, AuditTypeOK, AuditRow, IdsFresh
<1>12. \A i \in 1..n, r \in auditRows :
           hook.watermark < r.id /\ r.id <= batch[i].id => \E j \in 1..n : batch[j] = r
    <2> SUFFICES ASSUME NEW i \in 1..n, NEW r \in auditRows, hook.watermark < r.id, r.id <= batch[i].id
                 PROVE  \E j \in 1..n : batch[j] = r
        OBVIOUS
    <2>1. r \in L /\ r.id \in Nat
        BY <1>1, <1>4 DEF AuditInv, AuditTypeOK, AuditRow
    <2>2. CASE r.id < batch[i].id
        BY <1>5, <2>1, <2>2
    <2>3. CASE r.id = batch[i].id
        BY <1>11, <2>3 DEF AuditInv, IdsFresh
    <2> QED
        BY <1>11, <2>1, <2>2, <2>3
<1>13. BatchSound'
    BY <1>1, <1>2, <1>5, <1>6, <1>8, <1>11, <1>12 DEF BatchSound
<1>14. NoneSkipped'
    <2> SUFFICES ASSUME NEW e \in since PROVE Accounted(e)'
        BY <1>1 DEF NoneSkipped
    <2>1. Accounted(e) /\ Len(hook.batch) = 0
        BY <1>1, EmptySeq DEF AuditInv, NoneSkipped, BatchSound
    <2> QED
        BY <1>1, <1>8, <2>1 DEF Accounted
<1> QED
    BY <1>9, <1>13, <1>14 DEF AuditInv

\* Moving the watermark to the event just posted passes over no row but that one (sweep).
LEMMA AuditDeliverKeeps ==
    ASSUME AuditInv, DeliverNext
    PROVE  AuditInv'
<1>1. /\ UNCHANGED <<auditRows, autoinc, recorded, today, since, unseen>> /\ hook.pc = "sweep"
      /\ Running /\ autoinc \in Nat /\ hook.watermark \in Nat /\ posts \in Seq(AuditRow)
      /\ hook.batch \in Seq(AuditRow) /\ hook.batch # <<>>
    BY DEF DeliverNext, Running, AuditInv, AuditTypeOK, BatchSound
<1>2. PICK b : b = hook.batch
    OBVIOUS
<1>3. PICK w : w = hook.watermark
    OBVIOUS
<1>4. b \in Seq(AuditRow) /\ b # <<>> /\ w \in Nat /\ Len(b) \in Nat /\ Len(b) >= 1
    BY <1>1, <1>2, <1>3, EmptySeq
<1>5. PICK ev : ev = Head(b)
    OBVIOUS
<1>6. PICK rest : rest = Tail(b)
    OBVIOUS
<1>7. /\ ev \in AuditRow /\ ev = b[1] /\ rest \in Seq(AuditRow) /\ Len(rest) = Len(b) - 1
      /\ \A i \in 1..Len(rest) : rest[i] = b[i + 1]
    BY <1>4, <1>5, <1>6, HeadTailProperties
<1>8. /\ \A i, j \in 1..Len(b) : i < j => b[i].id < b[j].id
      /\ \A i \in 1..Len(b) : w < b[i].id /\ b[i].id <= autoinc
      /\ \A i \in 1..Len(b), r \in auditRows :
            w < r.id /\ r.id <= b[i].id => \E j \in 1..Len(b) : b[j] = r
    BY <1>1, <1>2, <1>3 DEF AuditInv, BatchSound
<1>9. 1 \in 1..Len(b) /\ ev.id \in Nat /\ w < ev.id /\ ev.id <= autoinc
    BY <1>4, <1>7, <1>8 DEF AuditRow
<1>10. /\ posts' = Append(posts, ev)
       /\ hook'.pc = (IF rest = <<>> THEN "tick" ELSE "sweep")
       /\ hook'.watermark = ev.id /\ hook'.batch = rest
    BY <1>2, <1>3, <1>4, <1>5, <1>6, <1>9 DEF DeliverNext
<1>11. /\ posts' \in Seq(AuditRow) /\ Len(posts') = Len(posts) + 1 /\ Len(posts) \in Nat
       /\ \A i \in 1..Len(posts) : posts'[i] = posts[i]
       /\ posts'[Len(posts) + 1] = ev
    BY <1>1, <1>7, <1>10, AppendProperties, LenProperties
<1>12. AuditTypeOK' /\ IdsFresh' /\ NewIsClean'
    BY <1>1, <1>7, <1>9, <1>10, <1>11 DEF AuditInv, AuditTypeOK, HookPcs, IdsFresh, NewIsClean
<1>13. \A i \in 1..Len(b) : b[i].id \in Nat
    BY <1>1, <1>2, BatchTyped DEF AuditInv
<1>14. \A i \in 1..Len(rest) : i + 1 \in 1..Len(b) /\ ev.id < rest[i].id /\ rest[i].id <= autoinc
    <2> SUFFICES ASSUME NEW i \in 1..Len(rest)
                 PROVE  i + 1 \in 1..Len(b) /\ ev.id < rest[i].id /\ rest[i].id <= autoinc
        OBVIOUS
    <2>1. i + 1 \in 1..Len(b) /\ 1 < i + 1
        BY <1>4, <1>7
    <2> QED
        BY <1>7, <1>8, <1>9, <2>1
<1>15. \A i, j \in 1..Len(rest) : i < j => rest[i].id < rest[j].id
    <2> SUFFICES ASSUME NEW i \in 1..Len(rest), NEW j \in 1..Len(rest), i < j
                 PROVE  rest[i].id < rest[j].id
        OBVIOUS
    <2>1. i + 1 \in 1..Len(b) /\ j + 1 \in 1..Len(b) /\ i + 1 < j + 1
        BY <1>14
    <2> QED
        BY <1>7, <1>8, <2>1
<1>16. \A j \in 1..Len(b) : b[j].id > ev.id => \E i \in 1..Len(rest) : rest[i] = b[j]
    <2> SUFFICES ASSUME NEW j \in 1..Len(b), b[j].id > ev.id
                 PROVE  \E i \in 1..Len(rest) : rest[i] = b[j]
        OBVIOUS
    <2>1. j # 1
        BY <1>7, <1>9
    <2>2. j - 1 \in 1..Len(rest) /\ (j - 1) + 1 = j
        BY <1>4, <1>7, <2>1
    <2> QED
        BY <1>7, <2>2
<1>17. \A i \in 1..Len(rest), r \in auditRows :
           ev.id < r.id /\ r.id <= rest[i].id => \E k \in 1..Len(rest) : rest[k] = r
    <2> SUFFICES ASSUME NEW i \in 1..Len(rest), NEW r \in auditRows, ev.id < r.id, r.id <= rest[i].id
                 PROVE  \E k \in 1..Len(rest) : rest[k] = r
        OBVIOUS
    <2>1. r.id \in Nat
        BY DEF AuditInv, AuditTypeOK, AuditRow
    <2>2. i + 1 \in 1..Len(b) /\ w < r.id /\ r.id <= b[i + 1].id
        BY <1>4, <1>7, <1>9, <1>14, <2>1
    <2>3. PICK j \in 1..Len(b) : b[j] = r
        BY <1>8, <2>2
    <2> QED
        BY <1>9, <1>16, <2>1, <2>3
<1>18. BatchSound'
    BY <1>1, <1>10, <1>14, <1>15, <1>17 DEF BatchSound
<1>19. PostsBehind'
    <2>1. /\ \A i, j \in 1..Len(posts) : i < j => posts[i].id < posts[j].id
          /\ \A i \in 1..Len(posts) : posts[i].id <= w
        BY <1>1, <1>3 DEF AuditInv, PostsBehind
    <2>2. \A i \in 1..Len(posts) : posts[i].id \in Nat /\ posts[i].id < ev.id
        BY <1>4, <1>9, <2>1, BatchTyped DEF AuditInv
    <2>3. ASSUME NEW i \in 1..Len(posts'), NEW j \in 1..Len(posts'), i < j
          PROVE  posts'[i].id < posts'[j].id
        <3>1. i \in 1..Len(posts)
            BY <1>11, <2>3
        <3>2. CASE j = Len(posts) + 1
            BY <1>11, <2>2, <3>1, <3>2
        <3>3. CASE j # Len(posts) + 1
            <4>1. j \in 1..Len(posts)
                BY <1>11, <3>3
            <4> QED
                BY <1>11, <2>1, <2>3, <3>1, <4>1
        <3> QED
            BY <3>2, <3>3
    <2>4. ASSUME NEW i \in 1..Len(posts') PROVE posts'[i].id <= ev.id
        <3>1. CASE i = Len(posts) + 1
            BY <1>9, <1>11, <3>1
        <3>2. CASE i # Len(posts) + 1
            <4>1. i \in 1..Len(posts)
                BY <1>11, <3>2
            <4> QED
                BY <1>9, <1>11, <2>2, <4>1
        <3> QED
            BY <3>1, <3>2
    <2> QED
        BY <1>10, <2>3, <2>4 DEF PostsBehind
<1>20. NoneSkipped'
    <2> SUFFICES ASSUME NEW e \in since PROVE Accounted(e)'
        BY <1>1 DEF NoneSkipped
    <2>0. Len(posts) + 1 \in 1..Len(posts') /\ \A i \in 1..Len(posts) : i \in 1..Len(posts')
        BY <1>11
    <2>1. ASSUME NEW j \in 1..Len(b), b[j].ev = e PROVE Accounted(e)'
        <3>1. CASE j = 1
            BY <1>7, <1>11, <2>0, <2>1, <3>1 DEF Accounted
        <3>2. CASE j # 1
            <4>1. 1 < j
                BY <1>4, <3>2
            <4>2. b[j].id > ev.id
                BY <1>7, <1>8, <1>9, <1>13, <4>1
            <4>3. PICK i \in 1..Len(rest) : rest[i] = b[j]
                BY <1>16, <4>2
            <4> QED
                BY <1>10, <2>1, <4>3 DEF Accounted
        <3> QED
            BY <3>1, <3>2
    <2>2. ASSUME NEW r \in auditRows, r.ev = e, r.id > w PROVE Accounted(e)'
        <3>1. r.id \in Nat
            BY DEF AuditInv, AuditTypeOK, AuditRow
        <3>2. CASE r.id > ev.id
            BY <1>1, <1>10, <2>2, <3>2 DEF Accounted
        <3>3. CASE ~(r.id > ev.id)
            <4>1. w < r.id /\ r.id <= b[1].id
                BY <1>4, <1>7, <1>9, <2>2, <3>1, <3>3
            <4>2. PICK j \in 1..Len(b) : b[j] = r
                BY <1>8, <1>9, <4>1
            <4> QED
                BY <2>1, <2>2, <4>2
        <3> QED
            BY <3>2, <3>3
    <2>3. ASSUME NEW i \in 1..Len(posts), posts[i].ev = e PROVE Accounted(e)'
        BY <1>11, <2>0, <2>3 DEF Accounted
    <2>4. Accounted(e)
        BY <1>1 DEF AuditInv, NoneSkipped
    <2> QED
        BY <1>1, <1>2, <1>3, <2>1, <2>2, <2>3, <2>4 DEF Accounted
<1> QED
    BY <1>12, <1>18, <1>19, <1>20 DEF AuditInv

(* For any batch size, any retention and any number of events and restarts:*)
(* while the daemon lives it posts each event at most once, in the order   *)
(* of the log, and skips none but what retention took from ahead of it.    *)
THEOREM WebhookStaysOnce == AuditSpec => []WebhookPostsOnce
<1>1. AuditInit => AuditInv
    BY AuditStarts
<1>2. AuditInv /\ [AuditNext]_auditVars => AuditInv'
    <2> SUFFICES ASSUME AuditInv, [AuditNext]_auditVars PROVE AuditInv'
        OBVIOUS
    <2>1. CASE RecordAuditEvent
        BY <2>1, AuditRecordKeeps
    <2>2. CASE NextDay
        <3>1. today' \in Nat /\ UNCHANGED <<auditRows, autoinc, recorded, hook, posts, since, unseen>>
            BY <2>2 DEF NextDay, AuditInv, AuditTypeOK
        <3> QED
            BY <3>1, AuditRestKeeps
    <2>3. CASE BootAudit
        BY <2>3, AuditBootKeeps
    <2>4. CASE NewWebhookDaemon
        BY <2>4, AuditNewKeeps
    <2>5. CASE SweepWebhook
        BY <2>5, AuditSweepKeeps
    <2>6. CASE DeliverNext
        BY <2>6, AuditDeliverKeeps
    <2>7. CASE SweepRetention
        BY <2>7, AuditPruneKeeps
    <2>8. CASE StopAudit
        BY <2>8, AuditStopKeeps
    <2>9. CASE UNCHANGED auditVars
        <3>1. today' \in Nat /\ UNCHANGED <<auditRows, autoinc, recorded, hook, posts, since, unseen>>
            BY <2>9 DEF auditVars, AuditInv, AuditTypeOK
        <3> QED
            BY <3>1, AuditRestKeeps
    <2> QED
        BY <2>1, <2>2, <2>3, <2>4, <2>5, <2>6, <2>7, <2>8, <2>9 DEF AuditNext
<1>3. AuditInv => WebhookPostsOnce
    BY DEF AuditInv, PostsBehind, NoneSkipped, Accounted, Running, WebhookPostsOnce
<1> QED
    BY <1>1, <1>2, <1>3, PTL DEF AuditSpec

(***************************************************************************)
(* The gates (Gates, Serving)                                              *)
(***************************************************************************)
\* Fields are left open where nothing depends on them.
WiringRec ==
    wiring = [backend |-> wiring.backend, cascade |-> wiring.cascade, db |-> wiring.db,
              promote |-> wiring.promote, ingestWrite |-> wiring.ingestWrite,
              frontProxy |-> wiring.frontProxy, mcpHTTP |-> wiring.mcpHTTP,
              mcpWrite |-> wiring.mcpWrite, trusted |-> wiring.trusted,
              identityFile |-> wiring.identityFile, identity |-> wiring.identity,
              policyFile |-> wiring.policyFile, policy |-> wiring.policy,
              publisher |-> wiring.publisher]

\* What is in force was loaded from a file that loads, if there is one.
FilesInForce ==
    /\ \/ wiring.identityFile = {} /\ wiring.identity = {}
       \/ \E f \in IdentityFiles : /\ wiring.identityFile = {f}
                                  /\ wiring.identity = LoadIdentityFile(f) /\ wiring.identity # {}
    /\ \/ wiring.policyFile = {} /\ wiring.policy = {}
       \/ \E f \in PolicyFiles : /\ wiring.policyFile = {f}
                                /\ wiring.policy = LoadFile(f) /\ wiring.policy # {}

\* What each stage of the boot has made sure of.
BootChecked ==
    /\ wiring.promote \in BOOLEAN /\ wiring.ingestWrite \in BOOLEAN /\ wiring.mcpWrite \in BOOLEAN
    /\ wiring.promote => wiring.cascade # "none"
    /\ stage \in {"files", "daemons", "serving"} => CheckSafeStartup(wiring)
    /\ stage \in {"daemons", "serving"} => CheckMCPWriteStartup(wiring)

ServingInv == WiringRec /\ FilesInForce /\ BootChecked

(* An identity file that loads gives every token the groups of its entry.  *)
LEMMA RegistryVouches ==
    ASSUME NEW f \in IdentityFiles, NEW r \in LoadIdentityFile(f), NEW t \in DOMAIN r
    PROVE  /\ LoadIdentityFile(f) = {r}
           /\ \E i \in DOMAIN f.entries : f.entries[i].token = t /\ f.entries[i].named
                                          /\ r[t] = f.entries[i].groups
<1> DEFINE R == [x \in {f.entries[i].token : i \in DOMAIN f.entries} |->
                   f.entries[CHOOSE i \in DOMAIN f.entries : f.entries[i].token = x].groups]
<1>1. /\ \A i \in DOMAIN f.entries : f.entries[i].token # "" /\ f.entries[i].named
      /\ LoadIdentityFile(f) = {R}
  BY DEF LoadIdentityFile
<1>2. r = R /\ t \in {f.entries[i].token : i \in DOMAIN f.entries}
  BY <1>1
<1>3. PICK k \in DOMAIN f.entries : k = CHOOSE i \in DOMAIN f.entries : f.entries[i].token = t
  BY <1>2
<1>4. f.entries[k].token = t
  BY <1>2, <1>3
<1> QED BY <1>1, <1>2, <1>3, <1>4

(* The table a policy file is loaded to gives an action the gate the file  *)
(* says: the overlay's, or the profile's under it.                         *)
LEMMA FileMeans ==
    ASSUME NEW f \in PolicyFiles, NEW p \in LoadFile(f), NEW a \in ActionNames, a \in DOMAIN p
    PROVE  p[a] = Meant(f, a)
<1> DEFINE base == Profiles[IF f.profile \in KnownProfiles THEN f.profile ELSE "strict"]
<1>1. f.state = "ok" /\ p \in deepMergeMaps(base, f.overlay)
  BY DEF LoadFile, LoadProfile, ProfileOf, KnownProfiles
<1>2. f.overlay \in Overlays
  BY <1>1 DEF PolicyFiles
<1>3. CASE f.overlay.kind = "absent"
  <2>1. p = base /\ DOMAIN f.overlay.map = {}
    BY <1>1, <1>2, <1>3 DEF deepMergeMaps, Overlays
  <2> QED BY <2>1, <1>3 DEF Meant
<1>4. CASE f.overlay.kind = "null"
  BY <1>1, <1>4 DEF deepMergeMaps
<1>5. CASE f.overlay.kind = "list"
  BY <1>1, <1>5 DEF deepMergeMaps
<1>6. CASE f.overlay.kind = "map"
  BY <1>1, <1>6 DEF deepMergeMaps, Meant
<1> QED BY <1>2, <1>3, <1>4, <1>5, <1>6 DEF Overlays

(* Who a request is taken for has been vouched for: by the entry of its    *)
(* token in the identity file in force, or by a trusted peer.              *)
LEMMA CallerVouched ==
    ASSUME ServingInv, NEW req \in Callers,
           IsAuthenticated(Caller(wiring, req))
    PROVE  Vouched(wiring, req, Caller(wiring, req).groups)
<1> DEFINE reg == IF wiring.identity = {} THEN << >> ELSE CHOOSE r \in wiring.identity : TRUE
           token == extractBearerToken(req.authorization)
           id == Caller(wiring, req)
<1>1. id = headerAuth(wiring.trusted, req, bearerAuth(reg, req))
  BY DEF Caller, Identify
<1>2. CASE token # "" /\ token \in DOMAIN reg
  <2>1. id = [source |-> "bearer", groups |-> reg[token]]
    BY <1>1, <1>2 DEF headerAuth, bearerAuth, IsAuthenticated
  <2>2. wiring.identity # {} /\ reg \in wiring.identity
    <3>1. DOMAIN << >> = {}
      OBVIOUS
    <3>2. wiring.identity # {}
      BY <1>2, <3>1
    <3> QED BY <3>2
  <2> HIDE DEF reg, token, id
  <2>3. PICK f \in IdentityFiles : wiring.identityFile = {f} /\ wiring.identity = LoadIdentityFile(f)
    BY <2>2 DEF ServingInv, FilesInForce
  <2>4. \E i \in DOMAIN f.entries : f.entries[i].token = token /\ f.entries[i].named
                                    /\ reg[token] = f.entries[i].groups
    <3>1. reg \in LoadIdentityFile(f) /\ token \in DOMAIN reg
      BY <2>2, <2>3, <1>2
    <3> QED BY <3>1, RegistryVouches
  <2>5. req.authorization.scheme = "bearer" /\ token = req.authorization.token
    BY <1>2 DEF extractBearerToken, token
  <2>6. id.groups = reg[token]
    BY <2>1
  <2> QED BY <2>3, <2>4, <2>5, <2>6 DEF Vouched, id
<1>3. CASE ~(token # "" /\ token \in DOMAIN reg)
  <2>1. bearerAuth(reg, req) = Anonymous
    BY <1>3 DEF bearerAuth
  <2>2. req.peer \in wiring.trusted /\ req.named /\ id.groups = req.groups
    BY <1>1, <2>1 DEF headerAuth, Anonymous, IsAuthenticated, sourceIPIsTrusted, identityFromHeaders
  <2> QED BY <2>2 DEF Vouched
<1> QED BY <1>2, <1>3

(* What the policy in force allows was earned.                             *)
LEMMA AllowedIsEarned ==
    ASSUME ServingInv, NEW req \in Callers, NEW action \in ActionNames,
           Allow(wiring.policy, Caller(wiring, req), action)
    PROVE  Earned(wiring, req, action)
<1> DEFINE id == Caller(wiring, req)
<1>1. PICK f \in PolicyFiles : wiring.policyFile = {f} /\ wiring.policy = LoadFile(f)
  BY DEF ServingInv, FilesInForce, Allow
<1>2. PICK p \in wiring.policy :
         /\ action \in DOMAIN p
         /\ \/ p[action] = "any"
            \/ p[action] = "authenticated" /\ IsAuthenticated(id)
            \/ IsGroup(p[action]) /\ IsAuthenticated(id) /\ GroupName(p[action]) \in id.groups
  BY DEF Allow
<1>3. p[action] = Meant(f, action)
  BY <1>1, <1>2, FileMeans
<1>4. IsAuthenticated(id) => Vouched(wiring, req, id.groups)
  BY CallerVouched
<1>5. \A G : G \subseteq id.groups /\ IsAuthenticated(id) => Vouched(wiring, req, G)
  BY <1>4 DEF Vouched
<1>6. CASE IsGroup(p[action]) /\ IsAuthenticated(id) /\ GroupName(p[action]) \in id.groups
  <2>1. PICK g \in Groups : g = GroupName(p[action]) /\ p[action] = GroupGates[g]
    BY <1>6 DEF IsGroup, GroupName
  <2>2. Vouched(wiring, req, {g})
    BY <1>5, <1>6, <2>1
  <2> QED BY <1>1, <1>3, <2>1, <2>2 DEF Earned
<1>7. CASE p[action] = "authenticated" /\ IsAuthenticated(id)
  BY <1>1, <1>3, <1>5, <1>7 DEF Earned
<1>8. CASE p[action] = "any"
  BY <1>1, <1>3, <1>8 DEF Earned
<1> QED BY <1>2, <1>6, <1>7, <1>8

(* A server that has read nothing yet satisfies the invariant.             *)
LEMMA ServingStarts == ServingInit => ServingInv
  BY DEF ServingInit, Bare, ServingInv, WiringRec, FilesInForce, BootChecked

(* So does every stage of the boot, every refusal and every reload.        *)
LEMMA ServingStep == ServingInv /\ [ServingNext]_servingVars => ServingInv'
<1> SUFFICES ASSUME ServingInv, [ServingNext]_servingVars PROVE ServingInv'
  OBVIOUS
<1> USE DEF ServingInv, BootChecked, CheckSafeStartup, CheckMCPWriteStartup
<1>r. CASE Refuse
  BY <1>r DEF Refuse, WiringRec, FilesInForce
<1>1. CASE BuildBackend
  BY <1>1, <1>r DEF BuildBackend, Proceed, WiringRec, FilesInForce
<1>2. CASE Federate
  BY <1>2, <1>r DEF Federate, Proceed, Reachable, WiringRec, FilesInForce
<1>3. CASE OpenStore
  BY <1>3, <1>r DEF OpenStore, Proceed, WiringRec, FilesInForce
<1>4. CASE ParseFlags
  <2>1. ASSUME NEW flags \in FlagSets, NEW trusted \in Networks,
               CheckSafeStartup(Flagged(flags, trusted)), Proceed("files", Flagged(flags, trusted))
        PROVE  ServingInv'
    BY <2>1 DEF Flagged, FlagSets, Proceed, WiringRec, FilesInForce
  <2> QED BY <1>4, <1>r, <2>1 DEF ParseFlags
<1>5. CASE LoadFiles
  <2>1. PICK i \in {{}} \cup {{f} : f \in IdentityFiles}, p \in {{}} \cup {{f} : f \in PolicyFiles} :
           LET identity == UNION {LoadIdentityFile(f) : f \in i}
               policy == UNION {LoadFile(f) : f \in p}
               w == [wiring EXCEPT !.identityFile = i, !.identity = identity,
                                   !.policyFile = p, !.policy = policy]
           IN IF (i # {} /\ identity = {}) \/ (p # {} /\ policy = {}) \/ ~CheckMCPWriteStartup(w)
              THEN Refuse
              ELSE Proceed("daemons", w)
    BY <1>5 DEF LoadFiles
  <2>2. CASE ~Refuse
    <3> DEFINE identity == UNION {LoadIdentityFile(f) : f \in i}
               policy == UNION {LoadFile(f) : f \in p}
               w == [wiring EXCEPT !.identityFile = i, !.identity = identity,
                                   !.policyFile = p, !.policy = policy]
    <3>1. /\ stage' = "daemons" /\ wiring' = w /\ CheckMCPWriteStartup(w)
          /\ i # {} => identity # {}
          /\ p # {} => policy # {}
      BY <2>1, <2>2 DEF Proceed
    <3>2. (identity = {} /\ i = {}) \/ (\E f \in IdentityFiles : i = {f} /\ identity = LoadIdentityFile(f))
      OBVIOUS
    <3>3. (policy = {} /\ p = {}) \/ (\E f \in PolicyFiles : p = {f} /\ policy = LoadFile(f))
      OBVIOUS
    <3>4. /\ WiringRec' /\ wiring'.identityFile = i /\ wiring'.identity = identity
          /\ wiring'.policyFile = p /\ wiring'.policy = policy
          /\ wiring'.promote = wiring.promote /\ wiring'.cascade = wiring.cascade
          /\ wiring'.ingestWrite = wiring.ingestWrite /\ wiring'.frontProxy = wiring.frontProxy
          /\ wiring'.mcpWrite = wiring.mcpWrite /\ wiring'.trusted = wiring.trusted
      BY <3>1 DEF WiringRec
    <3>5. FilesInForce'
      <4> HIDE DEF identity, policy
      <4> QED BY <3>1, <3>2, <3>3, <3>4 DEF FilesInForce
    <3> QED BY <1>5, <3>1, <3>4, <3>5 DEF LoadFiles
  <2> QED BY <2>2, <1>r
<1>6. CASE StartDaemons
  BY <1>6, <1>r DEF StartDaemons, Proceed, WiringRec, FilesInForce
<1>7. CASE RunProbeLoop
  BY <1>7 DEF RunProbeLoop, Proceed, Reachable, WiringRec, FilesInForce
<1>8. CASE ReloadIdentity
  BY <1>8 DEF ReloadIdentity, Proceed, WiringRec, FilesInForce
<1>9. CASE ReloadPolicy
  BY <1>9 DEF ReloadPolicy, Proceed, WiringRec, FilesInForce
<1>10. CASE UNCHANGED servingVars
  BY <1>10 DEF servingVars, WiringRec, FilesInForce
<1> QED BY <1>1, <1>2, <1>3, <1>4, <1>5, <1>6, <1>7, <1>8, <1>9, <1>10 DEF ServingNext

(* For every set of tokens, peers, networks, groups, identity files and    *)
(* policy overlays: no stage of the boot, no reload and no request lets a  *)
(* caller through a gate the files in force do not open to them            *)
(* (bearerAuth, headerAuth, LoadIdentityFile, LoadFile, Allow).            *)
THEOREM GatesStayEarned == ServingSpec => []GatesAreEarned
<1>1. ServingInv => GatesAreEarned
  BY AllowedIsEarned DEF GatesAreEarned
<1> QED BY <1>1, ServingStarts, ServingStep, PTL DEF ServingSpec

(* And no started configuration changes the index, the mirror or a request *)
(* row for a caller nobody let in (CheckSafeStartup, CheckMCPWriteStartup, *)
(* the route registrations, the promote hook).                             *)
THEOREM WritesStayGated == ServingSpec => []WritesAreGated
<1>1. ASSUME ServingInv, stage = "serving", NEW route \in Routes, NEW req \in Callers,
             Changes(wiring, route, req)
      PROVE  \/ route = "bcr" /\ wiring.promote /\ wiring.cascade # "none"
             \/ route = "ingest" /\ wiring.ingestWrite /\ (wiring.trusted # {} \/ ~wiring.frontProxy)
             \/ /\ route \in ActionNames /\ Earned(wiring, req, route)
                /\ route = "use_mcp_write" =>
                      /\ wiring.mcpWrite /\ Earned(wiring, req, "use_mcp_read")
                      /\ wiring.identity # {} \/ wiring.trusted # {}
  <2>0. Passes(wiring, route, Caller(wiring, req)) /\ TRUE \in Writes(wiring, route)
    BY <1>1 DEF Changes
  <2>1. CASE route = "bcr"
    <3>1. wiring.promote
      BY <2>0, <2>1 DEF Writes, PolicyRoutes
    <3> QED BY <1>1, <2>1, <3>1 DEF ServingInv, BootChecked
  <2>2. CASE route = "ingest"
    <3>1. wiring.ingestWrite
      BY <2>0, <2>2 DEF Passes, PolicyRoutes
    <3> QED BY <1>1, <2>2, <3>1 DEF ServingInv, BootChecked, CheckSafeStartup
  <2>3. CASE route = "use_mcp_write"
    <3>1. /\ Allow(wiring.policy, Caller(wiring, req), "use_mcp_read") /\ wiring.mcpWrite
          /\ Allow(wiring.policy, Caller(wiring, req), "use_mcp_write")
      BY <2>0, <2>3 DEF Passes, PolicyRoutes
    <3>2. Earned(wiring, req, "use_mcp_read") /\ Earned(wiring, req, "use_mcp_write")
      BY <1>1, <3>1, AllowedIsEarned DEF ActionNames
    <3> QED BY <1>1, <2>3, <3>1, <3>2
            DEF ActionNames, ServingInv, BootChecked, CheckMCPWriteStartup
  <2>4. CASE route \in PolicyRoutes
    <3>1. Allow(wiring.policy, Caller(wiring, req), route) /\ route \in ActionNames
      BY <2>0, <2>4 DEF Passes, PolicyRoutes, ActionNames
    <3> QED BY <1>1, <2>4, <3>1, AllowedIsEarned DEF PolicyRoutes
  <2>5. CASE route \in {"api", "use_mcp_read"}
    BY <2>0, <2>5 DEF Writes
  <2> QED BY <1>1, <2>1, <2>2, <2>3, <2>4, <2>5 DEF Routes
<1>2. ServingInv => WritesAreGated
  BY <1>1 DEF WritesAreGated
<1> QED BY <1>2, ServingStarts, ServingStep, PTL DEF ServingSpec
=============================================================================
