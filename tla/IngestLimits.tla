---------------------------- MODULE IngestLimits ----------------------------
(***************************************************************************)
(* The gate in front of the ingest endpoints: IngestLimiter of             *)
(* internal/ratelimit, a token bucket per address and a semaphore for all, *)
(* as apiBump, apiIngestRecursive and apiIngestMissing use it. Time is in  *)
(* ticks, tokens are counted in 1/Minute of a token.                       *)
(***************************************************************************)
EXTENDS Integers, FiniteSets

CONSTANTS IngestCalls,     \* handler goroutines
          Addrs,           \* client addresses, after RemoteIP
          BypassIPs,
          LimiterOptions,  \* Options: perMin and maxConcurrent, 0 disables either
          Minute,          \* ticks of a minute
          MaxTick,         \* bound: ticks
          MaxAdmits        \* bound: requests of an address the bucket lets pass

ASSUME LimitsAssumption ==
    /\ IsFiniteSet(IngestCalls) /\ BypassIPs \subseteq Addrs
    /\ LimiterOptions \subseteq [perMin : Nat, maxConcurrent : Nat]
    /\ Minute \in Nat \ {0} /\ MaxTick \in Nat /\ MaxAdmits \in Nat

VARIABLES
    limits,     \* the Options of this server
    tick,
    bucket,     \* address -> its bucket
    sem,        \* slots taken in the semaphore
    call,       \* goroutine -> pc, address, the time it read before the bucket's lock
    admits,     \* history: address -> requests its bucket let pass
    opened      \* address -> when its bucket was made, -1 while it has none

limitsVars == <<limits, tick, bucket, sem, call, admits, opened>>

IdleCall(a) == [pc |-> "idle", addr |-> a, now |-> 0]

LimitsInit ==
    /\ limits \in LimiterOptions
    /\ tick = 0 /\ sem = 0
    /\ bucket = [a \in Addrs |-> [tokens |-> 0, lastFill |-> 0]]
    /\ \E f \in [IngestCalls -> Addrs] : call = [c \in IngestCalls |-> IdleCall(f[c])]
    /\ admits = [a \in Addrs |-> 0] /\ opened = [a \in Addrs |-> -1]

-----------------------------------------------------------------------------
TickLimits ==
    /\ tick < MaxTick
    /\ tick' = tick + 1
    /\ UNCHANGED <<limits, bucket, sem, call, admits, opened>>

\* Acquire, up to the lock of the bucket: bucketFor, then time.Now().
StartIngest(c) ==
    LET a == call[c].addr
        gated == limits.perMin > 0 /\ a \notin BypassIPs
        new == gated /\ opened[a] = -1
    IN  /\ call[c].pc = "idle" /\ admits[a] < MaxAdmits
        /\ call' = [call EXCEPT ![c].pc = IF gated THEN "allow" ELSE "slot", ![c].now = tick]
        /\ bucket' = IF new THEN [bucket EXCEPT ![a] = [tokens |-> limits.perMin * Minute,
                                                        lastFill |-> tick]]
                     ELSE bucket
        /\ opened' = IF new THEN [opened EXCEPT ![a] = tick] ELSE opened
        /\ UNCHANGED <<limits, tick, sem, admits>>

\* A caller that read the clock before another may take the lock after it: the
\* elapsed time is then negative and both fields move back.
Refill(b, now) ==
    LET t == b.tokens + (now - b.lastFill) * limits.perMin
        full == limits.perMin * Minute
    IN  [tokens |-> IF t > full THEN full ELSE t, lastFill |-> now]

\* bucket.allow: 429 when there is no whole token.
AllowIngest(c) ==
    LET a == call[c].addr
        b == Refill(bucket[a], call[c].now)
        ok == b.tokens >= Minute
    IN  /\ call[c].pc = "allow"
        /\ bucket' = [bucket EXCEPT ![a] = IF ok THEN [b EXCEPT !.tokens = @ - Minute] ELSE b]
        /\ admits' = IF ok THEN [admits EXCEPT ![a] = @ + 1] ELSE admits
        /\ call' = [call EXCEPT ![c].pc = IF ok THEN "slot" ELSE "idle"]
        /\ UNCHANGED <<limits, tick, sem, opened>>

\* Mutant: a refused request runs the release of its handler all the same.
TakeSlotReleases(c) ==
    /\ call[c].pc = "slot"
    /\ \/ /\ limits.maxConcurrent = 0 \/ sem < limits.maxConcurrent
          /\ sem' = IF limits.maxConcurrent = 0 THEN sem ELSE sem + 1
          /\ call' = [call EXCEPT ![c].pc = "serve"]
       \/ /\ limits.maxConcurrent > 0
          /\ sem' = IF sem > 0 THEN sem - 1 ELSE 0
          /\ call' = [call EXCEPT ![c].pc = "idle"]
    /\ UNCHANGED <<limits, tick, bucket, admits, opened>>

(* The semaphore never blocks: a full one is 503, and a request whose      *)
(* context has ended may be refused although there is a slot. The token is *)
(* not given back.                                                         *)
TakeSlot(c) ==
    /\ call[c].pc = "slot"
    /\ \/ /\ limits.maxConcurrent = 0 \/ sem < limits.maxConcurrent
          /\ sem' = IF limits.maxConcurrent = 0 THEN sem ELSE sem + 1
          /\ call' = [call EXCEPT ![c].pc = "serve"]
       \/ /\ limits.maxConcurrent > 0
          /\ call' = [call EXCEPT ![c].pc = "idle"]
          /\ UNCHANGED sem
    /\ UNCHANGED <<limits, tick, bucket, admits, opened>>

\* The handler returns, by whichever path: the deferred release runs.
FinishIngest(c) ==
    /\ call[c].pc = "serve"
    /\ sem' = IF limits.maxConcurrent = 0 THEN sem ELSE sem - 1
    /\ call' = [call EXCEPT ![c].pc = "idle"]
    /\ UNCHANGED <<limits, tick, bucket, admits, opened>>

LimitsNext ==
    \/ TickLimits
    \/ \E c \in IngestCalls : StartIngest(c) \/ AllowIngest(c) \/ TakeSlot(c) \/ FinishIngest(c)

LimitsSpec == LimitsInit /\ [][LimitsNext]_limitsVars

-----------------------------------------------------------------------------
(* However the callers of one address interleave between reading the clock *)
(* and taking the bucket's lock, the bucket lets pass at most its capacity *)
(* and what was earned since it was made; and the semaphore counts exactly *)
(* the handlers that run, never more than its size.                        *)
AdmissionBounded ==
    /\ \A a \in Addrs : opened[a] # -1 =>
          admits[a] * Minute <= limits.perMin * (Minute + (tick - opened[a]))
    /\ limits.maxConcurrent > 0 =>
          /\ sem = Cardinality({c \in IngestCalls : call[c].pc = "serve"})
          /\ sem <= limits.maxConcurrent
=============================================================================
