----------------------------- MODULE UserLimits -----------------------------
(***************************************************************************)
(* The per-user limiter of the request endpoints: UserLimiter of           *)
(* internal/ratelimit with its garbage collector, and checkUserRate, which *)
(* hands it the rate of the current policy on every call. One user; time   *)
(* is in ticks, tokens are counted in 1/Per of a token.                    *)
(***************************************************************************)
EXTENDS Integers, Sequences, FiniteSets

CONSTANTS SubmitCalls,   \* handler goroutines of the user
          Rates,         \* counts per_user_rate_limit may name; 0 is unset or malformed
          MaxRate,       \* the largest of them
          Per,           \* ticks of its unit
          MaxAge,        \* age after which StartGC evicts a bucket
          MaxHold,       \* ticks one call of Allow may take
          MaxTime,       \* bound: ticks
          MaxBuckets     \* bound: buckets made for the user

ASSUME UserLimitsAssumption ==
    /\ IsFiniteSet(SubmitCalls) /\ MaxRate \in Rates /\ Rates \subseteq 0..MaxRate /\ MaxRate \in Nat
    /\ Per \in Nat \ {0} /\ MaxHold \in Nat /\ MaxTime \in Nat /\ MaxBuckets \in Nat
    /\ MaxAge \in Nat /\ MaxAge >= Per + 2 * MaxHold   \* 2h against at most an hour

VARIABLES
    rate,       \* the rate in the policy snapshot
    time,
    heap,       \* the buckets made so far
    live,       \* the one in the map, 0 for none
    sub,        \* goroutine -> pc, its rate and time, the bucket it looked up
    passed,     \* history: requests let pass by a bucket that was in the map
    lent        \* history: tokens taken by callers whose stamp the eviction did not wait for

userVars == <<rate, time, heap, live, sub, passed, lent>>

IdleSub == [pc |-> "idle", count |-> 0, now |-> 0, b |-> 0]

UserInit ==
    /\ rate \in Rates
    /\ time = 0 /\ heap = <<>> /\ live = 0
    /\ sub = [c \in SubmitCalls |-> IdleSub]
    /\ passed = 0 /\ lent = 0

-----------------------------------------------------------------------------
TickUser ==
    /\ time < MaxTime
    /\ \A c \in SubmitCalls : sub[c].pc # "idle" => time < sub[c].now + MaxHold
    /\ time' = time + 1
    /\ UNCHANGED <<rate, heap, live, sub, passed, lent>>

\* A reloaded policy names another rate; the buckets stay.
ReloadRate ==
    /\ rate' \in Rates \ {rate}
    /\ UNCHANGED <<time, heap, live, sub, passed, lent>>

\* checkUserRate parses the rate, Allow reads the clock; no rate, no limit.
StartSubmit(c) ==
    /\ sub[c].pc = "idle" /\ rate # 0
    /\ sub' = [sub EXCEPT ![c] = [pc |-> "get", count |-> rate, now |-> time, b |-> 0]]
    /\ UNCHANGED <<rate, time, heap, live, passed, lent>>

\* Under the map's lock: the user's bucket, or a full new one.
GetBucket(c) ==
    LET s == sub[c]
    IN  /\ s.pc = "get"
        /\ live # 0 \/ Len(heap) < MaxBuckets
        /\ IF live = 0
           THEN /\ heap' = Append(heap, [tokens |-> s.count * Per, lastFill |-> s.now,
                                         lastSeen |-> s.now])
                /\ live' = Len(heap) + 1
           ELSE UNCHANGED <<heap, live>>
        /\ sub' = [sub EXCEPT ![c].pc = "consume", ![c].b = live']
        /\ UNCHANGED <<rate, time, passed, lent>>

\* consume credits only time that has passed, up to the count of this call.
Credit(b, now, count) ==
    LET earned == b.tokens + (now - b.lastFill) * count
        full == count * Per
    IN  IF now > b.lastFill
        THEN [b EXCEPT !.tokens = IF earned > full THEN full ELSE earned, !.lastFill = now]
        ELSE b

\* Under the bucket's lock. A refusal is answered 429.
Consume(c) ==
    LET s == sub[c]
        b == Credit(heap[s.b], s.now, s.count)
        ok == b.tokens >= Per
    IN  /\ s.pc = "consume"
        /\ heap' = [heap EXCEPT ![s.b] = IF ok THEN [b EXCEPT !.tokens = @ - Per] ELSE b]
        /\ passed' = IF ok /\ s.b = live THEN passed + 1 ELSE passed
        /\ sub' = [sub EXCEPT ![c].pc = "stamp"]
        /\ UNCHANGED <<rate, time, live, lent>>

\* Mutant: the stamp is made only when the bucket is new.
StampNothing(c) ==
    /\ sub[c].pc = "stamp"
    /\ sub' = [sub EXCEPT ![c] = IdleSub]
    /\ UNCHANGED <<rate, time, heap, live, passed, lent>>

\* The lock is taken a second time to stamp lastSeen, by a time that may be old.
StampSeen(c) ==
    /\ sub[c].pc = "stamp"
    /\ heap' = [heap EXCEPT ![sub[c].b].lastSeen = sub[c].now]
    /\ sub' = [sub EXCEPT ![c] = IdleSub]
    /\ UNCHANGED <<rate, time, live, passed, lent>>

\* A tick of StartGC; callers may still hold the bucket it evicts.
GCStaleBuckets ==
    /\ live # 0 /\ heap[live].lastSeen < time - MaxAge
    /\ live' = 0
    /\ lent' = lent + Cardinality({c \in SubmitCalls : sub[c].pc = "stamp" /\ sub[c].b = live})
    /\ UNCHANGED <<rate, time, heap, sub, passed>>

UserNext ==
    \/ TickUser \/ ReloadRate \/ GCStaleBuckets
    \/ \E c \in SubmitCalls : StartSubmit(c) \/ GetBucket(c) \/ Consume(c) \/ StampSeen(c)

UserSpec == UserInit /\ [][UserNext]_userVars

-----------------------------------------------------------------------------
(* Evicting idle buckets and changing the rate between calls lend a user   *)
(* next to nothing: what the buckets in the map let pass stays within the  *)
(* largest burst and what the largest rate earned meanwhile, but for the   *)
(* callers that had taken a token and not yet stamped lastSeen when the    *)
(* collector looked at it.                                                 *)
UserRateBounded ==
    (passed - lent) * Per <= MaxRate * (Per + time)
=============================================================================
