---------------------------- MODULE Maintainers -----------------------------
(***************************************************************************)
(* Module maintainers: the table, the grant and revoke handlers, and the   *)
(* verdict cache of policy.Evaluator, whose lookup, table read and store   *)
(* are three steps. A key is an (email, module) pair.                      *)
(***************************************************************************)
EXTENDS Naturals, Sequences, FiniteSets

CONSTANTS Grants,       \* keys
          Askers,       \* callers of AllowFor for a maintainer gate
          CacheTTL, CacheMax,
          ReadHold,     \* ticks between a caller's table read and its store
          MaxNow        \* bound: ticks

ASSUME MaintainersAssumption ==
    /\ IsFiniteSet(Grants) /\ IsFiniteSet(Askers)
    /\ CacheTTL \in Nat \ {0} /\ CacheMax \in Nat \ {0}
    /\ ReadHold \in Nat /\ MaxNow \in Nat

VARIABLES
    granted,    \* module_maintainers
    verdicts,   \* the LRU list, newest first: key, verdict, expires
    asker,      \* caller -> pc, key, what it read and when
    mnow,
    changed     \* history: key -> when its row last came or went

maintVars == <<granted, verdicts, asker, mnow, changed>>

IdleAsker(k) == [pc |-> "idle", key |-> k, got |-> FALSE, at |-> 0]

MaintInit ==
    /\ granted \in SUBSET Grants
    /\ verdicts = <<>> /\ mnow = 0
    /\ \E k \in Grants : asker = [a \in Askers |-> IdleAsker(k)]
    /\ changed = [k \in Grants |-> 0]

-----------------------------------------------------------------------------
TickMaint ==
    /\ mnow < MaxNow
    /\ \A a \in Askers : asker[a].pc = "store" => mnow < asker[a].at + ReadHold
    /\ mnow' = mnow + 1
    /\ UNCHANGED <<granted, verdicts, asker, changed>>

\* apiGrantMaintainer: INSERT OR IGNORE; the audit row that follows is best effort.
GrantMaintainer(k) ==
    /\ granted' = granted \cup {k}
    /\ changed' = IF k \in granted THEN changed ELSE [changed EXCEPT ![k] = mnow]
    /\ UNCHANGED <<verdicts, asker, mnow>>

\* apiRevokeMaintainer: removing what is not there is no error.
RevokeMaintainer(k) ==
    /\ granted' = granted \ {k}
    /\ changed' = IF k \in granted THEN [changed EXCEPT ![k] = mnow] ELSE changed
    /\ UNCHANGED <<verdicts, asker, mnow>>

\* The index beside the list: where the entry of a key is, and the list without it.
Places(k) == {i \in 1..Len(verdicts) : verdicts[i].key = k}
Cached(k) == Places(k) # {}
PlaceOf(k) == CHOOSE i \in Places(k) : TRUE
EntryOf(k) == verdicts[PlaceOf(k)]
Without(k) ==
    IF ~Cached(k) THEN verdicts
    ELSE SubSeq(verdicts, 1, PlaceOf(k) - 1) \o SubSeq(verdicts, PlaceOf(k) + 1, Len(verdicts))

InvalidateMaintainer(k) ==
    /\ Cached(k)
    /\ verdicts' = Without(k)
    /\ UNCHANGED <<granted, asker, mnow, changed>>

\* Mutant: a hit renews the entry.
TouchRenews(e) == [e EXCEPT !.expires = mnow + CacheTTL]

\* A hit moves its entry to the front and leaves its expiry alone.
Touch(e) == e

\* lookupCache: a hit answers, an expired entry is removed.
LookupVerdict(a, k) ==
    /\ asker[a].pc = "idle"
    /\ \/ /\ Cached(k) /\ mnow <= EntryOf(k).expires
          /\ verdicts' = <<Touch(EntryOf(k))>> \o Without(k)
          /\ UNCHANGED asker
       \/ /\ ~(Cached(k) /\ mnow <= EntryOf(k).expires)
          /\ verdicts' = Without(k)
          /\ asker' = [asker EXCEPT ![a] = [IdleAsker(k) EXCEPT !.pc = "read"]]
    /\ UNCHANGED <<granted, mnow, changed>>

\* IsMaintainer; a failed read denies and is not cached.
ReadTable(a) ==
    /\ asker[a].pc = "read"
    /\ \/ asker' = [asker EXCEPT ![a].pc = "store", ![a].got = asker[a].key \in granted,
                                 ![a].at = mnow]
       \/ asker' = [asker EXCEPT ![a].pc = "idle"]
    /\ UNCHANGED <<granted, verdicts, mnow, changed>>

\* storeCache: newest first, the oldest beyond CacheMax dropped.
StoreVerdict(a) ==
    LET k == asker[a].key
        new == <<[key |-> k, verdict |-> asker[a].got, expires |-> mnow + CacheTTL]>> \o Without(k)
    IN  /\ asker[a].pc = "store"
        /\ verdicts' = SubSeq(new, 1, IF Len(new) > CacheMax THEN CacheMax ELSE Len(new))
        /\ asker' = [asker EXCEPT ![a] = IdleAsker(k)]
        /\ UNCHANGED <<granted, mnow, changed>>

MaintNext ==
    \/ TickMaint
    \/ \E k \in Grants : GrantMaintainer(k) \/ RevokeMaintainer(k) \/ InvalidateMaintainer(k)
    \/ \E a \in Askers : (\E k \in Grants : LookupVerdict(a, k)) \/ ReadTable(a) \/ StoreVerdict(a)

MaintSpec == MaintInit /\ [][MaintNext]_maintVars

-----------------------------------------------------------------------------
(* A verdict the cache would still give out may contradict the table, also *)
(* after InvalidateMaintainer, when a caller that read before the change   *)
(* stores after it; but never longer after the change than the TTL and the *)
(* time between that read and its store.                                   *)
StaleVerdictBounded ==
    \A i \in 1..Len(verdicts) :
        (mnow <= verdicts[i].expires /\ verdicts[i].verdict # (verdicts[i].key \in granted))
            => mnow <= changed[verdicts[i].key] + ReadHold + CacheTTL
=============================================================================
