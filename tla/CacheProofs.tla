----------------------------- MODULE CacheProofs ----------------------------
(***************************************************************************)
(* Proofs about the two caches that keep an LRU list, the responses of the *)
(* cascade and the maintainer verdicts of the policy, for any capacity and *)
(* TTL and any number of callers: no answer of the cascade is older than   *)
(* the TTL and a probe, "not found" is said only after everyone has been   *)
(* heard, the response cache is a map within its capacity, and a verdict   *)
(* contradicts the table only for a bounded time.                          *)
(***************************************************************************)
EXTENDS Cascade, Maintainers, SequenceTheorems, TLAPS

ProbeRec == [pc : {"off", "start", "flight", "body", "sent", "taken"}, until : Nat, body : Nat,
             status : {"none", "ok", "404", "err"}, age : Nat]
GetRec == [pc : {"new", "tally", "done"}, path : Paths \cup {"none"},
           res : {"none", "local", "fault", "ok", "404", "unavailable"}]
CacheEntry == [key : Key, body : Nat, expires : Nat]

CascadeTypes ==
    /\ now \in Nat
    /\ get \in [Gets -> GetRec]
    /\ probe \in [Gets -> [Upstreams -> ProbeRec]]
    /\ cache \in Seq(CacheEntry)

-----------------------------------------------------------------------------
(***************************************************************************)
(* The list of the response cache                                          *)
(***************************************************************************)
(* Removing one element of a list keeps the others, in their order.        *)
LEMMA RemoveElement ==
    ASSUME NEW S, NEW s \in Seq(S), NEW i \in 1..Len(s)
    PROVE  LET r == SubSeq(s, 1, i - 1) \o SubSeq(s, i + 1, Len(s))
           IN  /\ r \in Seq(S) /\ Len(r) = Len(s) - 1
               /\ \A j \in 1..Len(r) : r[j] = IF j < i THEN s[j] ELSE s[j + 1]
<1> DEFINE a == SubSeq(s, 1, i - 1)
           b == SubSeq(s, i + 1, Len(s))
<1>0. Len(s) \in Nat /\ \A j \in 1..Len(s) : s[j] \in S
  BY LenProperties, ElementOfSeq
<1>1. a \in Seq(S) /\ Len(a) = i - 1 /\ \A j \in 1..(i - 1) : a[j] = s[j]
  BY <1>0, SubSeqProperties
<1>2. b \in Seq(S) /\ Len(b) = Len(s) - i /\ \A j \in 1..(Len(s) - i) : b[j] = s[j + i]
  BY <1>0, SubSeqProperties
<1> HIDE DEF a, b
<1>3. /\ a \o b \in Seq(S) /\ Len(a \o b) = Len(a) + Len(b)
      /\ \A j \in 1..(Len(a) + Len(b)) : (a \o b)[j] = IF j <= Len(a) THEN a[j] ELSE b[j - Len(a)]
  BY <1>1, <1>2, ConcatProperties
<1>4. Len(a \o b) = Len(s) - 1
  BY <1>0, <1>1, <1>2, <1>3
<1>5. ASSUME NEW j \in 1..Len(a \o b) PROVE (a \o b)[j] = IF j < i THEN s[j] ELSE s[j + 1]
  <2>1. j \in 1..(Len(a) + Len(b)) /\ j \in Nat /\ i \in Nat
    BY <1>0, <1>1, <1>2, <1>3
  <2>2. CASE j < i
    <3>1. j <= Len(a) /\ j \in 1..(i - 1)
      BY <2>1, <2>2, <1>1
    <3> QED BY <2>1, <2>2, <3>1, <1>1, <1>3
  <2>3. CASE ~(j < i)
    <3>1. ~(j <= Len(a)) /\ j - Len(a) \in 1..(Len(s) - i) /\ (j - Len(a)) + i = j + 1
      BY <2>1, <2>3, <1>0, <1>1, <1>2, <1>4
    <3>2. (a \o b)[j] = b[j - Len(a)]
      BY <2>1, <3>1, <1>3
    <3>3. b[j - Len(a)] = s[(j - Len(a)) + i]
      BY <3>1, <1>2
    <3> QED BY <2>3, <3>1, <3>2, <3>3
  <2> QED BY <2>2, <2>3
<1> QED BY <1>3, <1>4, <1>5 DEF a, b

(* Pushing an element to the front moves the others back by one.           *)
LEMMA PushFront ==
    ASSUME NEW S, NEW s \in Seq(S), NEW e \in S
    PROVE  LET r == <<e>> \o s
           IN  /\ r \in Seq(S) /\ Len(r) = Len(s) + 1 /\ r[1] = e
               /\ \A j \in 2..Len(r) : r[j] = s[j - 1]
<1>1. <<e>> \in Seq(S) /\ Len(<<e>>) = 1 /\ <<e>>[1] = e /\ Len(s) \in Nat
  BY LenProperties
<1> DEFINE x == <<e>>
<1> HIDE DEF x
<1>2. /\ x \o s \in Seq(S) /\ Len(x \o s) = Len(x) + Len(s)
      /\ \A j \in 1..(Len(x) + Len(s)) : (x \o s)[j] = IF j <= Len(x) THEN x[j] ELSE s[j - Len(x)]
  BY <1>1, ConcatProperties DEF x
<1> QED BY <1>1, <1>2 DEF x
\* Every key once, as in the map beside the list; and no more than Capacity.
KeysUnique(s) == \A i, j \in 1..Len(s) : s[i].key = s[j].key => i = j
CacheBounded == Len(cache) <= Capacity /\ KeysUnique(cache)

(* What is left of the list without the element of a key.                  *)
LEMMA OthersLeft ==
    ASSUME NEW k, cache \in Seq(CacheEntry)
    PROVE  /\ OthersThan(k) \in Seq(CacheEntry)
           /\ Entries(k) = {} => OthersThan(k) = cache
           /\ Entries(k) # {} => Len(OthersThan(k)) = Len(cache) - 1
           /\ \A j \in 1..Len(OthersThan(k)) : \E i \in 1..Len(cache) : OthersThan(k)[j] = cache[i]
           /\ KeysUnique(cache) => /\ KeysUnique(OthersThan(k))
                                   /\ \A j \in 1..Len(OthersThan(k)) : OthersThan(k)[j].key # k
<1>0. Len(cache) \in Nat
  BY LenProperties
<1>1. CASE Entries(k) = {}
  <2>1. OthersThan(k) = cache
    BY <1>1 DEF OthersThan
  <2> QED BY <1>1, <2>1 DEF Entries
<1>2. CASE Entries(k) # {}
  <2> DEFINE e == Element(k)
             r == OthersThan(k)
  <2>1. e \in 1..Len(cache) /\ cache[e].key = k
    BY <1>2 DEF Element, Entries
  <2>2. r = SubSeq(cache, 1, e - 1) \o SubSeq(cache, e + 1, Len(cache))
    BY <1>2 DEF OthersThan
  <2> HIDE DEF e, r
  <2>3. /\ r \in Seq(CacheEntry) /\ Len(r) = Len(cache) - 1
        /\ \A j \in 1..Len(r) : r[j] = IF j < e THEN cache[j] ELSE cache[j + 1]
    BY <2>1, <2>2, RemoveElement
  <2> DEFINE at(j) == IF j < e THEN j ELSE j + 1
  <2>4. \A j \in 1..Len(r) : at(j) \in 1..Len(cache) /\ r[j] = cache[at(j)] /\ at(j) # e
    BY <2>1, <2>3, <1>0
  <2>5. \A i, j \in 1..Len(r) : at(i) = at(j) => i = j
    BY <2>1, <2>3, <1>0
  <2> HIDE DEF at
  <2>6. \A j \in 1..Len(r) : \E i \in 1..Len(cache) : r[j] = cache[i]
    BY <2>4
  <2>7. ASSUME KeysUnique(cache) PROVE KeysUnique(r) /\ \A j \in 1..Len(r) : r[j].key # k
    BY <2>7, <2>1, <2>4, <2>5 DEF KeysUnique
  <2> QED BY <1>2, <2>3, <2>6, <2>7 DEF r
<1> QED BY <1>1, <1>2

(* A new front element of a key that is not in the rest.                   *)
LEMMA FrontUnique ==
    ASSUME NEW s \in Seq(CacheEntry), NEW e \in CacheEntry, KeysUnique(s),
           \A j \in 1..Len(s) : s[j].key # e.key
    PROVE  KeysUnique(<<e>> \o s)
<1> DEFINE r == <<e>> \o s
<1>1. /\ Len(r) = Len(s) + 1 /\ r[1] = e /\ \A j \in 2..Len(r) : r[j] = s[j - 1]
  BY PushFront
<1>2. Len(s) \in Nat
  BY LenProperties
<1> HIDE DEF r
<1> SUFFICES ASSUME NEW i \in 1..Len(r), NEW j \in 1..Len(r), r[i].key = r[j].key PROVE i = j
  BY DEF KeysUnique, r
<1>3. CASE i = 1 /\ j # 1
  <2>1. j \in 2..Len(r) /\ j - 1 \in 1..Len(s)
    BY <1>3, <1>1, <1>2
  <2> QED BY <2>1, <1>1, <1>3
<1>4. CASE i # 1 /\ j = 1
  <2>1. i \in 2..Len(r) /\ i - 1 \in 1..Len(s)
    BY <1>4, <1>1, <1>2
  <2> QED BY <2>1, <1>1, <1>4
<1>5. CASE i # 1 /\ j # 1
  <2>1. i \in 2..Len(r) /\ i - 1 \in 1..Len(s) /\ j \in 2..Len(r) /\ j - 1 \in 1..Len(s)
    BY <1>5, <1>1, <1>2
  <2>2. i - 1 = j - 1
    BY <2>1, <1>1 DEF KeysUnique
  <2> QED BY <2>1, <2>2
<1> QED BY <1>3, <1>4, <1>5
\* Nothing in the cache outlives the TTL by more than a probe.
Young(e) == e.body <= now /\ e.expires <= e.body + TTL + ProbeTimeout
CacheYoung == \A i \in 1..Len(cache) : Young(cache[i])
CacheInv == cache \in Seq(CacheEntry) /\ CacheYoung /\ CacheBounded

(* Get and Put keep the cache a bounded map of young entries.              *)
LEMMA CacheStep ==
    ASSUME now \in Nat, CacheInv, NEW k \in Key, UNCHANGED now
    PROVE  /\ Hit(k) => Entry(k) \in CacheEntry /\ Young(Entry(k)) /\ now <= Entry(k).expires
           /\ Hit(k) /\ MoveToFront(k) => CacheInv'
           /\ Evict(k) => CacheInv'
           /\ \A b \in Nat : b <= now /\ now <= b + ProbeTimeout /\ Put(k, b) => CacheInv'
<1> DEFINE r == OthersThan(k)
<1>n. Len(cache) \in Nat /\ Capacity \in Nat \ {0} /\ TTL \in Nat /\ ProbeTimeout \in Nat
  BY LenProperties, CascadeAssumption DEF CacheInv
<1>o. /\ r \in Seq(CacheEntry)
      /\ Entries(k) = {} => r = cache
      /\ Entries(k) # {} => Len(r) = Len(cache) - 1
      /\ \A j \in 1..Len(r) : \E i \in 1..Len(cache) : r[j] = cache[i]
      /\ KeysUnique(r) /\ \A j \in 1..Len(r) : r[j].key # k
  BY OthersLeft DEF CacheInv, CacheBounded
<1>y. \A j \in 1..Len(r) : Young(r[j])
  BY <1>o DEF CacheInv, CacheYoung
<1>l. Len(r) \in Nat /\ Len(r) <= Len(cache) /\ Len(cache) <= Capacity
  BY <1>o, <1>n, LenProperties DEF CacheInv, CacheBounded
<1> HIDE DEF r
<1>e. ASSUME Entries(k) # {} PROVE Entry(k) \in CacheEntry /\ Young(Entry(k)) /\ Entry(k).key = k
  <2>1. Element(k) \in 1..Len(cache) /\ cache[Element(k)].key = k
    BY <1>e DEF Element, Entries
  <2> QED BY <2>1, ElementOfSeq DEF Entry, CacheInv, CacheYoung
\* A young entry of k in front of what is left of the others.
<1>f. ASSUME NEW e \in CacheEntry, Young(e), e.key = k, NEW s \in Seq(CacheEntry),
             Len(s) + 1 <= Capacity, KeysUnique(s),
             \A j \in 1..Len(s) : Young(s[j]) /\ s[j].key # k,
             cache' = <<e>> \o s
      PROVE  CacheInv'
  <2>1. cache' \in Seq(CacheEntry) /\ Len(cache') = Len(s) + 1 /\ cache'[1] = e
        /\ \A j \in 2..Len(cache') : cache'[j] = s[j - 1]
    BY <1>f, PushFront
  <2>2. KeysUnique(cache')
    BY <1>f, FrontUnique
  <2>3. Len(s) \in Nat
    BY LenProperties
  <2>4. ASSUME NEW i \in 1..Len(cache') PROVE Young(cache'[i])
    <3>1. CASE i = 1
      BY <3>1, <2>1, <1>f
    <3>2. CASE i # 1
      <4>1. i \in 2..Len(cache') /\ i - 1 \in 1..Len(s)
        BY <3>2, <2>1, <2>3
      <4> QED BY <4>1, <2>1, <1>f
    <3> QED BY <3>1, <3>2
  <2>5. CacheYoung'
    BY <2>4 DEF CacheYoung, Young
  <2>6. CacheBounded'
    BY <2>1, <2>2, <1>f DEF CacheBounded
  <2> QED BY <2>1, <2>5, <2>6 DEF CacheInv
<1>1. Hit(k) => Entry(k) \in CacheEntry /\ Young(Entry(k)) /\ now <= Entry(k).expires
  BY <1>e DEF Hit
<1>2. ASSUME Hit(k), MoveToFront(k) PROVE CacheInv'
  BY <1>2, <1>e, <1>f, <1>o, <1>y, <1>l, <1>n DEF Hit, MoveToFront, r
<1>3. ASSUME Evict(k) PROVE CacheInv'
  <2>1. cache' = r
    BY <1>3 DEF Evict, r
  <2>2. CacheYoung'
    BY <2>1, <1>y DEF CacheYoung, Young
  <2>3. CacheBounded'
    <3>1. Len(r) <= Capacity
      BY <1>l, <1>n
    <3> QED BY <2>1, <3>1, <1>o DEF CacheBounded, KeysUnique
  <2> QED BY <2>1, <2>2, <2>3, <1>o DEF CacheInv
<1>4. ASSUME NEW b \in Nat, b <= now, now <= b + ProbeTimeout, Put(k, b) PROVE CacheInv'
  <2> DEFINE e == [key |-> k, body |-> b, expires |-> now + TTL]
             s == IF Entries(k) = {} /\ Len(r) >= Capacity THEN SubSeq(r, 1, Capacity - 1) ELSE r
  <2>1. e \in CacheEntry /\ Young(e) /\ e.key = k
    BY <1>4, <1>n DEF CacheEntry, Young
  <2>2. cache' = <<e>> \o s
    BY <1>4 DEF Put, r
  <2>3. /\ s \in Seq(CacheEntry) /\ Len(s) + 1 <= Capacity /\ KeysUnique(s)
        /\ \A j \in 1..Len(s) : Young(s[j]) /\ s[j].key # k
    <3>1. CASE Entries(k) = {} /\ Len(r) >= Capacity
      <4>1. s = SubSeq(r, 1, Capacity - 1)
        BY <3>1
      <4>2. \A i \in 1..(Capacity - 1) : r[i] \in CacheEntry
        BY <3>1, <1>n, <1>l, <1>o, ElementOfSeq
      <4>3. s \in Seq(CacheEntry) /\ Len(s) = Capacity - 1 /\ \A i \in 1..(Capacity - 1) : s[i] = r[i]
        <5> HIDE DEF s
        <5> QED BY <4>1, <4>2, <1>n, <1>o, <3>1, SubSeqProperties
      <4> HIDE DEF s
      <4>4. \A i \in 1..Len(s) : i \in 1..Len(r) /\ s[i] = r[i]
        BY <4>3, <3>1, <1>n, <1>l
      <4>5. KeysUnique(s)
        BY <4>4, <1>o DEF KeysUnique
      <4>6. Len(s) + 1 <= Capacity
        BY <4>3, <1>n
      <4> QED BY <4>3, <4>4, <4>5, <4>6, <1>o, <1>y
    <3>2. CASE Entries(k) = {} /\ ~(Len(r) >= Capacity)
      BY <3>2, <1>o, <1>y, <1>n, <1>l
    <3>3. CASE Entries(k) # {}
      BY <3>3, <1>o, <1>y, <1>n, <1>l
    <3> QED BY <3>1, <3>2, <3>3
  <2> HIDE DEF e, s
  <2> QED BY <2>1, <2>2, <2>3, <1>f
<1> QED BY <1>1, <1>2, <1>3, <1>4
-----------------------------------------------------------------------------
(***************************************************************************)
(* The inductive invariant of the cascade                                  *)
(***************************************************************************)
\* A probe in flight is within its deadline, and what it reads is no older
\* than the probe.
ProbesYoung ==
    \A g \in Gets, u \in Upstreams :
        /\ probe[g][u].pc \in {"flight", "body"} => now <= probe[g][u].until
        /\ probe[g][u].pc = "flight" => probe[g][u].until <= now + ProbeTimeout
        /\ probe[g][u].pc = "body" => /\ probe[g][u].body <= now
                                      /\ probe[g][u].until <= probe[g][u].body + ProbeTimeout

\* A GET still waiting has heard no success; one that said "not found" has
\* taken every result.
AnswersHeard ==
    \A g \in Gets :
        /\ get[g].pc = "tally" => \A u \in Upstreams : probe[g][u].pc = "taken" => probe[g][u].status # "ok"
        /\ get[g].pc # "done" => get[g].res = "none"
        /\ get[g].res = "404" => \A u \in Upstreams : probe[g][u].pc = "taken" /\ probe[g][u].status # "ok"

\* Probes run only for a GET that has asked for a path.
Launched ==
    \A g \in Gets :
        /\ get[g].pc = "new" => \A u \in Upstreams : probe[g][u].pc = "off"
        /\ get[g].pc # "new" => get[g].path \in Paths

CascadeInv == CascadeTypes /\ CacheInv /\ ProbesYoung /\ Launched /\ AnswersHeard /\ FreshEnough

(* No GET, an empty cache.                                                 *)
LEMMA CascadeInitInv == CascadeInit => CascadeInv
<1> SUFFICES ASSUME CascadeInit PROVE CascadeInv
  OBVIOUS
<1> USE CascadeAssumption
<1>1. CascadeTypes
  BY DEF CascadeInit, CascadeTypes, NoProbe, ProbeRec, GetRec
<1>2. CacheInv
  BY DEF CascadeInit, CacheInv, CacheYoung, CacheBounded, KeysUnique
<1>3. ProbesYoung /\ Launched /\ AnswersHeard /\ FreshEnough
  BY DEF CascadeInit, Launched, ProbesYoung, AnswersHeard, FreshEnough, NoProbe
<1> QED BY <1>1, <1>2, <1>3 DEF CascadeInv

(* Every step of a GET, a probe, an upstream and the clock preserves it.   *)
LEMMA CascadeStep == CascadeInv /\ [CascadeNext]_cascadeVars => CascadeInv'
<1> SUFFICES ASSUME CascadeInv, [CascadeNext]_cascadeVars PROVE CascadeInv'
  OBVIOUS
<1>n. now \in Nat /\ TTL \in Nat /\ ProbeTimeout \in Nat
  BY CascadeAssumption DEF CascadeInv, CascadeTypes
<1>t. get \in [Gets -> GetRec] /\ probe \in [Gets -> [Upstreams -> ProbeRec]] /\ CacheInv
  BY DEF CascadeInv, CascadeTypes
<1>i. ProbesYoung /\ Launched /\ AnswersHeard /\ FreshEnough
  BY DEF CascadeInv
<1>c. ASSUME UNCHANGED <<now, cache>> PROVE CacheInv'
  BY <1>c, <1>t DEF CacheInv, CacheYoung, Young, CacheBounded, KeysUnique
\* A step of one probe that its GET has not taken.
<1>p. ASSUME NEW g \in Gets, NEW u \in Upstreams, NEW r \in ProbeRec,
             probe' = [probe EXCEPT ![g][u] = r], UNCHANGED <<now, get>>, CacheInv',
             probe[g][u].pc \notin {"off", "taken"}, r.pc # "taken",
             r.pc \in {"flight", "body"} => now <= r.until,
             r.pc = "flight" => r.until <= now + ProbeTimeout,
             r.pc = "body" => r.body <= now /\ r.until <= r.body + ProbeTimeout,
             r.status = "ok" => r.age <= TTL + ProbeTimeout
      PROVE  CascadeInv'
  <2>1. \A h \in Gets, v \in Upstreams : probe'[h][v] = IF h = g /\ v = u THEN r ELSE probe[h][v]
    BY <1>p, <1>t
  <2>2. probe' \in [Gets -> [Upstreams -> ProbeRec]]
    BY <1>p, <1>t
  <2>3. CascadeTypes'
    BY <2>2, <1>p, <1>t, <1>n DEF CascadeTypes, CacheInv
  <2>4. ProbesYoung'
    BY <2>1, <1>p, <1>i DEF ProbesYoung
  <2>5. AnswersHeard' /\ Launched'
    BY <2>1, <1>p, <1>i DEF AnswersHeard, Launched
  <2>6. FreshEnough'
    BY <2>1, <1>p, <1>i DEF FreshEnough
  <2> QED BY <1>p, <2>3, <2>4, <2>5, <2>6 DEF CascadeInv
\* The two ways a probe reports.
<1>s. ASSUME NEW g \in Gets, NEW u \in Upstreams, NEW st \in {"ok", "404", "err"}, NEW a \in Nat,
             SendResult(g, u, st, a), UNCHANGED <<now, get>>, CacheInv',
             probe[g][u].pc \notin {"off", "taken"}, st = "ok" => a <= TTL + ProbeTimeout
      PROVE  CascadeInv'
  <2> DEFINE r == [NoProbe EXCEPT !.pc = "sent", !.status = st, !.age = a]
  <2>1. r \in ProbeRec /\ r.pc = "sent" /\ r.status = st /\ r.age = a
    BY <1>s DEF NoProbe, ProbeRec
  <2>2. probe' = [probe EXCEPT ![g][u] = r]
    BY <1>s DEF SendResult
  <2> HIDE DEF r
  <2> QED BY <1>s, <2>1, <2>2, <1>p
<1>1. CASE UNCHANGED cascadeVars
  BY <1>1, <1>c, <1>i, <1>t, <1>n DEF cascadeVars, CascadeInv, CascadeTypes, CacheInv, ProbesYoung,
     Launched, AnswersHeard, FreshEnough
<1>2. ASSUME NEW g \in Gets, NEW p \in Paths, CascadeGet(g, p) PROVE CascadeInv'
  <2>0. get[g].pc = "new" /\ UNCHANGED <<now, cache>>
    BY <1>2 DEF CascadeGet
  <2>1. ASSUME NEW r \in GetRec, get' = [get EXCEPT ![g] = r], r.res # "404",
               r.pc = "done", r.path \in Paths, UNCHANGED probe
        PROVE  CascadeInv'
    <3>1. CascadeTypes'
      BY <2>0, <2>1, <1>t, <1>n DEF CascadeTypes, CacheInv
    <3>2. AnswersHeard' /\ Launched'
      BY <2>1, <1>t, <1>i DEF AnswersHeard, Launched
    <3> QED BY <3>1, <3>2, <2>0, <2>1, <1>c, <1>i DEF CascadeInv, ProbesYoung, FreshEnough
  <2>2. CASE get' = [get EXCEPT ![g] = [pc |-> "done", path |-> p, res |-> "local"]] /\ UNCHANGED probe
    <3>1. [pc |-> "done", path |-> p, res |-> "local"] \in GetRec
      BY DEF GetRec
    <3> QED BY <2>1, <2>2, <3>1
  <2>3. CASE get' = [get EXCEPT ![g] = [pc |-> "done", path |-> p, res |-> "fault"]] /\ UNCHANGED probe
    <3>1. [pc |-> "done", path |-> p, res |-> "fault"] \in GetRec
      BY DEF GetRec
    <3> QED BY <2>1, <2>3, <3>1
  <2>4. CASE /\ get' = [get EXCEPT ![g] = [pc |-> "tally", path |-> p, res |-> "none"]]
             /\ probe' = [probe EXCEPT ![g] = [u \in Upstreams |-> [NoProbe EXCEPT !.pc = "start"]]]
    <3> DEFINE r == [NoProbe EXCEPT !.pc = "start"]
    <3>1. r \in ProbeRec /\ r.pc = "start" /\ r.status = "none"
      BY DEF NoProbe, ProbeRec
    <3>2. probe' = [probe EXCEPT ![g] = [u \in Upstreams |-> r]]
      BY <2>4
    <3> HIDE DEF r
    <3>3. \A h \in Gets, v \in Upstreams : probe'[h][v] = IF h = g THEN r ELSE probe[h][v]
      BY <3>2, <1>t
    <3>4. get' \in [Gets -> GetRec] /\ get'[g].pc = "tally" /\ get'[g].res = "none"
          /\ get'[g].path \in Paths /\ \A h \in Gets : h # g => get'[h] = get[h]
      BY <2>4, <1>t DEF GetRec
    <3>5. probe' \in [Gets -> [Upstreams -> ProbeRec]]
      BY <3>1, <3>2, <1>t
    <3>6. CascadeTypes'
      BY <3>4, <3>5, <2>0, <1>n, <1>t DEF CascadeTypes, CacheInv
    <3>7. ProbesYoung' /\ FreshEnough'
      BY <3>1, <3>3, <2>0, <1>i DEF ProbesYoung, FreshEnough
    <3>8. AnswersHeard' /\ Launched'
      BY <3>1, <3>3, <3>4, <1>i DEF AnswersHeard, Launched
    <3> QED BY <3>6, <3>7, <3>8, <2>0, <1>c DEF CascadeInv
  <2> QED BY <1>2, <2>2, <2>3, <2>4 DEF CascadeGet
\* The key a live probe asks the cache for.
<1>k. ASSUME NEW g \in Gets, NEW u \in Upstreams, probe[g][u].pc # "off" PROVE <<u, get[g].path>> \in Key
  BY <1>k, <1>i, <1>t DEF Launched, Key, GetRec
<1>3. ASSUME NEW g \in Gets, NEW u \in Upstreams, Lookup(g, u) PROVE CascadeInv'
  <2> DEFINE k == <<u, get[g].path>>
  <2>0. probe[g][u].pc = "start" /\ UNCHANGED <<now, get>> /\ probe[g][u] \in ProbeRec
    BY <1>3, <1>t DEF Lookup
  <2>k. k \in Key
    BY <2>0, <1>k
  <2>3. \/ Hit(k) /\ MoveToFront(k) /\ SendResult(g, u, "ok", now - Entry(k).body)
        \/ /\ Evict(k)
           /\ probe' = [probe EXCEPT ![g][u].pc = "flight", ![g][u].until = now + ProbeTimeout]
    BY <1>3 DEF Lookup
  <2> HIDE DEF k
  <2>1. CASE Hit(k) /\ MoveToFront(k) /\ SendResult(g, u, "ok", now - Entry(k).body)
    <3>1. Entry(k) \in CacheEntry /\ Young(Entry(k)) /\ now <= Entry(k).expires /\ CacheInv'
      BY <2>1, <2>0, <2>k, <1>n, <1>t, CacheStep
    <3>2. now - Entry(k).body \in Nat /\ now - Entry(k).body <= TTL + ProbeTimeout
      BY <3>1, <1>n DEF Young, CacheEntry
    <3> QED BY <2>0, <2>1, <3>1, <3>2, <1>s
  <2>2. CASE /\ Evict(k)
             /\ probe' = [probe EXCEPT ![g][u].pc = "flight", ![g][u].until = now + ProbeTimeout]
    <3> DEFINE r == [probe[g][u] EXCEPT !.pc = "flight", !.until = now + ProbeTimeout]
    <3>1. /\ r \in ProbeRec /\ r.pc = "flight" /\ r.until = now + ProbeTimeout
          /\ r.status = probe[g][u].status /\ r.age = probe[g][u].age
      <4>1. now + ProbeTimeout \in Nat
        BY <1>n
      <4> QED BY <2>0, <4>1 DEF ProbeRec
    <3>2. probe' = [probe EXCEPT ![g][u] = r]
      BY <2>2, <1>t
    <3>3. CacheInv'
      BY <2>2, <2>0, <2>k, <1>n, <1>t, CacheStep
    <3>4. r.status = "ok" => r.age <= TTL + ProbeTimeout
      BY <3>1, <1>i DEF FreshEnough
    <3>5. now <= r.until /\ r.until <= now + ProbeTimeout
      BY <3>1, <1>n
    <3>6. probe[g][u].pc \notin {"off", "taken"} /\ r.pc # "taken" /\ r.pc # "body"
      BY <2>0, <3>1
    <3> HIDE DEF r
    <3> QED BY <2>0, <3>1, <3>2, <3>3, <3>4, <3>5, <3>6, <1>p
  <2> QED BY <2>3, <2>1, <2>2
<1>4. ASSUME NEW g \in Gets, NEW u \in Upstreams, Respond(g, u) PROVE CascadeInv'
  <2>0. probe[g][u].pc = "flight" /\ UNCHANGED <<now, get, cache>> /\ probe[g][u] \in ProbeRec
    BY <1>4, <1>t DEF Respond
  <2>1. CASE probe' = [probe EXCEPT ![g][u].pc = "body", ![g][u].body = now]
    <3> DEFINE r == [probe[g][u] EXCEPT !.pc = "body", !.body = now]
    <3>1. /\ r \in ProbeRec /\ r.pc = "body" /\ r.until = probe[g][u].until /\ r.body = now
          /\ r.status = probe[g][u].status /\ r.age = probe[g][u].age
      BY <2>0, <1>n DEF ProbeRec
    <3>2. probe' = [probe EXCEPT ![g][u] = r]
      BY <2>1, <1>t
    <3>3. now <= r.until /\ r.until <= r.body + ProbeTimeout
      BY <2>0, <3>1, <1>i DEF ProbesYoung
    <3>4. r.status = "ok" => r.age <= TTL + ProbeTimeout
      BY <3>1, <1>i DEF FreshEnough
    <3>5. probe[g][u].pc \notin {"off", "taken"} /\ r.pc # "taken" /\ r.pc # "flight" /\ r.body <= now
      BY <2>0, <3>1, <1>n
    <3>6. CacheInv'
      BY <2>0, <1>c
    <3> HIDE DEF r
    <3> QED BY <2>0, <3>1, <3>2, <3>3, <3>4, <3>5, <3>6, <1>p
  <2>2. CASE SendResult(g, u, "404", 0)
    BY <2>0, <2>2, <1>s, <1>c
  <2>3. CASE SendResult(g, u, "err", 0)
    BY <2>0, <2>3, <1>s, <1>c
  <2> QED BY <1>4, <2>1, <2>2, <2>3 DEF Respond
<1>5. ASSUME NEW g \in Gets, NEW u \in Upstreams, Fill(g, u) PROVE CascadeInv'
  <2>0. probe[g][u].pc = "body" /\ UNCHANGED <<now, get>> /\ probe[g][u] \in ProbeRec
    BY <1>5, <1>t DEF Fill
  <2>k. <<u, get[g].path>> \in Key
    BY <2>0, <1>k
  <2>b. probe[g][u].body \in Nat /\ probe[g][u].until \in Nat
    BY <2>0 DEF ProbeRec
  <2>y. probe[g][u].body <= now /\ now <= probe[g][u].body + ProbeTimeout
    BY <2>0, <2>b, <1>n, <1>i DEF ProbesYoung
  <2>1. CASE Put(<<u, get[g].path>>, probe[g][u].body) /\ SendResult(g, u, "ok", now - probe[g][u].body)
    <3>1. CacheInv'
      BY <2>1, <2>0, <2>k, <2>b, <2>y, <1>n, <1>t, CacheStep
    <3>2. now - probe[g][u].body \in Nat /\ now - probe[g][u].body <= TTL + ProbeTimeout
      BY <2>b, <2>y, <1>n
    <3> QED BY <2>0, <2>1, <3>1, <3>2, <1>s
  <2>2. CASE UNCHANGED cache /\ SendResult(g, u, "err", 0)
    BY <2>0, <2>2, <1>s, <1>c
  <2> QED BY <1>5, <2>1, <2>2 DEF Fill
<1>6. ASSUME NEW g \in Gets, NEW u \in Upstreams, TimeOut(g, u) PROVE CascadeInv'
  <2>0. probe[g][u].pc \in {"flight", "body"} /\ UNCHANGED <<now, get, cache>> /\ SendResult(g, u, "err", 0)
    BY <1>6 DEF TimeOut, InFlight
  <2> QED BY <2>0, <1>s, <1>c
\* A result taken: the probe keeps its status.
<1>z. ASSUME NEW g \in Gets, NEW u \in Upstreams, TakeResult(g, u), probe[g][u].pc = "sent"
      PROVE  /\ probe' \in [Gets -> [Upstreams -> ProbeRec]]
             /\ probe'[g][u].pc = "taken" /\ probe'[g][u].status = probe[g][u].status /\ probe'[g][u].age = 0
             /\ \A h \in Gets, v \in Upstreams : h # g \/ v # u => probe'[h][v] = probe[h][v]
  <2> DEFINE r == [probe[g][u] EXCEPT !.pc = "taken", !.age = 0]
  <2>1. r \in ProbeRec /\ r.pc = "taken" /\ r.status = probe[g][u].status /\ r.age = 0
    <3>1. probe[g][u] \in ProbeRec
      BY <1>t
    <3> QED BY <3>1 DEF ProbeRec
  <2>2. probe' = [probe EXCEPT ![g][u] = r]
    BY <1>z, <1>t DEF TakeResult
  <2> HIDE DEF r
  <2> QED BY <2>1, <2>2, <1>t
<1>7. ASSUME NEW g \in Gets, NEW u \in Upstreams, Tally(g, u) PROVE CascadeInv'
  <2>0. /\ get[g].pc = "tally" /\ probe[g][u].pc = "sent" /\ TakeResult(g, u) /\ UNCHANGED <<now, cache>>
        /\ get[g] \in GetRec /\ get[g].res = "none"
    BY <1>7, <1>t, <1>i DEF Tally, AnswersHeard
  <2>z. /\ probe' \in [Gets -> [Upstreams -> ProbeRec]]
        /\ probe'[g][u].pc = "taken" /\ probe'[g][u].status = probe[g][u].status /\ probe'[g][u].age = 0
        /\ \A h \in Gets, v \in Upstreams : h # g \/ v # u => probe'[h][v] = probe[h][v]
    BY <2>0, <1>z
  <2>y. ProbesYoung' /\ FreshEnough'
    BY <2>0, <2>z, <1>i, <1>n DEF ProbesYoung, FreshEnough
  <2>1. ASSUME NEW res \in {"ok", "404", "unavailable"}, Return(g, res),
               res = "404" => Taken(g) \cup {u} = Upstreams /\ probe[g][u].status # "ok"
        PROVE  CascadeInv'
    <3>1. /\ get' \in [Gets -> GetRec] /\ get'[g].pc = "done" /\ get'[g].res = res
          /\ get'[g].path = get[g].path /\ \A h \in Gets : h # g => get'[h] = get[h]
      BY <2>1, <1>t DEF Return, GetRec
    <3>2. CascadeTypes'
      BY <3>1, <2>z, <2>0, <1>n, <1>t DEF CascadeTypes, CacheInv
    <3>3. Launched'
      <4>1. get[g].path \in Paths
        BY <2>0, <1>i DEF Launched
      <4>2. \A h \in Gets : h # g => \A v \in Upstreams : probe'[h][v] = probe[h][v]
        BY <2>z
      <4> QED BY <3>1, <4>1, <4>2, <1>i DEF Launched
    <3>4. res = "404" => \A v \in Upstreams : probe'[g][v].pc = "taken" /\ probe'[g][v].status # "ok"
      BY <2>0, <2>1, <2>z, <1>i DEF Taken, AnswersHeard
    <3>5. AnswersHeard'
      BY <3>1, <3>4, <2>z, <1>i DEF AnswersHeard
    <3> QED BY <3>2, <3>3, <3>5, <2>y, <2>0, <1>c DEF CascadeInv
  <2>2. CASE probe[g][u].status = "ok"
    BY <1>7, <2>1, <2>2 DEF Tally
  <2>3. CASE probe[g][u].status # "ok" /\ Verdict(g, u) # "none"
    <3>1. Verdict(g, u) \in {"404", "unavailable"} /\ Taken(g) \cup {u} = Upstreams
      BY <2>3 DEF Verdict
    <3> QED BY <1>7, <2>1, <2>3, <3>1 DEF Tally
  <2>4. CASE probe[g][u].status # "ok" /\ Verdict(g, u) = "none"
    <3>1. UNCHANGED get
      BY <1>7, <2>4 DEF Tally
    <3>2. CascadeTypes'
      BY <3>1, <2>z, <2>0, <1>n, <1>t DEF CascadeTypes, CacheInv
    <3>3. AnswersHeard' /\ Launched'
      BY <3>1, <2>0, <2>4, <2>z, <1>i DEF AnswersHeard, Launched
    <3> QED BY <3>2, <3>3, <2>y, <2>0, <1>c DEF CascadeInv
  <2> QED BY <2>2, <2>3, <2>4
<1>8. ASSUME NEW g \in Gets, NEW u \in Upstreams, Drain(g, u) PROVE CascadeInv'
  <2>0. get[g].pc = "done" /\ probe[g][u].pc = "sent" /\ TakeResult(g, u) /\ UNCHANGED <<now, cache, get>>
    BY <1>8 DEF Drain
  <2>z. /\ probe' \in [Gets -> [Upstreams -> ProbeRec]]
        /\ probe'[g][u].pc = "taken" /\ probe'[g][u].status = probe[g][u].status /\ probe'[g][u].age = 0
        /\ \A h \in Gets, v \in Upstreams : h # g \/ v # u => probe'[h][v] = probe[h][v]
    BY <2>0, <1>z
  <2>y. ProbesYoung' /\ FreshEnough'
    BY <2>0, <2>z, <1>i, <1>n DEF ProbesYoung, FreshEnough
  <2>2. CascadeTypes'
    BY <2>z, <2>0, <1>n, <1>t DEF CascadeTypes, CacheInv
  <2>3. AnswersHeard' /\ Launched'
    BY <2>0, <2>z, <1>i DEF AnswersHeard, Launched
  <2> QED BY <2>2, <2>3, <2>y, <2>0, <1>c DEF CascadeInv
<1>9. CASE Tick
  <2>1. now' = now + 1 /\ now' \in Nat /\ UNCHANGED <<get, probe, cache>>
    BY <1>9, <1>n DEF Tick
  <2>2. \A g \in Gets, u \in Upstreams : probe[g][u].pc \in {"flight", "body"} => now < probe[g][u].until
    BY <1>9 DEF Tick, InFlight
  <2>3. CascadeTypes' /\ AnswersHeard' /\ Launched' /\ FreshEnough'
    BY <2>1, <1>t, <1>i DEF CascadeTypes, CacheInv, AnswersHeard, Launched, FreshEnough
  <2>4. ProbesYoung'
    <3> SUFFICES ASSUME NEW g \in Gets, NEW u \in Upstreams
                 PROVE  /\ probe[g][u].pc \in {"flight", "body"} => now' <= probe[g][u].until
                        /\ probe[g][u].pc = "flight" => probe[g][u].until <= now' + ProbeTimeout
                        /\ probe[g][u].pc = "body" => /\ probe[g][u].body <= now'
                                                      /\ probe[g][u].until <= probe[g][u].body + ProbeTimeout
      BY <2>1 DEF ProbesYoung
    <3>1. probe[g][u].until \in Nat /\ probe[g][u].body \in Nat
      BY <1>t DEF ProbeRec
    <3> QED BY <3>1, <2>1, <2>2, <1>n, <1>i DEF ProbesYoung
  <2>5. CacheInv'
    <3>1. ASSUME NEW i \in 1..Len(cache) PROVE cache[i].body <= now'
                  /\ cache[i].expires <= cache[i].body + TTL + ProbeTimeout
      <4>1. cache[i] \in CacheEntry
        BY <1>t, ElementOfSeq DEF CacheInv
      <4>2. cache[i].body \in Nat /\ cache[i].body <= now
            /\ cache[i].expires <= cache[i].body + TTL + ProbeTimeout
        BY <4>1, <1>t DEF CacheEntry, CacheInv, CacheYoung, Young
      <4> QED BY <4>2, <2>1, <1>n
    <3> QED BY <3>1, <2>1, <1>t DEF CacheInv, CacheYoung, Young, CacheBounded, KeysUnique
  <2> QED BY <2>3, <2>4, <2>5 DEF CascadeInv
<1> QED
  BY <1>1, <1>2, <1>3, <1>4, <1>5, <1>6, <1>7, <1>8, <1>9 DEF CascadeNext, Probe, Upstream

(* The invariant holds for ever.                                           *)
LEMMA CascadeInvariant == CascadeSpec => []CascadeInv
  BY CascadeInitInv, CascadeStep, PTL DEF CascadeSpec

(* FreshEnough: however probes overtake each other and overwrite the       *)
(* cache, no GET is answered with a body older than the TTL and the time a *)
(* probe may take.                                                         *)
THEOREM AnswersAreFresh == CascadeSpec => []FreshEnough
<1>1. CascadeInv => FreshEnough
  BY DEF CascadeInv
<1> QED BY <1>1, CascadeInvariant, PTL

(* No404OverHit: in whatever order the upstreams answer, "not found" means *)
(* that all of them were heard and none had the file.                      *)
THEOREM NotFoundIsEarned == CascadeSpec => []No404OverHit
<1>1. CascadeInv => No404OverHit
  BY DEF CascadeInv, AnswersHeard, No404OverHit, Taken, Answered
<1> QED BY <1>1, CascadeInvariant, PTL

(* The response cache, through every hit, eviction, replacement and        *)
(* insertion: no more entries than BZLHUB_UPSTREAM_CACHE_SIZE, and no key  *)
(* twice.                                                                  *)
THEOREM CacheStaysBounded == CascadeSpec => []CacheBounded
<1>1. CascadeInv => CacheBounded
  BY DEF CascadeInv, CacheInv
<1> QED BY <1>1, CascadeInvariant, PTL

(***************************************************************************)
(* The verdict cache of the policy (Maintainers)                           *)
(***************************************************************************)
CachedVerdict == [key : Grants, verdict : BOOLEAN, expires : Nat]

MaintTypeOK ==
    /\ granted \in SUBSET Grants /\ mnow \in Nat
    /\ verdicts \in Seq(CachedVerdict)
    /\ asker \in [Askers -> [pc : {"idle", "read", "store"}, key : Grants, got : BOOLEAN, at : Nat]]
    /\ changed \in [Grants -> Nat]

\* An entry expires at most a TTL from now, and one that contradicts the table
\* at most ReadHold and a TTL after its row came or went.
Fair(e) ==
    /\ e.expires <= mnow + CacheTTL
    /\ e.verdict # (e.key \in granted) => e.expires <= changed[e.key] + ReadHold + CacheTTL

VerdictsFair == \A i \in 1..Len(verdicts) : Fair(verdicts[i])

\* A caller about to store read at most ReadHold ago, and what it read was so then.
ReadsFair ==
    \A a \in Askers : asker[a].pc = "store" =>
        /\ asker[a].at <= mnow /\ mnow <= asker[a].at + ReadHold
        /\ asker[a].got # (asker[a].key \in granted) => asker[a].at <= changed[asker[a].key]

MaintInv == MaintTypeOK /\ VerdictsFair /\ ReadsFair

\* An empty cache contradicts nothing.
LEMMA MaintStarts == MaintInit => MaintInv
<1> SUFFICES ASSUME MaintInit PROVE MaintInv
    OBVIOUS
<1>1. PICK k \in Grants : asker = [a \in Askers |-> IdleAsker(k)]
    BY DEF MaintInit
<1>2. asker \in [Askers -> [pc : {"idle", "read", "store"}, key : Grants, got : BOOLEAN, at : Nat]]
    BY <1>1 DEF IdleAsker
<1>3. \A a \in Askers : asker[a].pc = "idle"
    BY <1>1 DEF IdleAsker
<1>4. MaintTypeOK
    BY <1>2 DEF MaintInit, MaintTypeOK
<1>5. VerdictsFair
    BY DEF MaintInit, VerdictsFair
<1>6. ReadsFair
    BY <1>3 DEF ReadsFair
<1> QED
    BY <1>4, <1>5, <1>6 DEF MaintInv

\* What is left without a key was there before.
LEMMA WithoutLeft ==
    ASSUME NEW k, verdicts \in Seq(CachedVerdict)
    PROVE  /\ Without(k) \in Seq(CachedVerdict) /\ Len(Without(k)) \in Nat
           /\ \A j \in 1..Len(Without(k)) : \E i \in 1..Len(verdicts) : Without(k)[j] = verdicts[i]
<1>0. Len(verdicts) \in Nat
    BY LenProperties
<1>1. CASE ~Cached(k)
    BY <1>0, <1>1 DEF Without
<1>2. CASE Cached(k)
    <2>1. PICK p : p = PlaceOf(k)
        OBVIOUS
    <2>2. p \in 1..Len(verdicts)
        BY <1>2, <2>1 DEF Cached, PlaceOf, Places
    <2>3. PICK r : r = Without(k)
        OBVIOUS
    <2>4. r = SubSeq(verdicts, 1, p - 1) \o SubSeq(verdicts, p + 1, Len(verdicts))
        BY <1>2, <2>1, <2>3 DEF Without
    <2>5. /\ r \in Seq(CachedVerdict) /\ Len(r) = Len(verdicts) - 1
          /\ \A j \in 1..Len(r) : r[j] = IF j < p THEN verdicts[j] ELSE verdicts[j + 1]
        BY <2>2, <2>4, RemoveElement
    <2>6. ASSUME NEW j \in 1..Len(r) PROVE \E i \in 1..Len(verdicts) : r[j] = verdicts[i]
        <3>1. j \in 1..Len(verdicts) /\ j + 1 \in 1..Len(verdicts)
            BY <1>0, <2>5
        <3> QED
            BY <2>5, <3>1
    <2> QED
        BY <2>3, <2>5, <2>6, LenProperties
<1> QED
    BY <1>1, <1>2

\* A list of old entries, and perhaps a new one in front, is as fair as they are.
LEMMA ListStaysFair ==
    ASSUME MaintInv, NEW k, UNCHANGED <<granted, mnow, changed>>,
           verdicts' = Without(k)
    PROVE  verdicts' \in Seq(CachedVerdict) /\ VerdictsFair'
<1>1. /\ verdicts' \in Seq(CachedVerdict)
      /\ \A j \in 1..Len(verdicts') : \E i \in 1..Len(verdicts) : verdicts'[j] = verdicts[i]
    BY WithoutLeft DEF MaintInv, MaintTypeOK
<1>2. ASSUME NEW j \in 1..Len(verdicts') PROVE Fair(verdicts[j])'
    <2>1. PICK i \in 1..Len(verdicts) : verdicts'[j] = verdicts[i]
        BY <1>1
    <2> QED
        BY <2>1 DEF MaintInv, VerdictsFair, Fair
<1> QED
    BY <1>1, <1>2 DEF VerdictsFair

\* So does putting one in front and dropping the oldest (storeCache, lookupCache).
LEMMA PushedStaysFair ==
    ASSUME MaintInv, NEW k, NEW e \in CachedVerdict, Fair(e), UNCHANGED <<granted, mnow, changed>>,
           NEW n \in Nat, NEW new, new = <<e>> \o Without(k), n <= Len(new),
           verdicts' = SubSeq(new, 1, n)
    PROVE  verdicts' \in Seq(CachedVerdict) /\ VerdictsFair'
<1>1. PICK w : w = Without(k)
    OBVIOUS
<1>2. /\ w \in Seq(CachedVerdict) /\ Len(w) \in Nat
      /\ \A j \in 1..Len(w) : \E i \in 1..Len(verdicts) : w[j] = verdicts[i]
    BY <1>1, WithoutLeft DEF MaintInv, MaintTypeOK
<1>3. /\ new \in Seq(CachedVerdict) /\ Len(new) = Len(w) + 1 /\ new[1] = e
      /\ \A j \in 2..Len(new) : new[j] = w[j - 1]
    BY <1>1, <1>2, PushFront
<1>4. /\ verdicts' \in Seq(CachedVerdict) /\ Len(verdicts') = n
      /\ \A j \in 1..n : verdicts'[j] = new[j]
    <2>1. \A i \in 1..n : new[i] \in CachedVerdict
        BY <1>2, <1>3, ElementOfSeq
    <2> QED
        BY <1>2, <1>3, <2>1, SubSeqProperties
<1>5. ASSUME NEW j \in 1..Len(verdicts') PROVE Fair(verdicts[j])'
    <2>1. CASE j = 1
        BY <1>3, <1>4, <2>1 DEF Fair
    <2>2. CASE j # 1
        <3>1. j - 1 \in 1..Len(w) /\ verdicts'[j] = w[j - 1]
            BY <1>2, <1>3, <1>4, <2>2
        <3>2. PICK i \in 1..Len(verdicts) : verdicts'[j] = verdicts[i]
            BY <1>2, <3>1
        <3> QED
            BY <3>2 DEF MaintInv, VerdictsFair, Fair
    <2> QED
        BY <2>1, <2>2
<1> QED
    BY <1>4, <1>5 DEF VerdictsFair

\* Time passes only as far as no caller holds its read longer than ReadHold.
LEMMA MaintTickKeeps ==
    ASSUME MaintInv, TickMaint
    PROVE  MaintInv'
<1> USE MaintainersAssumption
<1>1. mnow \in Nat /\ mnow' = mnow + 1 /\ UNCHANGED <<granted, verdicts, asker, changed>>
    BY DEF TickMaint, MaintInv, MaintTypeOK
<1>2. MaintTypeOK'
    BY <1>1 DEF MaintInv, MaintTypeOK
<1>3. VerdictsFair'
    <2>1. ASSUME NEW i \in 1..Len(verdicts) PROVE Fair(verdicts[i])'
        <3>1. verdicts[i] \in CachedVerdict
            BY ElementOfSeq DEF MaintInv, MaintTypeOK
        <3>2. verdicts[i].expires \in Nat
            BY <3>1 DEF CachedVerdict
        <3>3. Fair(verdicts[i])
            BY DEF MaintInv, VerdictsFair
        <3>4. verdicts[i].expires <= mnow' + CacheTTL
            BY <1>1, <3>2, <3>3 DEF Fair
        <3> QED
            BY <1>1, <3>3, <3>4 DEF Fair
    <2> QED
        BY <1>1, <2>1 DEF VerdictsFair
<1>4. ReadsFair'
    BY <1>1 DEF MaintInv, MaintTypeOK, ReadsFair, TickMaint
<1> QED
    BY <1>2, <1>3, <1>4 DEF MaintInv

\* A row that comes or goes now outlasts no entry by more than a TTL, and every
\* reader on its way has read by now.
LEMMA RowChangeKeeps ==
    ASSUME MaintInv, NEW k \in Grants, UNCHANGED <<verdicts, asker, mnow>>,
           granted' \in SUBSET Grants, granted' \ {k} = granted \ {k},
           changed' = [changed EXCEPT ![k] = mnow]
    PROVE  MaintInv'
<1> USE MaintainersAssumption
<1>1. MaintTypeOK /\ mnow \in Nat /\ changed \in [Grants -> Nat]
    BY DEF MaintInv, MaintTypeOK
<1>2. MaintTypeOK'
    BY <1>1 DEF MaintTypeOK
<1>3. changed'[k] = mnow /\ \A h \in Grants \ {k} : changed'[h] = changed[h]
    BY <1>1
<1>4. \A h \in Grants \ {k} : (h \in granted') = (h \in granted)
    OBVIOUS
<1>5. VerdictsFair'
    <2>1. ASSUME NEW i \in 1..Len(verdicts) PROVE Fair(verdicts[i])'
        <3>1. verdicts[i] \in CachedVerdict
            BY <1>1, ElementOfSeq DEF MaintTypeOK
        <3>2. PICK h \in Grants : h = verdicts[i].key
            BY <3>1 DEF CachedVerdict
        <3>3. Fair(verdicts[i]) /\ verdicts[i].expires \in Nat
            BY <3>1 DEF MaintInv, VerdictsFair, CachedVerdict
        <3>4. CASE h = k
            <4>1. verdicts[i].expires <= changed'[h] + ReadHold + CacheTTL
                BY <1>1, <1>3, <3>3, <3>4 DEF Fair
            <4> QED
                BY <3>2, <3>3, <4>1 DEF Fair
        <3>5. CASE h # k
            <4>1. changed'[h] = changed[h] /\ (h \in granted') = (h \in granted)
                BY <1>3, <1>4, <3>5
            <4>2. verdicts[i].verdict # (h \in granted') => verdicts[i].verdict # (h \in granted)
                BY <4>1
            <4> QED
                BY <3>2, <3>3, <4>1, <4>2 DEF Fair
        <3> QED
            BY <3>4, <3>5
    <2> QED
        BY <2>1 DEF VerdictsFair
<1>6. ReadsFair'
    <2> SUFFICES ASSUME NEW a \in Askers, asker[a].pc = "store"
                 PROVE  /\ asker[a].at <= mnow /\ mnow <= asker[a].at + ReadHold
                        /\ asker[a].got # (asker[a].key \in granted')
                              => asker[a].at <= changed'[asker[a].key]
        BY DEF ReadsFair
    <2>1. /\ asker[a].at <= mnow /\ mnow <= asker[a].at + ReadHold
          /\ asker[a].got # (asker[a].key \in granted) => asker[a].at <= changed[asker[a].key]
        BY DEF MaintInv, ReadsFair
    <2>2. PICK h \in Grants : h = asker[a].key
        BY <1>1 DEF MaintTypeOK
    <2>3. CASE h = k
        BY <1>3, <2>1, <2>2, <2>3
    <2>4. CASE h # k
        <3>1. changed'[h] = changed[h] /\ (h \in granted') = (h \in granted)
            BY <1>3, <1>4, <2>4
        <3>2. asker[a].got # (h \in granted') => asker[a].got # (h \in granted)
            BY <3>1
        <3> QED
            BY <2>1, <2>2, <3>1, <3>2
    <2> QED
        BY <2>3, <2>4
<1> QED
    BY <1>2, <1>5, <1>6 DEF MaintInv

\* Nothing changes.
LEMMA MaintRestKeeps == ASSUME MaintInv, UNCHANGED maintVars PROVE MaintInv'
BY DEF MaintInv, MaintTypeOK, VerdictsFair, Fair, ReadsFair, maintVars

\* apiGrantMaintainer.
LEMMA MaintGrantKeeps ==
    ASSUME MaintInv, NEW k \in Grants, GrantMaintainer(k)
    PROVE  MaintInv'
<1>1. CASE k \in granted
    <2>1. UNCHANGED maintVars
        BY <1>1 DEF GrantMaintainer, maintVars
    <2> QED
        BY <2>1, MaintRestKeeps
<1>2. CASE k \notin granted
    <2>1. granted' \in SUBSET Grants /\ granted' \ {k} = granted \ {k}
        BY DEF GrantMaintainer, MaintInv, MaintTypeOK
    <2> QED
        BY <1>2, <2>1, RowChangeKeeps DEF GrantMaintainer
<1> QED
    BY <1>1, <1>2

\* apiRevokeMaintainer.
LEMMA MaintRevokeKeeps ==
    ASSUME MaintInv, NEW k \in Grants, RevokeMaintainer(k)
    PROVE  MaintInv'
<1>1. CASE k \notin granted
    <2>1. UNCHANGED maintVars
        BY <1>1 DEF RevokeMaintainer, maintVars
    <2> QED
        BY <2>1, MaintRestKeeps
<1>2. CASE k \in granted
    <2>1. granted' \in SUBSET Grants /\ granted' \ {k} = granted \ {k}
        BY DEF RevokeMaintainer, MaintInv, MaintTypeOK
    <2> QED
        BY <1>2, <2>1, RowChangeKeeps DEF RevokeMaintainer
<1> QED
    BY <1>1, <1>2

\* InvalidateMaintainer.
LEMMA MaintInvalidateKeeps ==
    ASSUME MaintInv, NEW k \in Grants, InvalidateMaintainer(k)
    PROVE  MaintInv'
<1>1. verdicts' \in Seq(CachedVerdict) /\ VerdictsFair'
    BY ListStaysFair DEF InvalidateMaintainer
<1> QED
    BY <1>1 DEF InvalidateMaintainer, MaintInv, MaintTypeOK, ReadsFair

\* A caller that goes back, or on to its read, leaves the other callers alone.
LEMMA AskerMoves ==
    ASSUME MaintInv, NEW a \in Askers, NEW z, asker' = [asker EXCEPT ![a] = z],
           z \in [pc : {"idle", "read", "store"}, key : Grants, got : BOOLEAN, at : Nat],
           z.pc # "store", UNCHANGED <<granted, mnow, changed>>
    PROVE  /\ asker' \in [Askers -> [pc : {"idle", "read", "store"}, key : Grants,
                                     got : BOOLEAN, at : Nat]]
           /\ ReadsFair'
<1>1. asker' \in [Askers -> [pc : {"idle", "read", "store"}, key : Grants, got : BOOLEAN, at : Nat]]
    BY DEF MaintInv, MaintTypeOK
<1>2. asker'[a].pc # "store" /\ \A b \in Askers \ {a} : asker'[b] = asker[b]
    BY DEF MaintInv, MaintTypeOK
<1> QED
    BY <1>1, <1>2 DEF MaintInv, ReadsFair

\* lookupCache: a hit keeps its expiry, an expired entry goes.
LEMMA MaintLookupKeeps ==
    ASSUME MaintInv, NEW a \in Askers, NEW k \in Grants, LookupVerdict(a, k)
    PROVE  MaintInv'
<1>1. CASE /\ Cached(k) /\ mnow <= EntryOf(k).expires
           /\ verdicts' = <<Touch(EntryOf(k))>> \o Without(k)
           /\ UNCHANGED asker
    <2>1. UNCHANGED <<granted, mnow, changed>>
        BY DEF LookupVerdict
    <2>2. PlaceOf(k) \in 1..Len(verdicts)
        BY <1>1 DEF Cached, PlaceOf, Places
    <2>3. PICK e : e = EntryOf(k)
        OBVIOUS
    <2>4. e \in CachedVerdict /\ Fair(e)
        BY <2>2, <2>3, ElementOfSeq DEF EntryOf, MaintInv, MaintTypeOK, VerdictsFair
    <2>5. PICK new : new = <<e>> \o Without(k)
        OBVIOUS
    <2>6. Without(k) \in Seq(CachedVerdict) /\ Len(Without(k)) \in Nat
        BY WithoutLeft DEF MaintInv, MaintTypeOK
    <2>7. new \in Seq(CachedVerdict) /\ Len(new) \in Nat
        BY <2>4, <2>5, <2>6, PushFront, LenProperties
    <2>8. verdicts' = new
        BY <1>1, <2>3, <2>5 DEF Touch
    <2>9. verdicts' = SubSeq(new, 1, Len(new)) /\ Len(new) <= Len(new)
        BY <2>7, <2>8, SubSeqFull
    <2>10. verdicts' \in Seq(CachedVerdict) /\ VerdictsFair'
        BY <2>1, <2>4, <2>5, <2>7, <2>9, PushedStaysFair
    <2> QED
        BY <1>1, <2>1, <2>10 DEF MaintInv, MaintTypeOK, ReadsFair
<1>2. CASE /\ verdicts' = Without(k)
           /\ asker' = [asker EXCEPT ![a] = [IdleAsker(k) EXCEPT !.pc = "read"]]
    <2>1. UNCHANGED <<granted, mnow, changed>>
        BY DEF LookupVerdict
    <2>2. verdicts' \in Seq(CachedVerdict) /\ VerdictsFair'
        BY <1>2, <2>1, ListStaysFair
    <2>3. PICK z : z = [IdleAsker(k) EXCEPT !.pc = "read"]
        OBVIOUS
    <2>4. z \in [pc : {"idle", "read", "store"}, key : Grants, got : BOOLEAN, at : Nat]
          /\ z.pc # "store"
        BY <2>3 DEF IdleAsker
    <2>5. /\ asker' \in [Askers -> [pc : {"idle", "read", "store"}, key : Grants,
                                    got : BOOLEAN, at : Nat]]
          /\ ReadsFair'
        BY <1>2, <2>1, <2>3, <2>4, AskerMoves
    <2> QED
        BY <2>1, <2>2, <2>5 DEF MaintInv, MaintTypeOK
<1> QED
    BY <1>1, <1>2 DEF LookupVerdict

\* IsMaintainer: what is read is so at that moment.
LEMMA MaintReadKeeps ==
    ASSUME MaintInv, NEW a \in Askers, ReadTable(a)
    PROVE  MaintInv'
<1> USE MaintainersAssumption
<1>1. UNCHANGED <<granted, verdicts, mnow, changed>> /\ VerdictsFair' /\ mnow \in Nat
    BY DEF ReadTable, MaintInv, MaintTypeOK, VerdictsFair, Fair
<1>2. asker[a] \in [pc : {"idle", "read", "store"}, key : Grants, got : BOOLEAN, at : Nat]
    BY DEF MaintInv, MaintTypeOK
<1>3. CASE asker' = [asker EXCEPT ![a].pc = "store", ![a].got = asker[a].key \in granted,
                                  ![a].at = mnow]
    <2>1. (asker[a].key \in granted) \in BOOLEAN
        BY SMT
    <2>2. PICK z : z = [asker[a] EXCEPT !.pc = "store", !.got = asker[a].key \in granted, !.at = mnow]
        OBVIOUS
    <2>3. z \in [pc : {"idle", "read", "store"}, key : Grants, got : BOOLEAN, at : Nat]
        BY <1>1, <1>2, <2>1, <2>2
    <2>4. z.key = asker[a].key /\ z.got = (asker[a].key \in granted) /\ z.at = mnow
        BY <1>2, <2>2
    <2>5. asker' = [asker EXCEPT ![a] = z]
        BY <1>3, <2>1, <2>2
    <2>6. /\ asker' \in [Askers -> [pc : {"idle", "read", "store"}, key : Grants,
                                    got : BOOLEAN, at : Nat]]
          /\ asker'[a] = z /\ \A b \in Askers \ {a} : asker'[b] = asker[b]
        BY <2>3, <2>5 DEF MaintInv, MaintTypeOK
    <2>7. z.at <= mnow /\ mnow <= z.at + ReadHold
        BY <1>1, <2>4
    <2>8. z.got = (z.key \in granted)
        BY <2>1, <2>4
    <2>9. ReadsFair'
        BY <1>1, <2>6, <2>7, <2>8 DEF MaintInv, ReadsFair
    <2> QED
        BY <1>1, <2>6, <2>9 DEF MaintInv, MaintTypeOK
<1>4. CASE asker' = [asker EXCEPT ![a].pc = "idle"]
    <2>1. PICK z : z = [asker[a] EXCEPT !.pc = "idle"]
        OBVIOUS
    <2>2. z \in [pc : {"idle", "read", "store"}, key : Grants, got : BOOLEAN, at : Nat]
          /\ z.pc # "store"
        BY <1>2, <2>1
    <2>3. asker' = [asker EXCEPT ![a] = z]
        BY <1>4, <2>1
    <2>4. /\ asker' \in [Askers -> [pc : {"idle", "read", "store"}, key : Grants,
                                    got : BOOLEAN, at : Nat]]
          /\ ReadsFair'
        BY <1>1, <2>2, <2>3, AskerMoves
    <2> QED
        BY <1>1, <2>4 DEF MaintInv, MaintTypeOK
<1> QED
    BY <1>3, <1>4 DEF ReadTable

\* storeCache: the TTL of an old reading starts when it is stored.
LEMMA MaintStoreKeeps ==
    ASSUME MaintInv, NEW a \in Askers, StoreVerdict(a)
    PROVE  MaintInv'
<1> USE MaintainersAssumption
<1>1. PICK k : k = asker[a].key
    OBVIOUS
<1>2. PICK e : e = [key |-> k, verdict |-> asker[a].got, expires |-> mnow + CacheTTL]
    OBVIOUS
<1>3. PICK new : new = <<e>> \o Without(k)
    OBVIOUS
<1>4. /\ asker[a].pc = "store" /\ UNCHANGED <<granted, mnow, changed>>
      /\ verdicts' = SubSeq(new, 1, IF Len(new) > CacheMax THEN CacheMax ELSE Len(new))
      /\ asker' = [asker EXCEPT ![a] = IdleAsker(k)]
    BY <1>1, <1>2, <1>3 DEF StoreVerdict
<1>5. k \in Grants /\ asker[a].got \in BOOLEAN /\ mnow \in Nat /\ asker[a].at \in Nat
      /\ changed[k] \in Nat
    BY <1>1 DEF MaintInv, MaintTypeOK
<1>6. mnow + CacheTTL \in Nat
    BY <1>5
<1>7. e \in CachedVerdict /\ e.key = k /\ e.verdict = asker[a].got /\ e.expires = mnow + CacheTTL
    BY <1>2, <1>5, <1>6 DEF CachedVerdict
<1>8. Fair(e)
    <2>1. /\ mnow <= asker[a].at + ReadHold
          /\ asker[a].got # (k \in granted) => asker[a].at <= changed[k]
        BY <1>1, <1>4 DEF MaintInv, ReadsFair
    <2>2. ASSUME e.verdict # (e.key \in granted)
          PROVE  e.expires <= changed[e.key] + ReadHold + CacheTTL
        <3>1. asker[a].at <= changed[k]
            BY <1>7, <2>1, <2>2
        <3> QED
            BY <1>5, <1>7, <2>1, <3>1
    <2> QED
        BY <1>6, <1>7, <2>2 DEF Fair
<1>9. Without(k) \in Seq(CachedVerdict) /\ Len(Without(k)) \in Nat
    BY WithoutLeft DEF MaintInv, MaintTypeOK
<1>10. Len(new) \in Nat
    BY <1>3, <1>7, <1>9, PushFront, LenProperties
<1>11. PICK n \in Nat : n = (IF Len(new) > CacheMax THEN CacheMax ELSE Len(new)) /\ n <= Len(new)
    BY <1>10
<1>12. verdicts' = SubSeq(new, 1, n)
    BY <1>4, <1>11
<1>13. verdicts' \in Seq(CachedVerdict) /\ VerdictsFair'
    BY <1>3, <1>4, <1>7, <1>8, <1>11, <1>12, PushedStaysFair
<1>14. IdleAsker(k) \in [pc : {"idle", "read", "store"}, key : Grants, got : BOOLEAN, at : Nat]
       /\ IdleAsker(k).pc # "store"
    BY <1>5 DEF IdleAsker
<1>15. /\ asker' \in [Askers -> [pc : {"idle", "read", "store"}, key : Grants, got : BOOLEAN, at : Nat]]
       /\ ReadsFair'
    <2>1. PICK z : z = IdleAsker(k)
        OBVIOUS
    <2> QED
        BY <1>4, <1>14, <2>1, AskerMoves
<1> QED
    BY <1>4, <1>13, <1>15 DEF MaintInv, MaintTypeOK

(* For any number of keys and callers, any TTL and any cache size: a grant *)
(* or a revocation is contradicted by the cache no longer than the TTL and *)
(* the time a caller may take between its read and its store.              *)
THEOREM StaleVerdictsExpire == MaintSpec => []StaleVerdictBounded
<1>1. MaintInit => MaintInv
    BY MaintStarts
<1>2. MaintInv /\ [MaintNext]_maintVars => MaintInv'
    <2> SUFFICES ASSUME MaintInv, [MaintNext]_maintVars PROVE MaintInv'
        OBVIOUS
    <2>1. CASE TickMaint
        BY <2>1, MaintTickKeeps
    <2>2. CASE \E k \in Grants : GrantMaintainer(k) \/ RevokeMaintainer(k) \/ InvalidateMaintainer(k)
        BY <2>2, MaintGrantKeeps, MaintRevokeKeeps, MaintInvalidateKeeps
    <2>3. CASE \E a \in Askers : (\E k \in Grants : LookupVerdict(a, k)) \/ ReadTable(a) \/ StoreVerdict(a)
        BY <2>3, MaintLookupKeeps, MaintReadKeeps, MaintStoreKeeps
    <2>4. CASE UNCHANGED maintVars
        BY <2>4, MaintRestKeeps
    <2> QED
        BY <2>1, <2>2, <2>3, <2>4 DEF MaintNext
<1>3. MaintInv => StaleVerdictBounded
    <2> SUFFICES ASSUME MaintInv, NEW i \in 1..Len(verdicts), mnow <= verdicts[i].expires,
                        verdicts[i].verdict # (verdicts[i].key \in granted)
                 PROVE  mnow <= changed[verdicts[i].key] + ReadHold + CacheTTL
        BY DEF StaleVerdictBounded
    <2>1. verdicts[i] \in CachedVerdict /\ Fair(verdicts[i])
        BY ElementOfSeq DEF MaintInv, MaintTypeOK, VerdictsFair
    <2>2. verdicts[i].expires \in Nat /\ changed[verdicts[i].key] \in Nat /\ mnow \in Nat
        BY <2>1 DEF CachedVerdict, MaintInv, MaintTypeOK
    <2> QED
        BY <2>1, <2>2, MaintainersAssumption DEF Fair
<1> QED
    BY <1>1, <1>2, <1>3, PTL DEF MaintSpec
=============================================================================
