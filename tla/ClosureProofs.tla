---------------------------- MODULE ClosureProofs ---------------------------
(***************************************************************************)
(* Proofs about the walks over dependencies, each for every value of its   *)
(* constants: the recursive walk of an ingest returns the closure of its   *)
(* seeds, the closure of a symbol index is closed under its winners, the   *)
(* report of a closure diff accounts for every changed module, the graph   *)
(* drawn from the store is the closure of its root, and the surface of an  *)
(* air-gapped installation leaves nothing of that closure out.             *)
(***************************************************************************)
EXTENDS Walk, SymbolClosure, ClosureDiff, Airgap, FiniteSetTheorems, SequenceTheorems, TLAPS

(***************************************************************************)
(* The recursive walk (Walk)                                               *)
(***************************************************************************)
\* The keys of a list of discoveries.
Firsts(s) == [i \in DOMAIN s |-> s[i][1]]

\* Where a visited key can be: waiting, handed out, with a worker, on its way
\* back, or counted in the result.
InPending == Range(walk.pending)
InJobs    == Range(jobs)
Busy      == {w \in Workers : wk[w].pc \in {"walk", "send"}}
InWorkers == {wk[w].key : w \in Busy}
InFound   == Range(Firsts(found))
Counted   == mirrored \cup errors

WorkerRec == [pc : {"range", "walk", "send", "exited"}, key : Keys \cup {NoKey}, ok : BOOLEAN]

WalkTypeOK ==
    /\ \A k \in Keys : deps[k] \in Seq(Keys)
    /\ walk \in [visited : SUBSET Keys, pending : Seq(Keys), inflight : Nat]
    /\ mirrored \in SUBSET Keys /\ errors \in SUBSET Keys
    /\ coord \in {"loop", "closed", "returned"}
    /\ jobs \in Seq(Keys) /\ found \in Seq(Keys \X BOOLEAN)
    /\ wk \in [Workers -> WorkerRec] /\ \A w \in Busy : wk[w].key \in Keys
    /\ walks \in [Keys -> Nat]

\* A key is in one place, once.
OnePlace ==
    /\ IsInjective(walk.pending) /\ IsInjective(jobs) /\ IsInjective(Firsts(found))
    /\ \A v, w \in Busy : wk[v].key = wk[w].key => v = w
    /\ InPending \cap (InJobs \cup InWorkers \cup InFound \cup Counted) = {}
    /\ InJobs \cap (InWorkers \cup InFound \cup Counted) = {}
    /\ InWorkers \cap (InFound \cup Counted) = {}
    /\ InFound \cap Counted = {}
    /\ mirrored \cap errors = {}
EveryPlace ==
    walk.visited = InPending \cup InJobs \cup InWorkers \cup InFound \cup Counted

\* inflight counts the keys that are not in the result yet, so that the loop
\* ends when there are none.
InflightCounts ==
    walk.inflight = Len(walk.pending) + Len(jobs) + Cardinality(Busy) + Len(found)
EndsEmpty == coord # "loop" => walk.inflight = 0

\* A key was walked once if a worker has it or has had it.
WalkedOnce == \A k \in Keys : walks[k] = IF k \in InWorkers \cup InFound \cup Counted THEN 1 ELSE 0

\* The visited keys are closed, and in every closed set.
VisitedClosed == Closed(walk.visited)
VisitedLeast  == \A X \in SUBSET Keys : Closed(X) => walk.visited \subseteq X

WalkInv == /\ WalkTypeOK /\ OnePlace /\ EveryPlace /\ InflightCounts /\ EndsEmpty
           /\ WalkedOnce /\ VisitedClosed /\ VisitedLeast

(* Taking the head of a list without repetitions.                          *)
LEMMA TailOf ==
    ASSUME NEW S, NEW s \in Seq(S), s # <<>>, IsInjective(s)
    PROVE  /\ Head(s) \in S /\ Head(s) \in Range(s)
           /\ Tail(s) \in Seq(S) /\ Len(Tail(s)) = Len(s) - 1 /\ Len(s) >= 1
           /\ IsInjective(Tail(s)) /\ Range(Tail(s)) = Range(s) \ {Head(s)}
<1>1. /\ Len(s) \in Nat /\ Len(s) >= 1 /\ DOMAIN s = 1..Len(s) /\ Head(s) = s[1] /\ s[1] \in S
      /\ Tail(s) \in Seq(S) /\ Len(Tail(s)) = Len(s) - 1 /\ DOMAIN Tail(s) = 1..(Len(s) - 1)
      /\ \A i \in 1..(Len(s) - 1) : Tail(s)[i] = s[i + 1]
  OBVIOUS
<1>2. IsInjective(Tail(s))
  BY <1>1 DEF IsInjective
<1>3. ASSUME NEW x \in Range(Tail(s)) PROVE x \in Range(s) \ {Head(s)}
  <2>1. PICK i \in 1..(Len(s) - 1) : x = s[i + 1]
    BY <1>1, <1>3 DEF Range
  <2>2. i + 1 \in DOMAIN s /\ 1 \in DOMAIN s /\ i + 1 # 1
    BY <1>1
  <2> QED
    BY <1>1, <2>1, <2>2 DEF Range, IsInjective
<1>4. ASSUME NEW x \in Range(s) \ {Head(s)} PROVE x \in Range(Tail(s))
  <2>1. PICK i \in 1..Len(s) : x = s[i]
    BY <1>1, <1>4 DEF Range
  <2>2. i # 1 /\ i - 1 \in 1..(Len(s) - 1) /\ (i - 1) + 1 = i
    BY <1>1, <1>4, <2>1
  <2> QED
    BY <1>1, <2>1, <2>2 DEF Range
<1>5. Head(s) \in Range(s)
  BY <1>1 DEF Range
<1> QED
  BY <1>1, <1>2, <1>3, <1>4, <1>5

(* Adding an element at the end.                                           *)
LEMMA AppendOf ==
    ASSUME NEW S, NEW s \in Seq(S), NEW x \in S
    PROVE  /\ Append(s, x) \in Seq(S) /\ Len(Append(s, x)) = Len(s) + 1
           /\ Range(Append(s, x)) = Range(s) \cup {x}
           /\ IsInjective(s) /\ x \notin Range(s) => IsInjective(Append(s, x))
<1>1. /\ Len(s) \in Nat /\ DOMAIN s = 1..Len(s) /\ DOMAIN Append(s, x) = 1..(Len(s) + 1)
      /\ \A i \in 1..Len(s) : Append(s, x)[i] = s[i]
      /\ Append(s, x)[Len(s) + 1] = x
      /\ Append(s, x) \in Seq(S) /\ Len(Append(s, x)) = Len(s) + 1
  OBVIOUS
<1>2. \A i \in 1..(Len(s) + 1) : i \in 1..Len(s) \/ i = Len(s) + 1
  BY <1>1
<1>3. 1..Len(s) \subseteq 1..(Len(s) + 1) /\ Len(s) + 1 \in 1..(Len(s) + 1)
  BY <1>1
<1> HIDE DEF Range
<1>4. Range(Append(s, x)) = Range(s) \cup {x}
  BY <1>1, <1>2, <1>3 DEF Range
<1>5. IsInjective(s) /\ x \notin Range(s) => IsInjective(Append(s, x))
  BY <1>1, <1>2 DEF Range, IsInjective
<1> QED
  BY <1>1, <1>4, <1>5

(* Adding a list of other elements at the end.                             *)
LEMMA ConcatOf ==
    ASSUME NEW S, NEW s \in Seq(S), NEW t \in Seq(S)
    PROVE  /\ s \o t \in Seq(S) /\ Len(s \o t) = Len(s) + Len(t)
           /\ Range(s \o t) = Range(s) \cup Range(t)
           /\ IsInjective(s) /\ IsInjective(t) /\ Range(s) \cap Range(t) = {} => IsInjective(s \o t)
<1>1. /\ Len(s) \in Nat /\ Len(t) \in Nat /\ DOMAIN s = 1..Len(s) /\ DOMAIN t = 1..Len(t)
      /\ s \o t \in Seq(S) /\ Len(s \o t) = Len(s) + Len(t) /\ DOMAIN (s \o t) = 1..(Len(s) + Len(t))
  BY ConcatProperties
<1>2. \A i \in 1..(Len(s) + Len(t)) : (s \o t)[i] = IF i <= Len(s) THEN s[i] ELSE t[i - Len(s)]
  BY ConcatProperties
<1>3. Range(s \o t) \subseteq Range(s) \cup Range(t)
  <2> SUFFICES ASSUME NEW i \in 1..(Len(s) + Len(t)) PROVE (s \o t)[i] \in Range(s) \cup Range(t)
    BY <1>1 DEF Range
  <2>1. CASE i <= Len(s)
    BY <1>1, <1>2, <2>1 DEF Range
  <2>2. CASE i > Len(s)
    <3>1. i - Len(s) \in 1..Len(t) /\ (s \o t)[i] = t[i - Len(s)]
      BY <1>1, <1>2, <2>2
    <3> QED
      BY <1>1, <3>1 DEF Range
  <2> QED
    BY <1>1, <2>1, <2>2
<1>4. Range(s) \subseteq Range(s \o t)
  <2> SUFFICES ASSUME NEW i \in 1..Len(s) PROVE s[i] \in Range(s \o t)
    BY <1>1 DEF Range
  <2>1. i \in 1..(Len(s) + Len(t)) /\ (s \o t)[i] = s[i]
    BY <1>1, <1>2
  <2> QED
    BY <1>1, <2>1 DEF Range
<1>5. Range(t) \subseteq Range(s \o t)
  <2> SUFFICES ASSUME NEW i \in 1..Len(t) PROVE t[i] \in Range(s \o t)
    BY <1>1 DEF Range
  <2>1. i + Len(s) \in 1..(Len(s) + Len(t)) /\ (i + Len(s)) - Len(s) = i /\ ~(i + Len(s) <= Len(s))
    BY <1>1
  <2>2. (s \o t)[i + Len(s)] = t[i]
    BY <1>2, <2>1
  <2> QED
    BY <1>1, <2>1, <2>2 DEF Range
<1>6. ASSUME IsInjective(s), IsInjective(t), Range(s) \cap Range(t) = {} PROVE IsInjective(s \o t)
  <2> SUFFICES ASSUME NEW i \in 1..(Len(s) + Len(t)), NEW j \in 1..(Len(s) + Len(t)), (s \o t)[i] = (s \o t)[j]
               PROVE  i = j
    BY <1>1 DEF IsInjective
  <2>1. ASSUME NEW m \in 1..(Len(s) + Len(t))
        PROVE  \/ m \in 1..Len(s) /\ (s \o t)[m] = s[m] /\ s[m] \in Range(s)
               \/ /\ ~(m <= Len(s)) /\ m - Len(s) \in 1..Len(t) /\ (s \o t)[m] = t[m - Len(s)]
                  /\ t[m - Len(s)] \in Range(t)
    <3>1. CASE m <= Len(s)
      BY <1>1, <1>2, <3>1 DEF Range
    <3>2. CASE ~(m <= Len(s))
      <4>1. m - Len(s) \in 1..Len(t) /\ (s \o t)[m] = t[m - Len(s)]
        BY <1>1, <1>2, <3>2
      <4> QED
        BY <1>1, <3>2, <4>1 DEF Range
    <3> QED
      BY <3>1, <3>2
  <2>2. CASE i \in 1..Len(s) /\ (s \o t)[i] = s[i] /\ s[i] \in Range(s)
    <3>1. j \in 1..Len(s) /\ (s \o t)[j] = s[j]
      BY <1>6, <2>1, <2>2
    <3> QED
      BY <1>1, <1>6, <2>2, <3>1 DEF IsInjective
  <2>3. CASE /\ ~(i <= Len(s)) /\ i - Len(s) \in 1..Len(t) /\ (s \o t)[i] = t[i - Len(s)]
             /\ t[i - Len(s)] \in Range(t)
    <3>1. j - Len(s) \in 1..Len(t) /\ (s \o t)[j] = t[j - Len(s)]
      BY <1>6, <2>1, <2>3
    <3>2. i - Len(s) = j - Len(s)
      BY <1>1, <1>6, <2>3, <3>1 DEF IsInjective
    <3> QED
      BY <1>1, <3>2
  <2> QED
    BY <2>1, <2>2, <2>3
<1> QED
  BY <1>1, <1>3, <1>4, <1>5, <1>6

(* The keys of a list of discoveries.                                      *)
LEMMA FirstsOf ==
    ASSUME NEW s \in Seq(Keys \X BOOLEAN)
    PROVE  /\ Firsts(s) \in Seq(Keys) /\ Len(Firsts(s)) = Len(s)
           /\ s # <<>> => /\ Firsts(s) # <<>> /\ Head(Firsts(s)) = Head(s)[1]
                          /\ Firsts(Tail(s)) = Tail(Firsts(s))
           /\ \A k \in Keys, b \in BOOLEAN : Firsts(Append(s, <<k, b>>)) = Append(Firsts(s), k)
<1>1. Len(s) \in Nat /\ DOMAIN s = 1..Len(s) /\ \A i \in 1..Len(s) : s[i] \in Keys \X BOOLEAN
  OBVIOUS
<1>2. Firsts(s) = [i \in 1..Len(s) |-> s[i][1]] /\ \A i \in 1..Len(s) : s[i][1] \in Keys
  BY <1>1 DEF Firsts
<1>3. Firsts(s) \in Seq(Keys) /\ Len(Firsts(s)) = Len(s)
  BY <1>1, <1>2
<1>4. ASSUME s # <<>>
      PROVE  /\ Firsts(s) # <<>> /\ Head(Firsts(s)) = Head(s)[1]
             /\ Firsts(Tail(s)) = Tail(Firsts(s))
  <2>1. Len(s) >= 1 /\ Head(s) = s[1]
    BY <1>1, <1>4
  <2>2. Firsts(s) # <<>> /\ Head(Firsts(s)) = Head(s)[1]
    BY <1>1, <1>2, <1>3, <2>1
  <2>3. /\ Tail(s) \in Seq(Keys \X BOOLEAN) /\ DOMAIN Tail(s) = 1..(Len(s) - 1)
        /\ Tail(Firsts(s)) \in Seq(Keys) /\ Len(Tail(Firsts(s))) = Len(s) - 1
        /\ \A i \in 1..(Len(s) - 1) : Tail(s)[i] = s[i + 1] /\ Tail(Firsts(s))[i] = Firsts(s)[i + 1]
    BY <1>1, <1>3, <1>4, <2>1, <2>2
  <2>4. /\ \A i \in 1..(Len(s) - 1) : i + 1 \in 1..Len(s)
        /\ Len(s) - 1 \in Nat
    BY <1>1, <2>1
  <2>5. \A i \in 1..(Len(s) - 1) : Tail(Firsts(s))[i] = s[i + 1][1]
    BY <1>2, <2>3, <2>4
  <2>6. Firsts(Tail(s)) = [i \in 1..(Len(s) - 1) |-> s[i + 1][1]]
    BY <2>3 DEF Firsts
  <2>7. Firsts(Tail(s)) \in Seq(Keys) /\ Len(Firsts(Tail(s))) = Len(s) - 1
    BY <1>2, <2>4, <2>6
  <2>8. \A i \in 1..Len(Firsts(Tail(s))) : Firsts(Tail(s))[i] = Tail(Firsts(s))[i]
    BY <2>4, <2>5, <2>6, <2>7
  <2> QED
    BY <2>2, <2>3, <2>7, <2>8, SeqEqual
<1>5. ASSUME NEW k \in Keys, NEW b \in BOOLEAN
      PROVE  Firsts(Append(s, <<k, b>>)) = Append(Firsts(s), k)
  <2> DEFINE t == Append(s, <<k, b>>)
  <2>1. /\ t \in Seq(Keys \X BOOLEAN) /\ DOMAIN t = 1..(Len(s) + 1)
        /\ \A i \in 1..Len(s) : t[i] = s[i]
        /\ t[Len(s) + 1] = <<k, b>>
    BY <1>1
  <2> HIDE DEF t
  <2>2. /\ Firsts(t) \in Seq(Keys) /\ Append(Firsts(s), k) \in Seq(Keys)
        /\ DOMAIN Firsts(t) = 1..(Len(s) + 1)
        /\ DOMAIN Append(Firsts(s), k) = 1..(Len(s) + 1)
    <3>1. Firsts(t) = [i \in 1..(Len(s) + 1) |-> t[i][1]] /\ \A i \in 1..(Len(s) + 1) : t[i][1] \in Keys
      BY <2>1 DEF Firsts
    <3>2. Firsts(t) \in Seq(Keys) /\ DOMAIN Firsts(t) = 1..(Len(s) + 1)
      BY <1>1, <3>1
    <3> QED
      BY <1>1, <1>3, <3>2
  <2>3. ASSUME NEW i \in 1..(Len(s) + 1) PROVE Firsts(t)[i] = Append(Firsts(s), k)[i]
    <3>1. Firsts(t)[i] = t[i][1]
      BY <2>1 DEF Firsts
    <3>2. CASE i = Len(s) + 1
      BY <1>1, <1>3, <2>1, <3>1, <3>2
    <3>3. CASE i \in 1..Len(s)
      <4>1. Append(Firsts(s), k)[i] = Firsts(s)[i]
        BY <1>1, <1>3, <3>3
      <4> QED
        BY <1>2, <2>1, <3>1, <3>3, <4>1
    <3>4. i = Len(s) + 1 \/ i \in 1..Len(s)
      BY <1>1
    <3> QED
      BY <3>2, <3>3, <3>4
  <2>4. Firsts(t) = Append(Firsts(s), k)
    BY <1>1, <1>3, <2>2, <2>3, SeqEqual
  <2> QED
    BY <2>4 DEF t
<1> QED
  BY <1>3, <1>4, <1>5

(* What enqueue appends: the keys of the list that were not visited, each  *)
(* of them once.                                                           *)
LEMMA UnvisitedOf ==
    ASSUME NEW V \in SUBSET Keys, NEW ks \in Seq(Keys), NEW n \in Unvisited(V, ks)
    PROVE  n \in Seq(Keys) /\ IsInjective(n) /\ Range(n) = Range(ks) \ V
<1> DEFINE new == Range(ks) \ V
<1>1. new \subseteq Keys /\ \A i \in DOMAIN ks : ks[i] \in Keys
  BY DEF Range
<1>2. Cardinality(new) \in Nat
  BY <1>1, WalkAssumption, FS_Subset, FS_CardinalityType
<1>3. /\ n \in [1..Cardinality(new) -> new] /\ new \subseteq Range(n)
      /\ \A i, j \in DOMAIN n : i < j =>
            \E a \in DOMAIN ks : ks[a] = n[i] /\ \A b \in DOMAIN ks : ks[b] = n[j] => a < b
  BY DEF Unvisited
<1> HIDE DEF new
<1>4. n \in Seq(Keys) /\ DOMAIN n = 1..Cardinality(new)
  BY <1>1, <1>2, <1>3
<1>5. Range(n) = new
  BY <1>3 DEF Range
<1>6. ASSUME NEW i \in DOMAIN n, NEW j \in DOMAIN n, i < j PROVE n[i] # n[j]
  <2>1. PICK a \in DOMAIN ks : ks[a] = n[i] /\ \A b \in DOMAIN ks : ks[b] = n[j] => a < b
    BY <1>3, <1>6
  <2>2. a \in Nat /\ ~(a < a)
    <3>1. DOMAIN ks = 1..Len(ks)
      OBVIOUS
    <3> QED
      BY <2>1, <3>1
  <2> QED
    BY <2>1, <2>2
<1>7. IsInjective(n)
  <2>1. \A i, j \in DOMAIN n : i < j \/ j < i \/ i = j
    BY <1>2, <1>4
  <2> QED
    BY <1>6, <2>1 DEF IsInjective
<1> QED
  BY <1>4, <1>5, <1>7 DEF new

(* Before the first discovery only the seeds are visited.                  *)
LEMMA WalkInitInv == ASSUME WalkInit PROVE WalkInv
<1>1. PICK su \in Setups : deps = su.deps /\ pool = su.pool
  BY DEF WalkInit
<1>2. PICK n \in Unvisited({}, Seeds) :
        walk = [visited |-> {} \cup Range(Seeds), pending |-> <<>> \o n, inflight |-> 0 + Len(n)]
  <2>1. walk \in enqueue([visited |-> {}, pending |-> <<>>, inflight |-> 0], Seeds)
    BY DEF WalkInit
  <2> QED
    BY <2>1 DEF enqueue
<1>3. n \in Seq(Keys) /\ IsInjective(n) /\ Range(n) = Range(Seeds) /\ Range(Seeds) \subseteq Keys /\ Len(n) \in Nat
  <2>1. n \in Seq(Keys) /\ IsInjective(n) /\ Range(n) = Range(Seeds) \ {}
    BY <1>2, UnvisitedOf, WalkAssumption
  <2>2. Range(Seeds) \subseteq Keys
    BY WalkAssumption DEF Range
  <2>3. Range(n) = Range(Seeds) /\ Len(n) \in Nat
    BY <2>1
  <2> QED
    BY <2>1, <2>2, <2>3
<1>4. <<>> \o n = n
  BY <1>3, ConcatEmptySeq
<1>5. walk.visited = Range(Seeds) /\ walk.pending = n /\ walk.inflight = Len(n)
  BY <1>2, <1>3, <1>4
<1>6. Busy = {} /\ InWorkers = {} /\ Cardinality(Busy) = 0
  <2>1. Busy = {}
    BY DEF WalkInit, Busy, Resting
  <2> QED
    BY <2>1, FS_EmptySet DEF InWorkers
<1>7. /\ mirrored = {} /\ errors = {} /\ jobs = <<>> /\ found = <<>> /\ coord = "loop"
      /\ InJobs = {} /\ InFound = {} /\ IsInjective(jobs) /\ IsInjective(Firsts(found)) /\ Len(jobs) = 0 /\ Len(found) = 0
  BY DEF WalkInit, InJobs, InFound, Range, Firsts, IsInjective
<1>8. WalkTypeOK
  <2>1. wk \in [Workers -> WorkerRec]
    BY DEF WalkInit, Resting, WorkerRec
  <2>2. walks \in [Keys -> Nat] /\ \A k \in Keys : deps[k] \in Seq(Keys)
    BY <1>1, WalkAssumption DEF WalkInit
  <2>3. walk \in [visited : SUBSET Keys, pending : Seq(Keys), inflight : Nat]
    BY <1>2, <1>3, <1>4
  <2> QED
    BY <1>6, <1>7, <2>1, <2>2, <2>3 DEF WalkTypeOK
<1>9. OnePlace /\ EveryPlace
  BY <1>3, <1>5, <1>6, <1>7 DEF OnePlace, EveryPlace, InPending, Counted
<1>10. InflightCounts /\ EndsEmpty
  BY <1>3, <1>5, <1>6, <1>7 DEF InflightCounts, EndsEmpty
<1>11. WalkedOnce
  BY <1>6, <1>7 DEF WalkInit, WalkedOnce, Counted
<1>12. VisitedClosed /\ VisitedLeast
  BY <1>5, <1>7 DEF VisitedClosed, VisitedLeast, Closed
<1> QED
  BY <1>8, <1>9, <1>10, <1>11, <1>12 DEF WalkInv

(* The coordinator hands out the next pending key.                         *)
LEMMA DispatchStep == ASSUME WalkInv, Dispatch PROVE WalkInv'
<1> DEFINE k == Head(walk.pending)
<1>1. /\ walk \in [visited : SUBSET Keys, pending : Seq(Keys), inflight : Nat]
      /\ jobs \in Seq(Keys) /\ IsInjective(walk.pending) /\ IsInjective(jobs) /\ walk.pending # <<>>
      /\ InPending \cap InJobs = {}
  BY DEF WalkInv, WalkTypeOK, OnePlace, Dispatch
<1>2. /\ walk' = [walk EXCEPT !.pending = Tail(walk.pending)] /\ jobs' = Append(jobs, k)
      /\ deps' = deps /\ mirrored' = mirrored /\ errors' = errors /\ coord' = coord
      /\ found' = found /\ wk' = wk /\ walks' = walks /\ coord = "loop"
  BY DEF Dispatch
<1>3. /\ k \in Keys /\ k \in InPending /\ Tail(walk.pending) \in Seq(Keys)
      /\ Len(Tail(walk.pending)) = Len(walk.pending) - 1 /\ Len(walk.pending) >= 1
      /\ IsInjective(Tail(walk.pending)) /\ Range(Tail(walk.pending)) = InPending \ {k}
  BY <1>1, TailOf DEF InPending
<1> HIDE DEF k
<1>4. /\ walk'.visited = walk.visited /\ walk'.inflight = walk.inflight /\ walk'.pending = Tail(walk.pending)
      /\ walk' \in [visited : SUBSET Keys, pending : Seq(Keys), inflight : Nat]
  BY <1>1, <1>2, <1>3
<1>5. k \notin InJobs
  BY <1>1, <1>3
<1>6. jobs' \in Seq(Keys) /\ Len(jobs') = Len(jobs) + 1 /\ Range(jobs') = InJobs \cup {k} /\ IsInjective(jobs')
  BY <1>1, <1>2, <1>3, <1>5, AppendOf DEF InJobs
<1>7. InPending' = InPending \ {k} /\ InJobs' = InJobs \cup {k}
  BY <1>3, <1>4, <1>6 DEF InPending, InJobs
<1>8. Busy' = Busy /\ InWorkers' = InWorkers /\ InFound' = InFound /\ Counted' = Counted
  BY <1>2 DEF Busy, InWorkers, InFound, Counted
<1>9. WalkTypeOK'
  BY <1>2, <1>4, <1>6, <1>8 DEF WalkInv, WalkTypeOK
<1>10. OnePlace' /\ EveryPlace'
  <2>1. OnePlace /\ EveryPlace
    BY DEF WalkInv
  <2> QED
    BY <1>2, <1>3, <1>4, <1>6, <1>7, <1>8, <2>1 DEF OnePlace, EveryPlace
<1>11. InflightCounts' /\ EndsEmpty'
  <2>1. Len(walk.pending) \in Nat /\ Len(jobs) \in Nat /\ Len(found) \in Nat /\ InflightCounts
    BY <1>1 DEF WalkInv, WalkTypeOK
  <2>2. Cardinality(Busy) \in Nat
    BY WalkAssumption, FS_Subset, FS_CardinalityType DEF Busy
  <2>3. Cardinality(Busy') = Cardinality(Busy) /\ Len(found') = Len(found)
    BY <1>2, <1>8
  <2> QED
    BY <1>2, <1>3, <1>4, <1>6, <2>1, <2>2, <2>3 DEF InflightCounts, EndsEmpty
<1>12. WalkedOnce' /\ VisitedClosed' /\ VisitedLeast'
  BY <1>2, <1>4, <1>8 DEF WalkInv, WalkedOnce, VisitedClosed, VisitedLeast, Closed
<1> QED
  BY <1>9, <1>10, <1>11, <1>12 DEF WalkInv

(* A discovery comes back: it is counted, and its dependencies join the    *)
(* pending keys if it was mirrored.                                        *)
LEMMA AbsorbStep == ASSUME WalkInv, Absorb PROVE WalkInv'
<1> DEFINE k == Head(found)[1]
           s == [walk EXCEPT !.inflight = @ - 1]
<1>1. /\ walk \in [visited : SUBSET Keys, pending : Seq(Keys), inflight : Nat]
      /\ found \in Seq(Keys \X BOOLEAN) /\ IsInjective(walk.pending) /\ IsInjective(Firsts(found)) /\ found # <<>>
      /\ InFound \cap Counted = {} /\ mirrored \in SUBSET Keys /\ errors \in SUBSET Keys
      /\ walk.inflight > 0 /\ coord = "loop" /\ mirrored \cap errors = {}
      /\ \A x \in Keys : deps[x] \in Seq(Keys)
  BY DEF WalkInv, WalkTypeOK, OnePlace, Absorb
<1>2. /\ found' = Tail(found) /\ deps' = deps /\ coord' = coord /\ jobs' = jobs /\ wk' = wk /\ walks' = walks
  BY DEF Absorb, handle
<1>3. /\ k \in Keys /\ k \in InFound /\ Tail(found) \in Seq(Keys \X BOOLEAN)
      /\ Len(Tail(found)) = Len(found) - 1 /\ Len(found) >= 1
      /\ IsInjective(Firsts(Tail(found))) /\ Range(Firsts(Tail(found))) = InFound \ {k}
  <2>1. /\ Firsts(found) \in Seq(Keys) /\ Firsts(found) # <<>> /\ Head(Firsts(found)) = k
        /\ Firsts(Tail(found)) = Tail(Firsts(found))
    BY <1>1, FirstsOf
  <2>2. /\ Head(Firsts(found)) \in Keys /\ Head(Firsts(found)) \in Range(Firsts(found))
        /\ IsInjective(Tail(Firsts(found))) /\ Range(Tail(Firsts(found))) = Range(Firsts(found)) \ {Head(Firsts(found))}
    BY <1>1, <2>1, TailOf
  <2>3. Tail(found) \in Seq(Keys \X BOOLEAN) /\ Len(Tail(found)) = Len(found) - 1 /\ Len(found) >= 1
    <3> HIDE DEF k, s
    <3>1. found \in Seq(Keys \X BOOLEAN) /\ found # <<>>
      BY <1>1
    <3> QED
      BY <3>1, HeadTailProperties, EmptySeq
  <2> QED
    BY <2>1, <2>2, <2>3 DEF InFound
<1>4. /\ s.visited = walk.visited /\ s.pending = walk.pending /\ s.inflight = walk.inflight - 1
      /\ s \in [visited : SUBSET Keys, pending : Seq(Keys), inflight : Nat]
  <2>1. walk.inflight - 1 \in Nat
    BY <1>1
  <2>2. walk \in [visited : SUBSET Keys, pending : Seq(Keys), inflight : Nat]
    BY <1>1
  <2> QED
    BY <2>1, <2>2
<1>5. PICK new \in Seq(Keys) :
        /\ IsInjective(new) /\ Range(new) \cap walk.visited = {}
        /\ walk'.visited = walk.visited \cup Range(new)
        /\ walk'.pending = walk.pending \o new
        /\ walk'.inflight = (walk.inflight - 1) + Len(new)
        /\ walk' \in [visited : SUBSET Keys, pending : Seq(Keys), inflight : Nat]
        /\ \/ /\ mirrored' = mirrored \cup {k} /\ errors' = errors
              /\ Range(new) = Range(deps[k]) \ walk.visited
           \/ /\ errors' = errors \cup {k} /\ mirrored' = mirrored /\ Range(new) = {}
  <2>1. CASE /\ mirrored' = mirrored \cup {k} /\ errors' = errors /\ walk' \in enqueue(s, deps[k])
    <3>1. PICK new \in Unvisited(walk.visited, deps[k]) :
            walk' = [visited  |-> walk.visited \cup Range(deps[k]),
                     pending  |-> walk.pending \o new,
                     inflight |-> (walk.inflight - 1) + Len(new)]
      BY <1>4, <2>1 DEF enqueue
    <3>2. new \in Seq(Keys) /\ IsInjective(new) /\ Range(new) = Range(deps[k]) \ walk.visited
      BY <1>1, <1>3, UnvisitedOf
    <3>3. Range(new) \subseteq Keys /\ Len(new) \in Nat /\ walk.pending \o new \in Seq(Keys)
      <4>1. walk.pending \o new \in Seq(Keys)
        BY <1>1, <3>2, ConcatOf
      <4> QED
        BY <3>2, <4>1 DEF Range
    <3>4. walk.visited \cup Range(deps[k]) = walk.visited \cup Range(new)
      BY <3>2
    <3>5. (walk.inflight - 1) + Len(new) \in Nat /\ walk.visited \cup Range(new) \in SUBSET Keys
      BY <1>1, <3>3
    <3>6. walk' \in [visited : SUBSET Keys, pending : Seq(Keys), inflight : Nat]
      BY <3>1, <3>3, <3>4, <3>5
    <3> QED
      BY <2>1, <3>1, <3>2, <3>4, <3>6
  <2>2. CASE /\ errors' = errors \cup {k} /\ mirrored' = mirrored /\ walk' = s
    <3>1. /\ <<>> \in Seq(Keys) /\ IsInjective(<<>>) /\ Range(<<>>) = {} /\ Len(<<>>) = 0
          /\ walk.pending \o <<>> = walk.pending
      BY <1>1, ConcatEmptySeq DEF IsInjective, Range
    <3>2. (walk.inflight - 1) + 0 = walk.inflight - 1
      BY <1>1
    <3> QED
      BY <1>4, <2>2, <3>1, <3>2
  <2>3. \/ /\ mirrored' = mirrored \cup {k} /\ errors' = errors /\ walk' \in enqueue(s, deps[k])
        \/ /\ errors' = errors \cup {k} /\ mirrored' = mirrored /\ walk' = s
    BY DEF Absorb, handle
  <2> QED
    BY <2>1, <2>2, <2>3
<1> HIDE DEF k, s
<1>6. /\ walk'.pending \in Seq(Keys) /\ Len(walk'.pending) = Len(walk.pending) + Len(new)
      /\ InPending' = InPending \cup Range(new) /\ IsInjective(walk'.pending)
  <2>1. Range(walk.pending) \cap Range(new) = {}
    BY <1>5 DEF WalkInv, EveryPlace, InPending
  <2> QED
    BY <1>1, <1>5, <2>1, ConcatOf DEF InPending
<1>7. /\ InFound' = InFound \ {k} /\ Counted' = Counted \cup {k}
      /\ IsInjective(Firsts(found'))
  BY <1>2, <1>3, <1>5 DEF InFound, Counted
<1>8. Busy' = Busy /\ InWorkers' = InWorkers /\ InJobs' = InJobs
  BY <1>2 DEF Busy, InWorkers, InJobs
<1>9. WalkTypeOK'
  <2>1. mirrored' \in SUBSET Keys /\ errors' \in SUBSET Keys
    BY <1>1, <1>3, <1>5
  <2> QED
    BY <1>2, <1>3, <1>5, <1>8, <2>1 DEF WalkInv, WalkTypeOK
<1>10. OnePlace' /\ EveryPlace'
  <2>1. OnePlace /\ EveryPlace
    BY DEF WalkInv
  <2>2. mirrored' \cap errors' = {}
    BY <1>1, <1>3, <1>5 DEF Counted
  <2>3. /\ Range(new) \cap (InPending \cup InJobs \cup InWorkers \cup InFound \cup Counted) = {}
    BY <1>5, <2>1 DEF EveryPlace
  <2>4. EveryPlace'
    BY <1>3, <1>5, <1>6, <1>7, <1>8, <2>1 DEF EveryPlace
  <2> QED
    BY <1>2, <1>3, <1>6, <1>7, <1>8, <2>1, <2>2, <2>3, <2>4 DEF OnePlace
<1>11. InflightCounts' /\ EndsEmpty'
  <2>1. Len(walk.pending) \in Nat /\ Len(jobs) \in Nat /\ Len(found) \in Nat /\ Len(new) \in Nat /\ InflightCounts
    BY <1>1 DEF WalkInv, WalkTypeOK
  <2>2. Cardinality(Busy) \in Nat
    BY WalkAssumption, FS_Subset, FS_CardinalityType DEF Busy
  <2>3. Cardinality(Busy') = Cardinality(Busy) /\ Len(found') = Len(found) - 1 /\ Len(jobs') = Len(jobs)
    BY <1>2, <1>3, <1>8
  <2>4. /\ walk'.inflight = (walk.inflight - 1) + Len(new)
        /\ Len(walk'.pending) = Len(walk.pending) + Len(new)
        /\ walk.inflight = Len(walk.pending) + Len(jobs) + Cardinality(Busy) + Len(found)
    BY <1>5, <1>6, <2>1 DEF InflightCounts
  <2>5. InflightCounts'
    BY <2>1, <2>2, <2>3, <2>4 DEF InflightCounts
  <2> QED
    BY <1>1, <1>2, <2>5 DEF EndsEmpty
<1>12. WalkedOnce'
  <2>1. InWorkers' \cup InFound' \cup Counted' = InWorkers \cup InFound \cup Counted
    BY <1>3, <1>7, <1>8
  <2> QED
    BY <1>2, <2>1 DEF WalkInv, WalkedOnce
<1>13. k \in walk.visited
  BY <1>3 DEF WalkInv, EveryPlace
<1>14. VisitedClosed'
  <2>1. Range(Seeds) \subseteq walk.visited /\ \A x \in walk.visited \cap mirrored : Range(deps[x]) \subseteq walk.visited
    BY DEF WalkInv, VisitedClosed, Closed
  <2>2. mirrored \subseteq walk.visited
    BY DEF WalkInv, EveryPlace, Counted
  <2>3. ASSUME NEW x \in mirrored' PROVE Range(deps[x]) \subseteq walk'.visited
    <3>1. CASE x \in mirrored
      BY <1>5, <2>1, <2>2, <3>1
    <3>2. CASE x \notin mirrored
      <4>1. x = k /\ Range(new) = Range(deps[k]) \ walk.visited
        BY <1>5, <2>3, <3>2
      <4> QED
        BY <1>5, <4>1
    <3> QED
      BY <3>1, <3>2
  <2> QED
    BY <1>2, <1>5, <2>1, <2>3 DEF VisitedClosed, Closed
<1>15. VisitedLeast'
  <2> SUFFICES ASSUME NEW X \in SUBSET Keys, Range(Seeds) \subseteq X,
                      \A x \in X \cap mirrored' : Range(deps[x]) \subseteq X
               PROVE  walk'.visited \subseteq X
    BY <1>2 DEF VisitedLeast, Closed
  <2>1. Closed(X)
    BY <1>5 DEF Closed
  <2>2. walk.visited \subseteq X
    BY <2>1 DEF WalkInv, VisitedLeast
  <2>3. CASE Range(new) = {}
    BY <1>5, <2>2, <2>3
  <2>4. CASE mirrored' = mirrored \cup {k} /\ Range(new) = Range(deps[k]) \ walk.visited
    BY <1>5, <1>13, <2>2, <2>4
  <2> QED
    BY <1>5, <2>3, <2>4
<1> QED
  BY <1>9, <1>10, <1>11, <1>12, <1>14, <1>15 DEF WalkInv

(* The steps that move no key: the loop ends, the workers leave, the walk  *)
(* returns.                                                                *)
LEMMA EndSteps ==
    ASSUME WalkInv, CloseJobs \/ Finish \/ \E w \in Workers : RangeEnds(w) PROVE WalkInv'
<1>1. /\ deps' = deps /\ walk' = walk /\ mirrored' = mirrored /\ errors' = errors
      /\ jobs' = jobs /\ found' = found /\ walks' = walks
      /\ coord' \in {"loop", "closed", "returned"} /\ (coord' # "loop" => walk.inflight = 0)
  <2>1. CASE CloseJobs
    BY <2>1 DEF CloseJobs
  <2>2. CASE Finish
    BY <2>2 DEF Finish, WalkInv, EndsEmpty
  <2>3. ASSUME NEW w \in Workers, RangeEnds(w)
        PROVE /\ deps' = deps /\ walk' = walk /\ mirrored' = mirrored /\ errors' = errors
              /\ jobs' = jobs /\ found' = found /\ walks' = walks /\ coord' = coord /\ coord = "closed"
    BY <2>3 DEF RangeEnds
  <2> QED
    BY <2>1, <2>2, <2>3 DEF WalkInv, EndsEmpty
<1>2. /\ wk' \in [Workers -> WorkerRec] /\ Busy' = Busy
      /\ \A w \in Busy : wk'[w].key = wk[w].key
  <2>0. wk \in [Workers -> WorkerRec]
    BY DEF WalkInv, WalkTypeOK
  <2>1. CASE wk' = wk
    BY <2>0, <2>1 DEF Busy
  <2>2. ASSUME NEW w \in Workers, RangeEnds(w)
        PROVE  /\ wk' \in [Workers -> WorkerRec] /\ Busy' = Busy
               /\ \A x \in Busy : wk'[x].key = wk[x].key
    <3>1. /\ wk' = [wk EXCEPT ![w] = [wk[w] EXCEPT !.pc = "exited"]] /\ wk[w].pc = "range"
      BY <2>0, <2>2 DEF RangeEnds
    <3>2. [wk[w] EXCEPT !.pc = "exited"] \in WorkerRec
      BY <2>0 DEF WorkerRec
    <3>3. wk' \in [Workers -> WorkerRec] /\ \A x \in Workers : x # w => wk'[x] = wk[x]
      BY <2>0, <3>1, <3>2
    <3>4. wk'[w].pc = "exited"
      BY <2>0, <3>1 DEF WorkerRec
    <3> QED
      BY <3>1, <3>3, <3>4 DEF Busy
  <2> QED
    BY <2>1, <2>2 DEF CloseJobs, Finish
<1>3. /\ InPending' = InPending /\ InJobs' = InJobs /\ InFound' = InFound /\ Counted' = Counted
      /\ InWorkers' = InWorkers
  BY <1>1, <1>2 DEF InPending, InJobs, InFound, Counted, InWorkers
<1>4. WalkTypeOK'
  BY <1>1, <1>2 DEF WalkInv, WalkTypeOK
<1>5. OnePlace' /\ EveryPlace'
  BY <1>1, <1>2, <1>3 DEF WalkInv, OnePlace, EveryPlace
<1>6. InflightCounts' /\ EndsEmpty'
  BY <1>1, <1>2 DEF WalkInv, InflightCounts, EndsEmpty
<1>7. WalkedOnce' /\ VisitedClosed' /\ VisitedLeast'
  BY <1>1, <1>3 DEF WalkInv, WalkedOnce, VisitedClosed, VisitedLeast, Closed
<1> QED
  BY <1>4, <1>5, <1>6, <1>7 DEF WalkInv

(* A worker takes the next job.                                            *)
LEMMA TakeStep == ASSUME WalkInv, NEW w \in Workers, Take(w) PROVE WalkInv'
<1> DEFINE k == Head(jobs)
           r == [pc |-> "walk", key |-> k, ok |-> FALSE]
<1>1. /\ jobs \in Seq(Keys) /\ IsInjective(jobs) /\ jobs # <<>> /\ wk \in [Workers -> WorkerRec]
      /\ walks \in [Keys -> Nat] /\ wk[w].pc = "range"
  BY DEF WalkInv, WalkTypeOK, OnePlace, Take
<1>2. /\ jobs' = Tail(jobs) /\ wk' = [wk EXCEPT ![w] = r] /\ walks' = [walks EXCEPT ![k] = @ + 1]
      /\ deps' = deps /\ walk' = walk /\ mirrored' = mirrored /\ errors' = errors /\ coord' = coord
      /\ found' = found
  BY DEF Take
<1>3. /\ k \in Keys /\ k \in InJobs /\ Tail(jobs) \in Seq(Keys)
      /\ Len(Tail(jobs)) = Len(jobs) - 1 /\ Len(jobs) >= 1
      /\ IsInjective(Tail(jobs)) /\ Range(Tail(jobs)) = InJobs \ {k}
  BY <1>1, TailOf DEF InJobs
<1>4. r \in WorkerRec /\ r.pc = "walk" /\ r.key = k
  BY <1>3 DEF WorkerRec
<1> HIDE DEF k, r
<1>5. wk' \in [Workers -> WorkerRec] /\ wk'[w] = r /\ \A x \in Workers : x # w => wk'[x] = wk[x]
  BY <1>1, <1>2, <1>4
<1>6. w \notin Busy /\ Busy' = Busy \cup {w}
  BY <1>1, <1>4, <1>5 DEF Busy
<1>7. InWorkers' = InWorkers \cup {k}
  BY <1>4, <1>5, <1>6 DEF InWorkers, Busy
<1>8. InPending' = InPending /\ InJobs' = InJobs \ {k} /\ InFound' = InFound /\ Counted' = Counted
  BY <1>2, <1>3 DEF InPending, InJobs, InFound, Counted
<1>9. OnePlace /\ EveryPlace /\ k \notin InWorkers /\ k \notin InFound \cup Counted
  BY <1>3 DEF WalkInv, OnePlace
<1>10. WalkTypeOK'
  <2>1. walks' \in [Keys -> Nat]
    BY <1>1, <1>2, <1>3
  <2>2. \A x \in Busy' : wk'[x].key \in Keys
    BY <1>3, <1>4, <1>5, <1>6 DEF WalkInv, WalkTypeOK, Busy
  <2> QED
    BY <1>2, <1>3, <1>5, <2>1, <2>2 DEF WalkInv, WalkTypeOK
<1>11. OnePlace' /\ EveryPlace'
  <2>1. ASSUME NEW u \in Busy', NEW v \in Busy', wk'[u].key = wk'[v].key PROVE u = v
    <3>1. \A x \in Busy : wk'[x].key = wk[x].key /\ wk[x].key \in InWorkers
      BY <1>5, <1>6 DEF InWorkers, Busy
    <3> QED
      BY <1>4, <1>5, <1>6, <1>9, <2>1, <3>1 DEF OnePlace
  <2> QED
    BY <1>2, <1>3, <1>7, <1>8, <1>9, <2>1 DEF OnePlace, EveryPlace
<1>12. InflightCounts' /\ EndsEmpty'
  <2>1. Len(walk.pending) \in Nat /\ Len(jobs) \in Nat /\ Len(found) \in Nat /\ InflightCounts
    BY DEF WalkInv, WalkTypeOK
  <2>2. IsFiniteSet(Busy) /\ Cardinality(Busy) \in Nat
    BY WalkAssumption, FS_Subset, FS_CardinalityType DEF Busy
  <2>3. Cardinality(Busy') = Cardinality(Busy) + 1
    BY <1>6, <2>2, FS_AddElement
  <2>4. /\ walk.inflight = Len(walk.pending) + Len(jobs) + Cardinality(Busy) + Len(found)
        /\ walk' = walk /\ Len(jobs') = Len(jobs) - 1 /\ found' = found
    BY <1>2, <1>3, <2>1 DEF InflightCounts
  <2>5. InflightCounts'
    BY <2>1, <2>2, <2>3, <2>4 DEF InflightCounts
  <2> QED
    BY <1>2, <2>5 DEF WalkInv, EndsEmpty
<1>13. WalkedOnce'
  <2>1. ASSUME NEW x \in Keys
        PROVE  walks'[x] = IF x \in InWorkers' \cup InFound' \cup Counted' THEN 1 ELSE 0
    <3>1. walks[x] = IF x \in InWorkers \cup InFound \cup Counted THEN 1 ELSE 0
      BY DEF WalkInv, WalkedOnce
    <3>2. CASE x = k
      BY <1>1, <1>2, <1>3, <1>7, <1>9, <3>1, <3>2
    <3>3. CASE x # k
      BY <1>1, <1>2, <1>3, <1>7, <1>8, <3>1, <3>3
    <3> QED
      BY <3>2, <3>3
  <2> QED
    BY <2>1 DEF WalkedOnce
<1>14. VisitedClosed' /\ VisitedLeast'
  BY <1>2 DEF WalkInv, VisitedClosed, VisitedLeast, Closed
<1> QED
  BY <1>10, <1>11, <1>12, <1>13, <1>14 DEF WalkInv

(* walkOne answers: the worker keeps its key.                              *)
LEMMA WalkOneStep == ASSUME WalkInv, NEW w \in Workers, WalkOne(w) PROVE WalkInv'
<1>1. wk \in [Workers -> WorkerRec] /\ wk[w].pc = "walk"
  BY DEF WalkInv, WalkTypeOK, WalkOne
<1>2. PICK ok \in BOOLEAN : wk' = [wk EXCEPT ![w].pc = "send", ![w].ok = ok]
  BY DEF WalkOne
<1>3. /\ deps' = deps /\ walk' = walk /\ mirrored' = mirrored /\ errors' = errors /\ coord' = coord
      /\ jobs' = jobs /\ found' = found /\ walks' = walks
  BY DEF WalkOne
<1>4. /\ wk'[w] = [wk[w] EXCEPT !.pc = "send", !.ok = ok] /\ \A x \in Workers : x # w => wk'[x] = wk[x]
      /\ DOMAIN wk' = Workers
  BY <1>1, <1>2
<1>5. wk[w] \in WorkerRec
  BY <1>1
<1>6. wk'[w] \in WorkerRec /\ wk'[w].pc = "send" /\ wk'[w].key = wk[w].key
  BY <1>4, <1>5 DEF WorkerRec
<1>7. wk' \in [Workers -> WorkerRec]
  <2>1. wk' = [x \in Workers |-> wk'[x]] /\ \A x \in Workers : wk'[x] \in WorkerRec
    BY <1>1, <1>2, <1>4, <1>6
  <2> QED
    BY <2>1
<1>8. Busy' = Busy /\ \A x \in Busy : wk'[x].key = wk[x].key
  BY <1>1, <1>4, <1>6 DEF Busy
<1>9. /\ InPending' = InPending /\ InJobs' = InJobs /\ InFound' = InFound /\ Counted' = Counted
      /\ InWorkers' = InWorkers
  BY <1>3, <1>8 DEF InPending, InJobs, InFound, Counted, InWorkers
<1>10. WalkTypeOK'
  BY <1>3, <1>7, <1>8 DEF WalkInv, WalkTypeOK
<1>11. OnePlace' /\ EveryPlace'
  BY <1>3, <1>8, <1>9 DEF WalkInv, OnePlace, EveryPlace
<1>12. InflightCounts' /\ EndsEmpty'
  BY <1>3, <1>8 DEF WalkInv, InflightCounts, EndsEmpty
<1>13. WalkedOnce' /\ VisitedClosed' /\ VisitedLeast'
  BY <1>3, <1>9 DEF WalkInv, WalkedOnce, VisitedClosed, VisitedLeast, Closed
<1> QED
  BY <1>10, <1>11, <1>12, <1>13 DEF WalkInv

(* A worker sends its discovery.                                           *)
LEMMA SendStep == ASSUME WalkInv, NEW w \in Workers, Send(w) PROVE WalkInv'
<1> DEFINE k == wk[w].key
           b == wk[w].ok
<1>1. /\ found \in Seq(Keys \X BOOLEAN) /\ IsInjective(Firsts(found)) /\ wk \in [Workers -> WorkerRec]
      /\ wk[w].pc = "send" /\ w \in Busy /\ k \in Keys /\ k \in InWorkers /\ b \in BOOLEAN
  BY DEF WalkInv, WalkTypeOK, OnePlace, Send, Busy, InWorkers, WorkerRec
<1>2. /\ found' = Append(found, <<k, b>>) /\ wk' = [wk EXCEPT ![w] = Resting]
      /\ deps' = deps /\ walk' = walk /\ mirrored' = mirrored /\ errors' = errors /\ coord' = coord
      /\ jobs' = jobs /\ walks' = walks
  BY DEF Send
<1>3. Resting \in WorkerRec /\ Resting.pc = "range"
  BY DEF Resting, WorkerRec
<1>4. wk' \in [Workers -> WorkerRec] /\ wk'[w].pc = "range" /\ \A x \in Workers : x # w => wk'[x] = wk[x]
  BY <1>1, <1>2, <1>3
<1>5. Busy' = Busy \ {w} /\ \A x \in Busy' : wk'[x].key = wk[x].key
  BY <1>4 DEF Busy
<1>6. \A x, y \in Busy : wk[x].key = wk[y].key => x = y
  BY DEF WalkInv, OnePlace
<1>7. InWorkers' = InWorkers \ {k}
  BY <1>1, <1>5, <1>6 DEF InWorkers
<1> HIDE DEF k, b
<1>8. OnePlace /\ EveryPlace /\ k \notin InFound
  BY <1>1 DEF WalkInv, OnePlace
<1>9. /\ found' \in Seq(Keys \X BOOLEAN) /\ Len(found') = Len(found) + 1
      /\ InFound' = InFound \cup {k} /\ IsInjective(Firsts(found'))
  <2>1. Firsts(found) \in Seq(Keys) /\ Firsts(found') = Append(Firsts(found), k)
    BY <1>1, <1>2, FirstsOf
  <2>2. found' \in Seq(Keys \X BOOLEAN) /\ Len(found') = Len(found) + 1
    <3>1. <<k, b>> \in Keys \X BOOLEAN
      BY <1>1
    <3> QED
      BY <1>1, <1>2, <3>1, AppendProperties
  <2>3. IsInjective(Firsts(found)) /\ k \notin Range(Firsts(found)) /\ k \in Keys
    BY <1>1, <1>8 DEF InFound
  <2>4. Range(Append(Firsts(found), k)) = Range(Firsts(found)) \cup {k} /\ IsInjective(Append(Firsts(found), k))
    BY <2>1, <2>3, AppendOf
  <2> QED
    BY <2>1, <2>2, <2>4 DEF InFound
<1>10. InPending' = InPending /\ InJobs' = InJobs /\ Counted' = Counted
  BY <1>2 DEF InPending, InJobs, Counted
<1>11. WalkTypeOK'
  <2>1. \A x \in Busy' : wk'[x].key \in Keys
    BY <1>5 DEF WalkInv, WalkTypeOK
  <2> QED
    BY <1>2, <1>4, <1>9, <2>1 DEF WalkInv, WalkTypeOK
<1>12. OnePlace' /\ EveryPlace'
  <2>1. \A x, y \in Busy' : wk'[x].key = wk'[y].key => x = y
    BY <1>5, <1>6
  <2> QED
    BY <1>1, <1>2, <1>7, <1>8, <1>9, <1>10, <2>1 DEF OnePlace, EveryPlace
<1>13. InflightCounts' /\ EndsEmpty'
  <2>1. Len(walk.pending) \in Nat /\ Len(jobs) \in Nat /\ Len(found) \in Nat /\ InflightCounts
    BY DEF WalkInv, WalkTypeOK
  <2>2. IsFiniteSet(Busy) /\ Cardinality(Busy) \in Nat
    BY WalkAssumption, FS_Subset, FS_CardinalityType DEF Busy
  <2>3. Cardinality(Busy') = Cardinality(Busy) - 1 /\ Cardinality(Busy) >= 1
    BY <1>1, <1>5, <2>2, FS_RemoveElement, FS_EmptySet
  <2>4. /\ walk.inflight = Len(walk.pending) + Len(jobs) + Cardinality(Busy) + Len(found)
        /\ walk' = walk /\ Len(found') = Len(found) + 1 /\ jobs' = jobs
    BY <1>2, <1>9, <2>1 DEF InflightCounts
  <2>5. InflightCounts'
    BY <2>1, <2>2, <2>3, <2>4 DEF InflightCounts
  <2> QED
    BY <1>2, <2>5 DEF WalkInv, EndsEmpty
<1>14. WalkedOnce'
  <2>1. InWorkers' \cup InFound' \cup Counted' = InWorkers \cup InFound \cup Counted
    BY <1>1, <1>7, <1>9, <1>10
  <2> QED
    BY <1>2, <2>1 DEF WalkInv, WalkedOnce
<1>15. VisitedClosed' /\ VisitedLeast'
  BY <1>2 DEF WalkInv, VisitedClosed, VisitedLeast, Closed
<1> QED
  BY <1>11, <1>12, <1>13, <1>14, <1>15 DEF WalkInv

(* The invariant gives the closure once inflight is zero.                  *)
LEMMA WalkInvExact == ASSUME WalkInv PROVE ClosureExact
<1> SUFFICES ASSUME coord = "returned"
             PROVE  /\ walk.visited = Reach
                    /\ \A k \in Keys : walks[k] = IF k \in walk.visited THEN 1 ELSE 0
                    /\ mirrored \cup errors = walk.visited /\ mirrored \cap errors = {}
  BY DEF ClosureExact
<1>1. walk.inflight = 0 /\ InflightCounts
  BY DEF WalkInv, EndsEmpty
<1>2. IsFiniteSet(Busy) /\ Cardinality(Busy) \in Nat
  BY WalkAssumption, FS_Subset, FS_CardinalityType DEF Busy
<1>3. /\ walk.pending \in Seq(Keys) /\ jobs \in Seq(Keys) /\ found \in Seq(Keys \X BOOLEAN)
      /\ Len(walk.pending) \in Nat /\ Len(jobs) \in Nat /\ Len(found) \in Nat /\ walk.visited \subseteq Keys
  BY DEF WalkInv, WalkTypeOK
<1>4. Len(walk.pending) = 0 /\ Len(jobs) = 0 /\ Len(found) = 0 /\ Cardinality(Busy) = 0
  BY <1>1, <1>2, <1>3 DEF InflightCounts
<1>5. walk.pending = <<>> /\ jobs = <<>> /\ found = <<>> /\ Busy = {}
  BY <1>2, <1>3, <1>4, EmptySeq, FS_EmptySet
<1>6. InPending = {} /\ InJobs = {} /\ InFound = {} /\ InWorkers = {}
  BY <1>5 DEF InPending, InJobs, InFound, InWorkers, Range, Firsts
<1>7. walk.visited = Counted
  BY <1>6 DEF WalkInv, EveryPlace
<1>8. walk.visited = Reach
  BY <1>3 DEF WalkInv, VisitedClosed, VisitedLeast, Reach
<1> QED
  BY <1>6, <1>7, <1>8 DEF WalkInv, WalkedOnce, OnePlace, Counted

(* Whatever the registry's graph, cycles and failures, and however many    *)
(* workers share the walk: what RecursiveFromRegistry returns is the       *)
(* closure of its seeds, every key of it fetched once and reported once.   *)
THEOREM WalkReturnsClosure == WalkSpec => []ClosureExact
<1>1. WalkInit => WalkInv
  BY WalkInitInv
<1>2. WalkInv /\ [WalkNext]_walkVars => WalkInv'
  <2> SUFFICES ASSUME WalkInv, [WalkNext]_walkVars PROVE WalkInv'
    OBVIOUS
  <2>1. CASE UNCHANGED walkVars
    <3>1. /\ deps' = deps /\ walk' = walk /\ mirrored' = mirrored /\ errors' = errors /\ coord' = coord
          /\ jobs' = jobs /\ found' = found /\ wk' = wk /\ walks' = walks
      BY <2>1 DEF walkVars
    <3>2. /\ InPending' = InPending /\ InJobs' = InJobs /\ InFound' = InFound /\ Counted' = Counted
          /\ Busy' = Busy /\ InWorkers' = InWorkers
      BY <3>1 DEF InPending, InJobs, InFound, Counted, Busy, InWorkers
    <3>3. WalkTypeOK' /\ InflightCounts' /\ EndsEmpty'
      BY <3>1, <3>2 DEF WalkInv, WalkTypeOK, InflightCounts, EndsEmpty
    <3>4. OnePlace' /\ EveryPlace' /\ WalkedOnce'
      BY <3>1, <3>2 DEF WalkInv, OnePlace, EveryPlace, WalkedOnce
    <3>5. VisitedClosed' /\ VisitedLeast'
      BY <3>1 DEF WalkInv, VisitedClosed, VisitedLeast, Closed
    <3> QED
      BY <3>3, <3>4, <3>5 DEF WalkInv
  <2>2. CASE Coordinator
    BY <2>2, DispatchStep, AbsorbStep, EndSteps DEF Coordinator
  <2>3. ASSUME NEW w \in Workers, Worker(w) PROVE WalkInv'
    BY <2>3, TakeStep, WalkOneStep, SendStep, EndSteps DEF Worker
  <2> QED
    BY <2>1, <2>2, <2>3 DEF WalkNext
<1>3. WalkInv => ClosureExact
  BY WalkInvExact
<1> QED
  BY <1>1, <1>2, <1>3, PTL DEF WalkSpec

(***************************************************************************)
(* The closure of a symbol index (SymbolClosure)                           *)
(***************************************************************************)
\* What the corpus declares, and the coordinates it names.
AllDeclared == Range(corpus.root) \cup UNION {Range(corpus.of[c]) : c \in DOMAIN corpus.of}
Named == {<<d.name, d.version>> : d \in AllDeclared}

SymbolTypes ==
    /\ corpus \in Corpora
    /\ reports \subseteq DOMAIN corpus.of /\ modfiles \subseteq DOMAIN corpus.of
    /\ listed \in Seq(AllDeclared) /\ queue \in Seq(Named) /\ IsInjective(queue)
    /\ \A n \in DOMAIN best : best[n] \in Nat
    /\ DOMAIN asked \subseteq Named /\ \A c \in DOMAIN asked : Range(asked[c]) \subseteq AllDeclared
    /\ \A r \in DOMAIN resolved : resolved[r] \in Named
    /\ symbols \in {"idle", "root", "walk", "done"}

\* A dependency the answer has taken into account.
Counts(d) == d.version # 0 => d.name \in DOMAIN best /\ d.version <= best[d.name]

\* What has been read has been recorded, or is about to be.
SymbolPhase ==
    /\ symbols = "idle" => DOMAIN best = {} /\ DOMAIN resolved = {} /\ listed = <<>>
    /\ symbols \in {"idle", "root"} => DOMAIN asked = {}
    /\ symbols = "root" => Range(listed) \subseteq Range(corpus.root)
    /\ symbols = "walk" => \E c \in DOMAIN asked : Range(listed) \subseteq Range(asked[c])
    /\ symbols = "done" => listed = <<>> /\ queue = <<>>
Recorded ==
    /\ symbols # "idle" => \A d \in Range(corpus.root) :
                              Counts(d) \/ (symbols = "root" /\ d \in Range(listed))
    /\ \A c \in DOMAIN asked : \A d \in NonDev(asked[c]) :
          Counts(d) \/ (symbols = "walk" /\ d \in Range(listed))

\* A coordinate is queued once: a module's next one is greater than its last.
QueuedOnce ==
    /\ Range(queue) \cap DOMAIN asked = {}
    /\ \A c \in Range(queue) \cup DOMAIN asked : c[1] \in DOMAIN best /\ c[2] <= best[c[1]]

\* Winners are expanded or will be, and were read.
WinnersQueued == \A n \in DOMAIN best : <<n, best[n]>> \in DOMAIN asked \cup Range(queue)
Seen == Range(corpus.root) \cup UNION {NonDev(asked[c]) : c \in DOMAIN asked}
WinnersSeen == \A n \in DOMAIN best : \E d \in Seen : d.name = n /\ d.version = best[n]
ReposNoNewer ==
    \A r \in DOMAIN resolved : resolved[r][1] \in DOMAIN best /\ resolved[r][2] <= best[resolved[r][1]]

SymbolInv == /\ SymbolTypes /\ SymbolPhase /\ Recorded /\ QueuedOnce
             /\ WinnersQueued /\ WinnersSeen /\ ReposNoNewer

(* What is declared is a list of dependencies with natural versions.       *)
LEMMA DeclaredLists ==
    ASSUME corpus \in Corpora
    PROVE  /\ corpus.root \in Seq(AllDeclared)
           /\ \A c \in DOMAIN corpus.of : corpus.of[c] \in Seq(AllDeclared)
           /\ \A d \in AllDeclared : d.version \in Nat
<1>1. /\ corpus.root \in Seq(Range(corpus.root))
      /\ \A d \in Range(corpus.root) : d.version \in Nat
  BY SymbolAssumption
<1>2. ASSUME NEW c \in DOMAIN corpus.of
      PROVE  /\ corpus.of[c] \in Seq(Range(corpus.of[c]))
             /\ \A d \in Range(corpus.of[c]) : d.version \in Nat
  BY SymbolAssumption
<1>3. ASSUME NEW A, NEW B, A \subseteq B, NEW s \in Seq(A) PROVE s \in Seq(B)
  BY <1>3
<1>4. corpus.root \in Seq(AllDeclared)
  <2>1. Range(corpus.root) \subseteq AllDeclared
    BY DEF AllDeclared
  <2> QED
    BY <1>1, <1>3, <2>1
<1>5. ASSUME NEW c \in DOMAIN corpus.of PROVE corpus.of[c] \in Seq(AllDeclared)
  <2>1. Range(corpus.of[c]) \subseteq AllDeclared
    BY DEF AllDeclared
  <2> QED
    BY <1>2, <1>3, <2>1
<1> QED
  BY <1>1, <1>2, <1>4, <1>5 DEF AllDeclared

(* The head of a list and the rest.                                        *)
LEMMA HeadAndRest ==
    ASSUME NEW S, NEW s \in Seq(S), s # <<>>
    PROVE  /\ Head(s) \in S /\ Tail(s) \in Seq(S)
           /\ Range(s) = {Head(s)} \cup Range(Tail(s))
<1>1. /\ Len(s) \in Nat /\ Len(s) >= 1 /\ DOMAIN s = 1..Len(s) /\ Head(s) = s[1] /\ s[1] \in S
      /\ Tail(s) \in Seq(S) /\ DOMAIN Tail(s) = 1..(Len(s) - 1)
      /\ \A i \in 1..(Len(s) - 1) : Tail(s)[i] = s[i + 1]
  OBVIOUS
<1>2. ASSUME NEW x \in Range(s) PROVE x = Head(s) \/ x \in Range(Tail(s))
  <2>1. PICK i \in 1..Len(s) : x = s[i]
    BY <1>1, <1>2 DEF Range
  <2>2. CASE i = 1
    BY <1>1, <2>1, <2>2
  <2>3. CASE i # 1
    <3>1. i - 1 \in 1..(Len(s) - 1) /\ (i - 1) + 1 = i
      BY <1>1, <2>3
    <3> QED
      BY <1>1, <2>1, <3>1 DEF Range
  <2> QED
    BY <2>2, <2>3
<1>3. ASSUME NEW x \in Range(Tail(s)) PROVE x \in Range(s)
  <2>1. PICK i \in 1..(Len(s) - 1) : x = s[i + 1]
    BY <1>1, <1>3 DEF Range
  <2>2. i + 1 \in 1..Len(s)
    BY <1>1
  <2> QED
    BY <1>1, <2>1, <2>2 DEF Range
<1>4. Head(s) \in Range(s)
  BY <1>1 DEF Range
<1> QED
  BY <1>1, <1>2, <1>3, <1>4

(* The symbol walk begins with nothing recorded.                           *)
LEMMA SymbolInitInv == ASSUME SymbolInit PROVE SymbolInv
<1>1. /\ corpus \in Corpora /\ reports = {} /\ modfiles \subseteq DOMAIN corpus.of
      /\ queue = <<>> /\ listed = <<>> /\ symbols = "idle"
      /\ DOMAIN best = {} /\ DOMAIN resolved = {} /\ DOMAIN asked = {}
  BY DEF SymbolInit, Empty
<1>2. Range(<<>>) = {} /\ IsInjective(<<>>) /\ <<>> \in Seq(AllDeclared) /\ <<>> \in Seq(Named)
  BY DEF Range, IsInjective
<1> QED
  BY <1>1, <1>2 DEF SymbolInv, SymbolTypes, SymbolPhase, Recorded, QueuedOnce, WinnersQueued, WinnersSeen, ReposNoNewer

(* The walk begins.                                                        *)
LEMMA StartSymbolsKeeps == ASSUME SymbolInv, StartSymbols PROVE SymbolInv'
<1>1. /\ corpus' = corpus /\ reports' = reports /\ modfiles' = modfiles /\ queue' = queue /\ best' = best
      /\ resolved' = resolved /\ asked' = asked /\ symbols' = "root" /\ listed' = corpus.root /\ symbols = "idle"
  BY DEF StartSymbols
<1>2. corpus.root \in Seq(AllDeclared)
  BY DeclaredLists DEF SymbolInv, SymbolTypes
<1>3. SymbolTypes'
  BY <1>1, <1>2 DEF SymbolInv, SymbolTypes, Named, AllDeclared
<1>4. SymbolPhase' /\ Recorded'
  BY <1>1 DEF SymbolInv, SymbolPhase, Recorded
<1> QED
  BY <1>1, <1>3, <1>4 DEF SymbolInv, QueuedOnce, WinnersQueued, WinnersSeen, ReposNoNewer, Seen

(* A dependency that wins nothing, or does not count, changes nothing.     *)
LEMMA PassedOverKeeps ==
    ASSUME SymbolInv, symbols \in {"root", "walk"}, listed # <<>>,
           Ignored(Head(listed)) \/ ~Promoted(best, Head(listed)),
           listed' = Tail(listed), UNCHANGED <<corpus, reports, modfiles, queue, best, resolved, asked, symbols>>
    PROVE  SymbolInv'
<1> DEFINE d == Head(listed)
<1>1. /\ d \in AllDeclared /\ Tail(listed) \in Seq(AllDeclared)
      /\ Range(listed) = {d} \cup Range(Tail(listed)) /\ d.version \in Nat
  BY HeadAndRest, DeclaredLists DEF SymbolInv, SymbolTypes
<1> HIDE DEF d
<1>2. Counts(d) \/ (symbols = "walk" /\ d.dev)
  <2>1. CASE ~Promoted(best, d)
    BY <1>1, <2>1 DEF Promoted, VersionIsNewer, Counts, SymbolInv, SymbolTypes
  <2>2. CASE Ignored(d)
    BY <2>2 DEF Ignored
  <2> QED
    BY <2>1, <2>2 DEF d
<1>3. SymbolTypes'
  BY <1>1 DEF SymbolInv, SymbolTypes, Named, AllDeclared
<1>4. SymbolPhase'
  BY <1>1 DEF SymbolInv, SymbolPhase
<1>5. Recorded'
  BY <1>1, <1>2 DEF SymbolInv, Recorded, Counts, NonDev
<1> QED
  BY <1>3, <1>4, <1>5 DEF SymbolInv, QueuedOnce, WinnersQueued, WinnersSeen, ReposNoNewer, Seen

(* A dependency that wins: its module has a greater version than any that  *)
(* was queued before.                                                      *)
LEMMA PromotedKeeps ==
    ASSUME SymbolInv, symbols \in {"root", "walk"}, listed # <<>>,
           ~Ignored(Head(listed)), Promoted(best, Head(listed)),
           Record
    PROVE  SymbolInv'
<1>0. PICK d : d = Head(listed)
  OBVIOUS
<1> DEFINE c == <<d.name, d.version>>
<1>1. /\ d \in AllDeclared /\ Tail(listed) \in Seq(AllDeclared)
      /\ Range(listed) = {d} \cup Range(Tail(listed)) /\ d.version \in Nat
  BY <1>0, HeadAndRest, DeclaredLists DEF SymbolInv, SymbolTypes
<1>2. /\ best' = [n \in DOMAIN best \cup {d.name} |-> IF n = d.name THEN d.version ELSE best[n]]
      /\ resolved' = [r \in DOMAIN resolved \cup {d.repo} |-> IF r = d.repo THEN c ELSE resolved[r]]
      /\ queue' = Append(queue, c)
      /\ listed' = Tail(listed) /\ corpus' = corpus /\ reports' = reports /\ modfiles' = modfiles
      /\ asked' = asked /\ symbols' = symbols
  BY <1>0 DEF Record
<1>3. d.version # 0 /\ (d.name \in DOMAIN best => d.version > best[d.name]) /\ ~(symbols = "walk" /\ d.dev)
  BY <1>0 DEF Promoted, VersionIsNewer, Ignored
<1>4. c \in Named /\ c[1] = d.name /\ c[2] = d.version
  BY <1>1 DEF Named
<1> HIDE DEF c
<1>5. /\ DOMAIN best' = DOMAIN best \cup {d.name} /\ best'[d.name] = d.version
      /\ \A n \in DOMAIN best : n # d.name => best'[n] = best[n]
      /\ \A n \in DOMAIN best : best[n] \in Nat /\ best[n] <= best'[n]
      /\ \A n \in DOMAIN best' : best'[n] \in Nat
  BY <1>1, <1>2, <1>3 DEF SymbolInv, SymbolTypes
<1>6. c \notin Range(queue) \cup DOMAIN asked
  <2> SUFFICES ASSUME c \in Range(queue) \cup DOMAIN asked PROVE FALSE
    OBVIOUS
  <2>1. d.name \in DOMAIN best /\ d.version <= best[d.name]
    BY <1>4 DEF SymbolInv, QueuedOnce
  <2> QED
    BY <1>1, <1>3, <1>5, <2>1
<1>7. queue' \in Seq(Named) /\ IsInjective(queue') /\ Range(queue') = Range(queue) \cup {c}
  BY <1>2, <1>4, <1>6, AppendOf DEF SymbolInv, SymbolTypes
<1>8. Named' = Named /\ AllDeclared' = AllDeclared
  BY <1>2 DEF Named, AllDeclared
<1>9. \A x \in AllDeclared : Counts(x) => Counts(x)'
  <2>1. \A x \in AllDeclared : x.version \in Nat
    BY DeclaredLists DEF SymbolInv, SymbolTypes
  <2> QED
    BY <1>5, <2>1 DEF Counts
<1>10. \A x \in Named : x[2] \in Nat
  BY DeclaredLists DEF SymbolInv, SymbolTypes, Named
<1>11. SymbolTypes'
  <2>1. \A r \in DOMAIN resolved' : resolved'[r] \in Named
    BY <1>2, <1>4 DEF SymbolInv, SymbolTypes
  <2> QED
    BY <1>1, <1>2, <1>5, <1>7, <1>8, <2>1 DEF SymbolInv, SymbolTypes
<1>12. SymbolPhase'
  BY <1>1, <1>2 DEF SymbolInv, SymbolPhase
<1>13. Recorded'
  <2>1. Counts(d)'
    BY <1>1, <1>5 DEF Counts
  <2>2. ASSUME NEW x \in Range(corpus.root)
        PROVE  Counts(x)' \/ (symbols = "root" /\ x \in Range(listed'))
    <3>1. Counts(x) \/ (symbols = "root" /\ x \in Range(listed))
      BY DEF SymbolInv, Recorded
    <3>2. x \in AllDeclared
      BY DEF AllDeclared
    <3> QED
      BY <1>1, <1>2, <1>9, <2>1, <3>1, <3>2
  <2>3. ASSUME NEW y \in DOMAIN asked, NEW x \in NonDev(asked[y])
        PROVE  Counts(x)' \/ (symbols = "walk" /\ x \in Range(listed'))
    <3>1. Counts(x) \/ (symbols = "walk" /\ x \in Range(listed))
      BY DEF SymbolInv, Recorded
    <3>2. x \in AllDeclared
      BY DEF SymbolInv, SymbolTypes, NonDev
    <3> QED
      BY <1>1, <1>2, <1>9, <2>1, <3>1, <3>2
  <2> QED
    BY <1>2, <2>2, <2>3 DEF Recorded
<1>14. QueuedOnce'
  <2>1. ASSUME NEW x \in Range(queue) \cup DOMAIN asked
        PROVE  x[1] \in DOMAIN best' /\ x[2] <= best'[x[1]]
    <3>1. x[1] \in DOMAIN best /\ x[2] <= best[x[1]]
      BY DEF SymbolInv, QueuedOnce
    <3>2. x[2] \in Nat
      <4>1. Range(queue) \subseteq Named
        BY DEF SymbolInv, SymbolTypes, Range
      <4> QED
        BY <1>10, <4>1 DEF SymbolInv, SymbolTypes
    <3> QED
      BY <1>5, <3>1, <3>2
  <2>2. c[1] \in DOMAIN best' /\ c[2] <= best'[c[1]]
    BY <1>1, <1>4, <1>5
  <2>3. Range(queue) \cap DOMAIN asked = {}
    BY DEF SymbolInv, QueuedOnce
  <2> QED
    BY <1>2, <1>6, <1>7, <2>1, <2>2, <2>3 DEF QueuedOnce
<1>15. WinnersQueued'
  BY <1>2, <1>4, <1>5, <1>7 DEF SymbolInv, WinnersQueued, c
<1>16. WinnersSeen'
  <2>1. Seen' = Seen
    BY <1>2 DEF Seen
  <2>2. d \in Seen
    <3>1. CASE symbols = "root"
      BY <1>1, <3>1 DEF SymbolInv, SymbolPhase, Seen
    <3>2. CASE symbols = "walk"
      <4>1. PICK y \in DOMAIN asked : Range(listed) \subseteq Range(asked[y])
        BY <3>2 DEF SymbolInv, SymbolPhase
      <4>2. d \in NonDev(asked[y])
        BY <1>1, <1>3, <3>2, <4>1 DEF NonDev
      <4> QED
        BY <4>2 DEF Seen
    <3> QED
      BY <3>1, <3>2
  <2>3. ASSUME NEW n \in DOMAIN best' PROVE \E x \in Seen : x.name = n /\ x.version = best'[n]
    <3>1. CASE n = d.name
      BY <1>5, <2>2, <3>1
    <3>2. CASE n # d.name
      BY <1>5, <3>2 DEF SymbolInv, WinnersSeen
    <3> QED
      BY <3>1, <3>2
  <2> QED
    BY <2>1, <2>3 DEF WinnersSeen
<1>17. ReposNoNewer'
  <2> SUFFICES ASSUME NEW r \in DOMAIN resolved'
               PROVE  resolved'[r][1] \in DOMAIN best' /\ resolved'[r][2] <= best'[resolved'[r][1]]
    BY DEF ReposNoNewer
  <2>1. CASE r = d.repo
    <3>1. resolved'[r] = c
      BY <1>2, <2>1
    <3> QED
      BY <1>1, <1>4, <1>5, <3>1
  <2>2. CASE r # d.repo
    <3>1. r \in DOMAIN resolved /\ resolved'[r] = resolved[r]
      BY <1>2, <2>2
    <3>2. resolved[r][1] \in DOMAIN best /\ resolved[r][2] <= best[resolved[r][1]] /\ resolved[r][2] \in Nat
      BY <1>10, <3>1 DEF SymbolInv, SymbolTypes, ReposNoNewer
    <3> QED
      BY <1>5, <3>1, <3>2
  <2> QED
    BY <2>1, <2>2
<1> QED
  BY <1>11, <1>12, <1>13, <1>14, <1>15, <1>16, <1>17 DEF SymbolInv

(* The next pair is asked for: its answer is what will be recorded next.   *)
LEMMA ExpandKeeps == ASSUME SymbolInv, ExpandSymbols PROVE SymbolInv'
<1> DEFINE c == Head(queue)
<1>1. /\ corpus' = corpus /\ reports' = reports /\ modfiles' = modfiles /\ best' = best /\ resolved' = resolved
      /\ symbols' = "walk" /\ queue' = Tail(queue) /\ queue # <<>> /\ listed = <<>> /\ symbols # "idle"
      /\ asked' = [x \in DOMAIN asked \cup {c} |-> IF x = c THEN listed' ELSE asked[x]]
  BY DEF ExpandSymbols
<1>2. listed' \in Seq(AllDeclared) /\ Range(listed') \subseteq AllDeclared
  <2>1. CASE FirstOf(c) # NoAnswer /\ listed' = FirstOf(c)[2]
    <3>1. c \in DOMAIN corpus.of /\ listed' = corpus.of[c]
      BY <2>1 DEF SymbolInv, SymbolTypes, FirstOf, DepsFromStore, DepsFromModuleBazel, NoAnswer
    <3> QED
      BY <3>1, DeclaredLists DEF SymbolInv, SymbolTypes, AllDeclared
  <2>2. CASE listed' = <<>>
    BY <2>2 DEF Range
  <2> QED
    BY <2>1, <2>2 DEF ExpandSymbols
<1>3. /\ c \in Named /\ c \in Range(queue) /\ Tail(queue) \in Seq(Named) /\ IsInjective(Tail(queue))
      /\ Range(Tail(queue)) = Range(queue) \ {c}
  BY <1>1, TailOf DEF SymbolInv, SymbolTypes
<1> HIDE DEF c
<1>4. /\ DOMAIN asked' = DOMAIN asked \cup {c} /\ asked'[c] = listed' /\ c \notin DOMAIN asked
      /\ \A x \in DOMAIN asked : asked'[x] = asked[x]
  BY <1>1, <1>3 DEF SymbolInv, QueuedOnce
<1>5. Named' = Named /\ AllDeclared' = AllDeclared
  BY <1>1 DEF Named, AllDeclared
<1>6. SymbolTypes'
  BY <1>1, <1>2, <1>3, <1>4, <1>5 DEF SymbolInv, SymbolTypes
<1>7. SymbolPhase'
  BY <1>1, <1>4 DEF SymbolPhase
<1>8. Recorded'
  <2>1. Range(listed) = {}
    BY <1>1 DEF Range
  <2>2. ASSUME NEW x \in DOMAIN asked', NEW d \in NonDev(asked'[x])
        PROVE  Counts(d) \/ d \in Range(listed')
    <3>1. CASE x = c
      BY <1>4, <2>2, <3>1 DEF NonDev
    <3>2. CASE x # c
      BY <1>4, <2>1, <2>2, <3>2 DEF SymbolInv, Recorded
    <3> QED
      BY <3>1, <3>2
  <2>3. \A d \in Range(corpus.root) : Counts(d)
    BY <1>1, <2>1 DEF SymbolInv, Recorded
  <2>4. \A d : Counts(d)' = Counts(d)
    BY <1>1 DEF Counts
  <2> QED
    BY <1>1, <2>2, <2>3, <2>4 DEF Recorded
<1>9. QueuedOnce' /\ WinnersQueued' /\ ReposNoNewer'
  BY <1>1, <1>3, <1>4 DEF SymbolInv, QueuedOnce, WinnersQueued, ReposNoNewer
<1>10. WinnersSeen'
  <2>1. Seen \subseteq Seen'
    BY <1>1, <1>4 DEF Seen
  <2> QED
    BY <1>1, <2>1 DEF SymbolInv, WinnersSeen
<1> QED
  BY <1>6, <1>7, <1>8, <1>9, <1>10 DEF SymbolInv

(* The end of the walk, and the writers beside it.                         *)
LEMMA SymbolRestKeeps ==
    ASSUME SymbolInv, SymbolsDone \/ MirrorModule \/ ReportModule \/ UNCHANGED symbolVars
    PROVE  SymbolInv'
<1>1. /\ corpus' = corpus /\ queue' = queue /\ listed' = listed /\ best' = best /\ resolved' = resolved
      /\ asked' = asked
      /\ symbols' = symbols \/ (symbols' = "done" /\ listed = <<>> /\ queue = <<>> /\ symbols # "idle")
      /\ reports' \subseteq DOMAIN corpus.of /\ modfiles' \subseteq DOMAIN corpus.of
  BY DEF SymbolsDone, MirrorModule, ReportModule, symbolVars, Known, SymbolInv, SymbolTypes
<1>2. Named' = Named /\ AllDeclared' = AllDeclared /\ Seen' = Seen /\ \A d : Counts(d)' = Counts(d)
  BY <1>1 DEF Named, AllDeclared, Seen, Counts
<1>3. SymbolTypes'
  BY <1>1, <1>2 DEF SymbolInv, SymbolTypes
<1>4. SymbolPhase'
  BY <1>1 DEF SymbolInv, SymbolPhase
<1>5. Recorded'
  <2>1. listed = <<>> => Range(listed) = {}
    BY DEF Range
  <2> QED
    BY <1>1, <1>2, <2>1 DEF SymbolInv, Recorded
<1> QED
  BY <1>1, <1>2, <1>3, <1>4, <1>5 DEF SymbolInv, QueuedOnce, WinnersQueued, WinnersSeen, ReposNoNewer

(* Whatever modules declare, in whatever order versions are met and while  *)
(* an ingest writes the mirror and the store: the finished closure of      *)
(* TransitiveClosure is closed under its winners.                          *)
THEOREM WinnersAreExpanded == SymbolSpec => []WinnersExpanded
<1>1. SymbolInit => SymbolInv
  BY SymbolInitInv
<1>2. SymbolInv /\ [SymbolNext]_symbolVars => SymbolInv'
  <2> SUFFICES ASSUME SymbolInv, [SymbolNext]_symbolVars PROVE SymbolInv'
    OBVIOUS
  <2>1. CASE Record
    <3>1. CASE ~Ignored(Head(listed)) /\ Promoted(best, Head(listed))
      BY <2>1, <3>1, PromotedKeeps DEF Record
    <3>2. CASE Ignored(Head(listed)) \/ ~Promoted(best, Head(listed))
      <4>1. /\ symbols \in {"root", "walk"} /\ listed # <<>> /\ listed' = Tail(listed)
            /\ UNCHANGED <<corpus, reports, modfiles, queue, best, resolved, asked, symbols>>
        BY <2>1, <3>2 DEF Record
      <4> QED
        BY <3>2, <4>1, PassedOverKeeps
    <3> QED
      BY <3>1, <3>2
  <2> QED
    BY <2>1, StartSymbolsKeeps, ExpandKeeps, SymbolRestKeeps DEF SymbolNext
<1>3. SymbolInv => WinnersExpanded
  <2> SUFFICES ASSUME SymbolInv, symbols = "done"
               PROVE  /\ \A n \in DOMAIN best : <<n, best[n]>> \in DOMAIN asked
                      /\ \A d \in Range(corpus.root) \cup UNION {NonDev(asked[<<n, best[n]>>]) : n \in DOMAIN best} :
                            d.version # 0 => d.name \in DOMAIN best /\ d.version <= best[d.name]
                      /\ \A n \in DOMAIN best : \E d \in Seen : d.name = n /\ d.version = best[n]
                      /\ \A r \in DOMAIN resolved : resolved[r][2] <= best[resolved[r][1]]
    BY DEF WinnersExpanded, Seen
  <2>1. queue = <<>> /\ Range(queue) = {}
    BY DEF SymbolInv, SymbolPhase, Range
  <2>2. \A n \in DOMAIN best : <<n, best[n]>> \in DOMAIN asked
    BY <2>1 DEF SymbolInv, WinnersQueued
  <2>3. /\ \A d \in Range(corpus.root) : Counts(d)
        /\ \A c \in DOMAIN asked : \A d \in NonDev(asked[c]) : Counts(d)
    BY DEF SymbolInv, Recorded
  <2> QED
    BY <2>2, <2>3 DEF SymbolInv, WinnersSeen, ReposNoNewer, Counts
<1> QED
  BY <1>1, <1>2, <1>3, PTL DEF SymbolSpec

(***************************************************************************)
(* Diffing two closures (ClosureDiff)                                      *)
(***************************************************************************)
DiffTypes ==
    /\ diffWorker \in [DiffWorkers -> DiffModules \cup {NoJob, "exited"}]
    /\ Changed \subseteq DiffModules /\ jobsLeft \subseteq Changed
    /\ DOMAIN diffs \subseteq Changed /\ failures \subseteq Changed
    /\ \A m \in DOMAIN diffs : diffs[m] \in 0..MaxFindings
    /\ breaking \in Nat
    /\ compute \in {"walk", "failed", "dispatch", "wait", "cancelled", "report", "context error"}

Held(m) == \E w \in DiffWorkers : diffWorker[w] = m

\* Before the jobs are known there is nothing; afterwards each is in one place.
NothingYet ==
    compute \in {"walk", "failed"} =>
        /\ jobsLeft = {} /\ DOMAIN diffs = {} /\ failures = {}
        /\ \A w \in DiffWorkers : diffWorker[w] = NoJob

EachInOnePlace ==
    /\ compute \notin {"walk", "failed"} =>
          \A m \in Changed : m \in jobsLeft \/ Held(m) \/ m \in DOMAIN diffs \/ m \in failures
    /\ \A w \in DiffWorkers : diffWorker[w] \in DiffModules =>
          /\ diffWorker[w] \in Changed
          /\ diffWorker[w] \notin jobsLeft \cup DOMAIN diffs \cup failures
          /\ \A v \in DiffWorkers : diffWorker[v] = diffWorker[w] => v = w
    /\ jobsLeft \cap (DOMAIN diffs \cup failures) = {}
    /\ DOMAIN diffs \cap failures = {}

DiffInv ==
    /\ DiffTypes /\ NothingYet /\ EachInOnePlace
    /\ compute \in {"wait", "report"} => jobsLeft = {}
    /\ compute = "report" => \A w \in DiffWorkers : diffWorker[w] = "exited"
    /\ breaking = Cardinality(BreakingFindings)

(* Findings are finitely many, and adding a module with n of them adds n   *)
(* to their number (out.ClosureBreakingTotal += the breaking findings).    *)
LEMMA FindingsCount ==
    ASSUME NEW D \in SUBSET DiffModules, NEW d, NEW m \in DiffModules \ D, NEW n \in 0..MaxFindings
    PROVE  LET F == {f \in DiffModules \X (1..MaxFindings) : f[1] \in D /\ f[2] <= d[f[1]]}
               G == {f \in DiffModules \X (1..MaxFindings) :
                        f[1] \in D \cup {m} /\ f[2] <= (IF f[1] = m THEN n ELSE d[f[1]])}
           IN  Cardinality(G) = Cardinality(F) + n /\ Cardinality(F) \in Nat
<1> DEFINE All == DiffModules \X (1..MaxFindings)
           F == {f \in All : f[1] \in D /\ f[2] <= d[f[1]]}
           G == {f \in All : f[1] \in D \cup {m} /\ f[2] <= (IF f[1] = m THEN n ELSE d[f[1]])}
           N == {m} \X (1..n)
<1>1. IsFiniteSet(1..MaxFindings) /\ IsFiniteSet(1..n) /\ Cardinality(1..n) = n /\ n \in Nat
  BY FS_Interval, DiffAssumption
<1>2. IsFiniteSet(All)
  BY <1>1, FS_Product, DiffAssumption
<1>3. IsFiniteSet(F)
  <2>1. F \in SUBSET All
    OBVIOUS
  <2> QED BY <2>1, <1>2, FS_Subset
<1>4. IsFiniteSet(N) /\ Cardinality(N) = n
  <2>1. IsFiniteSet({m}) /\ Cardinality({m}) = 1
    BY FS_Singleton
  <2>2. Cardinality(N) = 1 * n /\ IsFiniteSet(N)
    BY <2>1, <1>1, FS_Product
  <2> QED BY <2>2, <1>1
<1>5. G = F \cup N
  <2>1. ASSUME NEW f \in G PROVE f \in F \cup N
    <3>1. f \in All /\ f = <<f[1], f[2]>> /\ f[2] \in Nat /\ f[2] \in 1..MaxFindings
      OBVIOUS
    <3>2. CASE f[1] = m
      BY <3>1, <3>2, <1>1
    <3>3. CASE f[1] # m
      BY <3>1, <3>3
    <3> QED BY <3>2, <3>3
  <2>2. ASSUME NEW f \in F PROVE f \in G
    OBVIOUS
  <2>3. ASSUME NEW f \in N PROVE f \in G
    <3>1. f[1] = m /\ f[2] \in 1..n /\ f = <<f[1], f[2]>>
      OBVIOUS
    <3>2. f[2] \in 1..MaxFindings /\ f[2] <= n
      BY <3>1, <1>1, DiffAssumption
    <3> QED BY <3>1, <3>2
  <2> QED BY <2>1, <2>2, <2>3
<1>6. F \cap N = {}
  OBVIOUS
<1>7. Cardinality(F) \in Nat
  BY <1>3, FS_CardinalityType
<1> HIDE DEF F, N, G
<1>8. Cardinality(G) = Cardinality(F) + Cardinality(N) - Cardinality(F \cap N)
  BY <1>3, <1>4, <1>5, FS_Union
<1>9. Cardinality(G) = Cardinality(F) + n
  <2>1. Cardinality(F \cap N) = 0
    BY <1>6, FS_EmptySet, Zenon
  <2> QED BY <2>1, <1>4, <1>7, <1>8, <1>1
<1> QED BY <1>7, <1>9 DEF F, G

(* Before the closures are walked there is no job and no finding.          *)
LEMMA DiffInitInv == DiffInit => DiffInv
<1> SUFFICES ASSUME DiffInit PROVE DiffInv
  OBVIOUS
<1>1. /\ jobsLeft = {} /\ diffWorker = [w \in DiffWorkers |-> NoJob] /\ DOMAIN diffs = {} /\ failures = {}
      /\ breaking = 0 /\ compute = "walk"
  BY DEF DiffInit
<1>2. Changed \subseteq DiffModules
  BY DEF DiffInit, Closures, Changed
<1>3. BreakingFindings = {}
  BY <1>1 DEF BreakingFindings
<1>4. Cardinality({}) = 0
  BY FS_EmptySet
<1>5. NoJob \notin DiffModules
  BY DiffAssumption
<1> QED BY <1>1, <1>2, <1>3, <1>4, <1>5 DEF DiffInv, DiffTypes, NothingYet, EachInOnePlace, Held

(* No step of the dispatcher or of a worker breaks the invariant.          *)
LEMMA DiffStepInv == DiffInv /\ [DiffNext]_diffVars => DiffInv'
<1> SUFFICES ASSUME DiffInv, [DiffNext]_diffVars PROVE DiffInv'
  OBVIOUS
<1> USE DiffAssumption
<1>t. /\ diffWorker \in [DiffWorkers -> DiffModules \cup {NoJob, "exited"}]
      /\ Changed \subseteq DiffModules /\ jobsLeft \subseteq Changed
      /\ DOMAIN diffs \subseteq Changed /\ failures \subseteq Changed
      /\ \A m \in DOMAIN diffs : diffs[m] \in 0..MaxFindings
      /\ breaking \in Nat
      /\ compute \in {"walk", "failed", "dispatch", "wait", "cancelled", "report", "context error"}
  BY DEF DiffInv, DiffTypes
<1>i. /\ NothingYet /\ EachInOnePlace
      /\ compute \in {"wait", "report"} => jobsLeft = {}
      /\ compute = "report" => \A w \in DiffWorkers : diffWorker[w] = "exited"
      /\ breaking = Cardinality(BreakingFindings)
  BY DEF DiffInv
<1>c. fromClosure' = fromClosure /\ toClosure' = toClosure
  BY DEF DiffNext, WalkClosures, CancelDiff, CloseJobsCh, ReturnReport, HandOver, PerModuleDiff, WorkerExits, diffVars
<1>d. Changed' = Changed
  BY <1>c DEF Changed
<1>1. CASE UNCHANGED diffVars
  BY <1>1 DEF diffVars, DiffInv, DiffTypes, Changed, NothingYet, EachInOnePlace, Held, BreakingFindings
<1>2. CASE WalkClosures
  <2>1. /\ compute = "walk" /\ UNCHANGED <<diffWorker, diffs, failures, breaking>>
        /\ \/ compute' = "dispatch" /\ jobsLeft' = Changed
           \/ compute' = "failed" /\ jobsLeft' = jobsLeft
    BY <1>2 DEF WalkClosures
  <2>2. DOMAIN diffs = {} /\ failures = {} /\ (\A w \in DiffWorkers : diffWorker[w] = NoJob) /\ jobsLeft = {}
    BY <2>1, <1>i DEF NothingYet
  <2>3. DiffTypes'
    BY <2>1, <2>2, <1>d, <1>t DEF DiffTypes
  <2>4. NothingYet' /\ EachInOnePlace'
    BY <2>1, <2>2, <1>d DEF NothingYet, EachInOnePlace
  <2> QED BY <2>1, <2>3, <2>4, <1>i DEF DiffInv, BreakingFindings
<1>3. ASSUME NEW w \in DiffWorkers, HandOver(w) PROVE DiffInv'
  <2>1. PICK m \in jobsLeft : jobsLeft' = jobsLeft \ {m} /\ diffWorker' = [diffWorker EXCEPT ![w] = m]
    BY <1>3 DEF HandOver
  <2>2. compute = "dispatch" /\ diffWorker[w] = NoJob /\ UNCHANGED <<diffs, failures, breaking, compute>>
    BY <1>3 DEF HandOver
  <2>3. m \in DiffModules /\ m \in Changed /\ m # NoJob /\ m # "exited"
    BY <1>t
  <2>4. DiffTypes'
    BY <2>1, <2>2, <2>3, <1>d, <1>t DEF DiffTypes
  <2>5. NothingYet'
    BY <2>2 DEF NothingYet
  <2>6. diffWorker'[w] = m /\ \A v \in DiffWorkers : v # w => diffWorker'[v] = diffWorker[v]
    BY <2>1, <1>t
  <2>7. \A v \in DiffWorkers : diffWorker[v] # m
    BY <2>3, <1>i DEF EachInOnePlace
  <2>8. \A k \in DiffModules : Held(k) => Held(k)'
    BY <2>2, <2>6 DEF Held
  <2>9. Held(m)'
    BY <2>6 DEF Held
  <2>10. ASSUME NEW k \in Changed PROVE k \in jobsLeft' \/ Held(k)' \/ k \in DOMAIN diffs' \/ k \in failures'
    BY <2>1, <2>2, <2>8, <2>9, <1>i, <1>t DEF EachInOnePlace
  <2>11. ASSUME NEW v \in DiffWorkers, diffWorker'[v] \in DiffModules
         PROVE  /\ diffWorker'[v] \in Changed
                /\ diffWorker'[v] \notin jobsLeft' \cup DOMAIN diffs' \cup failures'
                /\ \A u \in DiffWorkers : diffWorker'[u] = diffWorker'[v] => u = v
    <3>1. CASE v = w
      BY <3>1, <2>1, <2>2, <2>3, <2>6, <2>7, <1>i DEF EachInOnePlace
    <3>2. CASE v # w
      BY <3>2, <2>11, <2>1, <2>2, <2>6, <2>7, <1>i DEF EachInOnePlace
    <3> QED BY <3>1, <3>2
  <2>12. jobsLeft' \cap (DOMAIN diffs' \cup failures') = {} /\ DOMAIN diffs' \cap failures' = {}
    BY <2>1, <2>2, <1>i DEF EachInOnePlace
  <2>13. EachInOnePlace'
    BY <2>10, <2>11, <2>12, <1>d DEF EachInOnePlace
  <2> QED BY <2>2, <2>4, <2>5, <2>13, <1>i DEF DiffInv, BreakingFindings
<1>4. CASE CancelDiff \/ CloseJobsCh
  <2>1. /\ compute = "dispatch" /\ UNCHANGED <<jobsLeft, diffWorker, diffs, failures, breaking>>
        /\ compute' = "cancelled" \/ (compute' = "wait" /\ jobsLeft = {})
    BY <1>4 DEF CancelDiff, CloseJobsCh
  <2>2. DiffTypes' /\ NothingYet'
    BY <2>1, <1>d, <1>t DEF DiffTypes, NothingYet
  <2>3. EachInOnePlace'
    BY <2>1, <1>d, <1>i DEF EachInOnePlace, Held
  <2> QED BY <2>1, <2>2, <2>3, <1>i DEF DiffInv, BreakingFindings
<1>5. ASSUME NEW w \in DiffWorkers, WorkerExits(w) PROVE DiffInv'
  <2>1. /\ compute \in {"wait", "cancelled"} /\ diffWorker[w] = NoJob
        /\ diffWorker' = [diffWorker EXCEPT ![w] = "exited"]
        /\ UNCHANGED <<jobsLeft, diffs, failures, breaking, compute>>
    BY <1>5 DEF WorkerExits
  <2>2. DiffTypes' /\ NothingYet'
    BY <2>1, <1>d, <1>t DEF DiffTypes, NothingYet
  <2>3. diffWorker'[w] = "exited" /\ \A v \in DiffWorkers : v # w => diffWorker'[v] = diffWorker[v]
    BY <2>1, <1>t
  <2>4. \A k \in DiffModules : Held(k) => Held(k)'
    BY <2>1, <2>3 DEF Held
  <2>5. EachInOnePlace'
    BY <2>1, <2>3, <2>4, <1>d, <1>i, <1>t DEF EachInOnePlace
  <2> QED BY <2>1, <2>2, <2>5, <1>i DEF DiffInv, BreakingFindings
<1>6. CASE ReturnReport
  <2>1. /\ compute \in {"wait", "cancelled"} /\ \A w \in DiffWorkers : diffWorker[w] = "exited"
        /\ compute' = IF compute = "wait" THEN "report" ELSE "context error"
        /\ UNCHANGED <<jobsLeft, diffWorker, diffs, failures, breaking>>
    BY <1>6 DEF ReturnReport, Waited
  <2>2. DiffTypes' /\ NothingYet'
    BY <2>1, <1>d, <1>t DEF DiffTypes, NothingYet
  <2>3. EachInOnePlace'
    BY <2>1, <1>d, <1>i DEF EachInOnePlace, Held
  <2> QED BY <2>1, <2>2, <2>3, <1>i DEF DiffInv, BreakingFindings
<1>7. ASSUME NEW w \in DiffWorkers, PerModuleDiff(w) PROVE DiffInv'
  <2> PICK m : m = diffWorker[w]
    OBVIOUS
  <2>1. /\ m \in DiffModules /\ diffWorker' = [diffWorker EXCEPT ![w] = NoJob]
        /\ UNCHANGED <<jobsLeft, compute>>
    BY <1>7 DEF PerModuleDiff
  <2>2. \/ failures' = failures \cup {m} /\ UNCHANGED <<diffs, breaking>>
        \/ \E n \in 0..MaxFindings :
              /\ diffs' = [x \in DOMAIN diffs \cup {m} |-> IF x = m THEN n ELSE diffs[x]]
              /\ breaking' = breaking + n /\ UNCHANGED failures
    BY <1>7 DEF PerModuleDiff
  <2>3. /\ m \in Changed /\ m \notin jobsLeft \cup DOMAIN diffs \cup failures
        /\ \A v \in DiffWorkers : diffWorker[v] = m => v = w
    BY <2>1, <1>i DEF EachInOnePlace
  <2>4. diffWorker'[w] = NoJob /\ \A v \in DiffWorkers : v # w => diffWorker'[v] = diffWorker[v]
    BY <2>1, <1>t
  <2>5. /\ DOMAIN diffs' \cup failures' = DOMAIN diffs \cup failures \cup {m}
        /\ DOMAIN diffs' \cap failures' = {} /\ DOMAIN diffs \subseteq DOMAIN diffs' /\ failures \subseteq failures'
    BY <2>2, <2>3, <1>i DEF EachInOnePlace
  <2>6. DiffTypes'
    <3>1. diffWorker' \in [DiffWorkers -> DiffModules \cup {NoJob, "exited"}]
      BY <2>1, <1>t
    <3>2. DOMAIN diffs' \subseteq Changed' /\ failures' \subseteq Changed'
      BY <2>3, <2>5, <1>d, <1>t
    <3>3. breaking' \in Nat /\ \A k \in DOMAIN diffs' : diffs'[k] \in 0..MaxFindings
      <4>1. CASE failures' = failures \cup {m} /\ UNCHANGED <<diffs, breaking>>
        BY <4>1, <1>t
      <4>2. ASSUME NEW n \in 0..MaxFindings,
                   diffs' = [x \in DOMAIN diffs \cup {m} |-> IF x = m THEN n ELSE diffs[x]],
                   breaking' = breaking + n
            PROVE  breaking' \in Nat /\ \A k \in DOMAIN diffs' : diffs'[k] \in 0..MaxFindings
        <5>0. n \in Nat
          OBVIOUS
        <5>1. breaking' \in Nat
          <6>1. breaking' = breaking + n /\ breaking \in Nat
            BY <4>2, <1>t
          <6> QED BY ONLY <5>0, <6>1
        <5>2. ASSUME NEW k \in DOMAIN diffs' PROVE diffs'[k] \in 0..MaxFindings
          <6>1. k \in DOMAIN diffs \cup {m} /\ (k = m => diffs'[k] = n) /\ (k # m => diffs'[k] = diffs[k])
            BY <4>2
          <6> QED BY <6>1, <1>t
        <5> QED BY <5>1, <5>2
      <4> QED BY <2>2, <4>1, <4>2
    <3> QED BY <3>1, <3>2, <3>3, <2>1, <1>d, <1>t DEF DiffTypes
  <2>7. compute \notin {"walk", "failed"}
    BY <2>1, <1>i DEF NothingYet
  <2>8. ASSUME NEW k \in Changed PROVE k \in jobsLeft' \/ Held(k)' \/ k \in DOMAIN diffs' \/ k \in failures'
    <3>1. k # m /\ Held(k) => Held(k)'
      BY <2>4 DEF Held
    <3>2. k \in jobsLeft \/ Held(k) \/ k \in DOMAIN diffs \/ k \in failures
      BY <2>7, <1>i DEF EachInOnePlace
    <3> QED BY <3>1, <3>2, <2>1, <2>5
  <2>9. ASSUME NEW v \in DiffWorkers, diffWorker'[v] \in DiffModules
        PROVE  /\ diffWorker'[v] \in Changed
               /\ diffWorker'[v] \notin jobsLeft' \cup DOMAIN diffs' \cup failures'
               /\ \A u \in DiffWorkers : diffWorker'[u] = diffWorker'[v] => u = v
    <3>1. v # w /\ diffWorker'[v] = diffWorker[v] /\ diffWorker[v] # m
      BY <2>9, <2>3, <2>4
    <3> QED BY <3>1, <2>1, <2>4, <2>5, <2>9, <1>i DEF EachInOnePlace
  <2>10. jobsLeft' \cap (DOMAIN diffs' \cup failures') = {}
    BY <2>1, <2>3, <2>5, <1>i DEF EachInOnePlace
  <2>11. EachInOnePlace' /\ NothingYet'
    BY <2>1, <2>5, <2>7, <2>8, <2>9, <2>10, <1>d DEF EachInOnePlace, NothingYet
  <2>12. breaking' = Cardinality(BreakingFindings')
    <3>1. CASE UNCHANGED <<diffs, breaking>>
      BY <3>1, <1>i DEF BreakingFindings
    <3>2. ASSUME NEW n \in 0..MaxFindings,
                 diffs' = [x \in DOMAIN diffs \cup {m} |-> IF x = m THEN n ELSE diffs[x]],
                 breaking' = breaking + n
          PROVE  breaking' = Cardinality(BreakingFindings')
      <4> PICK D : D = DOMAIN diffs
        OBVIOUS
      <4> DEFINE F == {f \in DiffModules \X (1..MaxFindings) : f[1] \in D /\ f[2] <= diffs[f[1]]}
                 G == {f \in DiffModules \X (1..MaxFindings) :
                         f[1] \in D \cup {m} /\ f[2] <= (IF f[1] = m THEN n ELSE diffs[f[1]])}
      <4>1. D \in SUBSET DiffModules /\ m \in DiffModules \ D
        BY <2>1, <2>3, <1>t
      <4>2. Cardinality(G) = Cardinality(F) + n
        BY <4>1, FindingsCount
      <4>3. F = BreakingFindings
        BY DEF BreakingFindings
      <4>4. G = BreakingFindings'
        <5>1. DOMAIN diffs' = D \cup {m} /\ \A x \in D \cup {m} : diffs'[x] = IF x = m THEN n ELSE diffs[x]
          BY <3>2
        <5> QED BY <5>1 DEF BreakingFindings
      <4> HIDE DEF F, G
      <4> QED BY <4>2, <4>3, <4>4, <3>2, <1>i
    <3> QED BY <2>2, <3>1, <3>2
  <2>13. /\ compute' \in {"wait", "report"} => jobsLeft' = {}
         /\ compute' # "report"
    BY <2>1, <1>i
  <2> QED BY <2>6, <2>11, <2>12, <2>13 DEF DiffInv
<1> QED BY <1>1, <1>2, <1>3, <1>4, <1>5, <1>6, <1>7 DEF DiffNext

(* For any number of modules and workers, a report that closurediff.Compute*)
(* returns accounts for every module that moved, once, and its headline is *)
(* the number of breaking findings listed in it.                           *)
THEOREM DiffsAreComplete == DiffSpec => []DiffAccountsForAll
<1>1. DiffInv => DiffAccountsForAll
  <2> SUFFICES ASSUME DiffInv, compute = "report"
               PROVE  /\ DOMAIN diffs \cup failures = Changed
                      /\ DOMAIN diffs \cap failures = {}
                      /\ breaking = Cardinality(BreakingFindings)
    BY DEF DiffAccountsForAll
  <2>1. /\ jobsLeft = {} /\ \A w \in DiffWorkers : diffWorker[w] = "exited"
        /\ Changed \subseteq DiffModules /\ DOMAIN diffs \subseteq Changed /\ failures \subseteq Changed
    BY DEF DiffInv, DiffTypes
  <2>2. ASSUME NEW m \in Changed PROVE ~Held(m)
    BY <2>1, DiffAssumption DEF Held
  <2> QED BY <2>1, <2>2 DEF DiffInv, EachInOnePlace
<1> QED BY <1>1, DiffInitInv, DiffStepInv, PTL DEF DiffSpec

(***************************************************************************)
(* The dependency graph (DepGraph)                                         *)
(***************************************************************************)
(* A set of natural numbers has a least one: what replaces induction along *)
(* a path.                                                                 *)
LEMMA LeastOf ==
    ASSUME NEW T \in SUBSET Nat, T # {}
    PROVE  \E m \in T : \A k \in T : m <= k
<1>1. PICK m \in T : \A k \in T : ~ (<<k, m>> \in OpToRel(<, Nat))
  BY WFMin, NatLessThanWellFounded, Zenon
<1>2. \A k \in T : ~ (k < m)
  BY <1>1, Zenon DEF OpToRel
<1> QED
  BY <1>2

\* Within, of any declarations and any root.
PathsFrom(D, r, R, n) ==
    {p \in [0..n -> DOMAIN D] :
        /\ p[0] = r
        /\ \A i \in 1..n : p[i - 1] \in R /\ p[i] \in Pinned(D[p[i - 1]])}
Near(D, r, R, k) == UNION {{p[n] : p \in PathsFrom(D, r, R, n)} : n \in 0..k}

(* Within is Near of the corpus and of the root being walked.              *)
LEMMA WithinIsNear ==
    \A R, k : Within(R, k) = Near(decl, graph.root, R, k)
BY DEF Within, Paths, Near, PathsFrom, Coordinates, BazelDeps

(* The root is within any distance of itself.                              *)
LEMMA NearRoot ==
    ASSUME NEW D, NEW r \in DOMAIN D, NEW R PROVE r \in Near(D, r, R, 0)
<1>1. [i \in 0..0 |-> r] \in PathsFrom(D, r, R, 0)
  BY DEF PathsFrom
<1>2. [i \in 0..0 |-> r][0] = r /\ 0 \in 0..0
  OBVIOUS
<1> QED
  BY <1>1, <1>2 DEF Near

(* A dependency of a stored report is one edge farther.                    *)
LEMMA NearStep ==
    ASSUME NEW D, NEW r, NEW R, NEW k \in Nat, NEW c \in Near(D, r, R, k), c \in R,
           NEW d \in Pinned(D[c]), d \in DOMAIN D
    PROVE  d \in Near(D, r, R, k + 1)
<1>0. PICK n \in 0..k : \E p \in PathsFrom(D, r, R, n) : c = p[n]
  BY DEF Near
<1>1. PICK p \in PathsFrom(D, r, R, n) : c = p[n]
  BY <1>0
<1>2. /\ p \in [0..n -> DOMAIN D] /\ p[0] = r
      /\ \A i \in 1..n : p[i - 1] \in R /\ p[i] \in Pinned(D[p[i - 1]])
  BY DEF PathsFrom
<1> DEFINE q == [i \in 0..(n + 1) |-> IF i = n + 1 THEN d ELSE p[i]]
<1>3. n \in Nat /\ n + 1 \in 0..(k + 1) /\ q[n + 1] = d
  BY <1>1
<1>4. q \in [0..(n + 1) -> DOMAIN D] /\ q[0] = r
  BY <1>2, <1>3
<1>5. ASSUME NEW i \in 1..(n + 1) PROVE q[i - 1] \in R /\ q[i] \in Pinned(D[q[i - 1]])
  <2>1. CASE i = n + 1
    <3>1. q[i - 1] = p[n] /\ q[i] = d
      BY <1>3, <2>1
    <3> QED
      BY <1>1, <3>1
  <2>2. CASE i # n + 1
    <3>1. i \in 1..n /\ q[i - 1] = p[i - 1] /\ q[i] = p[i]
      BY <1>3, <2>2
    <3> QED
      BY <1>2, <3>1
  <2> QED
    BY <2>1, <2>2
<1>6. q \in PathsFrom(D, r, R, n + 1)
  BY <1>4, <1>5 DEF PathsFrom
<1> HIDE DEF q
<1> QED
  BY <1>3, <1>6 DEF Near

(* More reports and a greater distance reach more.                         *)
LEMMA NearGrows ==
    ASSUME NEW D, NEW r, NEW R, NEW U, R \subseteq U, NEW j \in Nat, NEW k \in Nat, j <= k
    PROVE  Near(D, r, R, j) \subseteq Near(D, r, U, k)
<1> SUFFICES ASSUME NEW n \in 0..j, NEW p \in PathsFrom(D, r, R, n) PROVE p[n] \in Near(D, r, U, k)
  BY DEF Near
<1>1. p \in PathsFrom(D, r, U, n) /\ n \in 0..k
  BY DEF PathsFrom
<1> QED
  BY <1>1 DEF Near

(* The coordinates of a path stay where a set closed under its steps is.   *)
LEMMA PathStays ==
    ASSUME NEW D, NEW r, NEW R, NEW k \in Nat, NEW N, NEW l,
           r \in N, l[r] = 0, \A c \in N : l[c] \in Nat,
           \A c \in N \cap R : l[c] < k => \A d \in Pinned(D[c]) : d \in N /\ l[d] <= l[c] + 1
    PROVE  \A j \in 0..k : \A c \in Near(D, r, R, j) : c \in N /\ l[c] <= j
<1> SUFFICES ASSUME NEW j \in 0..k, NEW n \in 0..j, NEW p \in PathsFrom(D, r, R, n)
             PROVE  p[n] \in N /\ l[p[n]] <= n
  <2>1. \A j \in 0..k : \A n \in 0..j : \A p \in PathsFrom(D, r, R, n) : p[n] \in N /\ l[p[n]] <= n
    OBVIOUS
  <2> SUFFICES ASSUME NEW j \in 0..k, NEW c \in Near(D, r, R, j) PROVE c \in N /\ l[c] <= j
    OBVIOUS
  <2>2. PICK n \in 0..j : \E p \in PathsFrom(D, r, R, n) : c = p[n]
    BY DEF Near
  <2>3. c \in N /\ l[c] <= n
    BY <2>1, <2>2
  <2> QED
    BY <2>2, <2>3
<1>1. /\ p[0] = r /\ \A i \in 1..n : p[i - 1] \in R /\ p[i] \in Pinned(D[p[i - 1]])
  BY DEF PathsFrom
<1> DEFINE T == {i \in 0..n : ~ (p[i] \in N /\ l[p[i]] <= i)}
<1> SUFFICES ASSUME T # {} PROVE FALSE
  <2>1. n \in 0..n
    OBVIOUS
  <2> QED
    BY <2>1
<1>2. T \in SUBSET Nat
  OBVIOUS
<1>3. PICK m \in T : \A i \in T : m <= i
  <2> HIDE DEF T
  <2> QED
    BY <1>2, LeastOf
<1>4. m \in 0..n /\ ~ (p[m] \in N /\ l[p[m]] <= m)
  BY <1>3
<1>5. m # 0
  BY <1>1, <1>4
<1>6. m \in 1..n /\ m - 1 \in 0..n /\ m - 1 < m /\ m - 1 < k /\ m - 1 \in Nat
  BY <1>4, <1>5
<1>7. m - 1 \notin T
  <2> HIDE DEF T
  <2> QED
    BY <1>3, <1>6
<1>8. p[m - 1] \in N /\ l[p[m - 1]] <= m - 1
  BY <1>6, <1>7
<1>9. p[m - 1] \in R /\ p[m] \in Pinned(D[p[m - 1]])
  BY <1>1, <1>6
<1>10. l[p[m - 1]] < k /\ l[p[m - 1]] \in Nat
  BY <1>6, <1>8
<1>11. p[m] \in N /\ l[p[m]] <= l[p[m - 1]] + 1
  BY <1>8, <1>9, <1>10
<1>12. l[p[m]] \in Nat
  BY <1>11
<1> QED
  BY <1>4, <1>6, <1>8, <1>10, <1>11, <1>12

QueueEntry == [at : Coordinates, depth : Nat]
GraphRec ==
    [walking : BOOLEAN, root : Coordinates \cup {<<"", "">>}, queue : Seq(QueueEntry), nodes : Seq(Coordinates),
     external : SUBSET Coordinates, edges : SUBSET (Coordinates \X Coordinates), capped : BOOLEAN,
     failed : SUBSET Coordinates, base : SUBSET Coordinates, level : UNION {[S -> Nat] : S \in SUBSET Coordinates}]

Nodes == Range(graph.nodes)
Begun == graph.walking \/ graph.nodes # <<>>

GraphTypes ==
    /\ decl \in Declarations /\ stored \subseteq Coordinates
    /\ missing \in Seq(Coordinates)
    /\ graph \in GraphRec /\ DOMAIN graph.level = Nodes
    /\ Begun => graph.root \in Coordinates /\ graph.base \subseteq stored

\* A first-in first-out queue of a breadth-first walk: depths ascend, by one at most.
ByDepth(q) == \A i, j \in DOMAIN q : i <= j => q[i].depth <= q[j].depth /\ q[j].depth <= q[i].depth + 1
QueueByDepth ==
    /\ ByDepth(graph.queue)
    /\ \A e \in Range(graph.queue) : e.depth <= closureMaxDepth /\ \A c \in Nodes : graph.level[c] <= e.depth
    /\ \A c \in Nodes : graph.level[c] <= closureMaxDepth
    /\ ~graph.walking => graph.queue = <<>>

RootFirst ==
    /\ graph.walking /\ Nodes = {} => graph.queue = <<[at |-> graph.root, depth |-> 0]>>
    /\ Nodes # {} => graph.root \in Nodes /\ graph.level[graph.root] = 0

\* Nothing is drawn that is not there.
OnlyReachable ==
    /\ \A e \in Range(graph.queue) : e.at \in Near(decl, graph.root, stored, e.depth)
    /\ \A c \in Nodes : c \in Near(decl, graph.root, stored, graph.level[c])
    /\ \A e \in graph.edges : /\ e[1] \in stored /\ e[2] \in Pinned(decl[e[1]])
                              /\ e[1] \in Near(decl, graph.root, stored, closureMaxDepth - 1)
    /\ \A c \in graph.external : c \in Nodes /\ c \in Near(decl, graph.root, stored, closureMaxDepth - 1)

\* What a node above the cap with a report leads to is a node, or will be,
\* no deeper than one level below it.
Reached(d, k) ==
    \/ d \in Nodes /\ graph.level[d] <= k
    \/ \E e \in Range(graph.queue) : e.at = d /\ e.depth <= k
Expanded(c) ==
    \A d \in Pinned(decl[c]) : <<c, d>> \in graph.edges /\ Reached(d, graph.level[c] + 1)
NothingLeftOut ==
    graph.failed = {} =>
        /\ \A c \in Nodes \cap graph.base : graph.level[c] < closureMaxDepth => Expanded(c)
        /\ graph.external \cap graph.base = {}
AnswersKnown == \A c \in Nodes : graph.level[c] < closureMaxDepth => c \in stored \cup graph.external


\* Unless the walk says it reached the cap, every node lies above it.
CapFlagged == ~graph.capped => \A c \in Nodes : graph.level[c] < closureMaxDepth

GraphInv ==
    /\ GraphTypes /\ QueueByDepth /\ RootFirst
    /\ OnlyReachable /\ NothingLeftOut /\ AnswersKnown /\ CapFlagged

(* What the elements of a list are.                                        *)
LEMMA ListedIn ==
    ASSUME NEW S, NEW s \in Seq(S)
    PROVE  /\ Range(s) \subseteq S /\ (s # <<>> => Range(s) # {})
           /\ Len(s) \in Nat /\ DOMAIN s = 1..Len(s) /\ \A i \in DOMAIN s : s[i] \in S
<1>1. Len(s) \in Nat /\ DOMAIN s = 1..Len(s) /\ \A i \in DOMAIN s : s[i] \in S
  OBVIOUS
<1>2. s # <<>> => Len(s) # 0
  BY <1>1, EmptySeq
<1>3. s # <<>> => 1 \in DOMAIN s
  BY <1>1, <1>2
<1> QED
  BY <1>1, <1>3 DEF Range

(* The types of the graph's fields.                                        *)
LEMMA GraphFields ==
    ASSUME GraphTypes
    PROVE  /\ graph.queue \in Seq(QueueEntry) /\ graph.nodes \in Seq(Coordinates)
           /\ \A e \in Range(graph.queue) : e \in QueueEntry /\ e.at \in Coordinates /\ e.depth \in Nat
           /\ Nodes \subseteq Coordinates /\ (graph.nodes # <<>> => Nodes # {}) /\ (graph.nodes = <<>> => Nodes = {})
           /\ graph.level \in [Nodes -> Nat]
           /\ graph.edges \subseteq Coordinates \X Coordinates /\ graph.external \subseteq Coordinates
<1>1. graph.queue \in Seq(QueueEntry) /\ graph.nodes \in Seq(Coordinates)
  BY DEF GraphTypes, GraphRec
<1>2. \A e \in Range(graph.queue) : e \in QueueEntry
  BY <1>1, ListedIn
<1>3. \A e \in QueueEntry : e.at \in Coordinates /\ e.depth \in Nat
  BY DEF QueueEntry
<1>4. Nodes \subseteq Coordinates /\ (graph.nodes # <<>> => Nodes # {})
  BY <1>1, ListedIn DEF Nodes
<1>5. graph.nodes = <<>> => Nodes = {}
  BY DEF Nodes, Range
<1>6. graph.level \in UNION {[S -> Nat] : S \in SUBSET Coordinates}
  BY DEF GraphTypes, GraphRec
<1>7. PICK S \in SUBSET Coordinates : graph.level \in [S -> Nat]
  BY <1>6
<1>8. graph.level \in [Nodes -> Nat]
  BY <1>7 DEF GraphTypes
<1>9. graph.edges \subseteq Coordinates \X Coordinates /\ graph.external \subseteq Coordinates
  BY DEF GraphTypes, GraphRec
<1> QED
  BY <1>1, <1>2, <1>3, <1>4, <1>5, <1>8, <1>9

(* The invariant of a finished walk is what GraphIsExact says.             *)
LEMMA GraphInvExact == ASSUME GraphInv PROVE GraphIsExact
<1> DEFINE last == closureMaxDepth - 1
<1> SUFFICES ASSUME Drawn, graph.failed = {}
             PROVE  /\ Within(graph.base, closureMaxDepth) \subseteq Nodes
                    /\ Nodes \subseteq Within(stored, closureMaxDepth)
                    /\ EdgesOf(Within(graph.base, last) \cap graph.base) \subseteq graph.edges
                    /\ graph.edges \subseteq EdgesOf(Within(stored, last) \cap stored)
                    /\ graph.external \cap graph.base = {}
                    /\ Within(graph.base, last) \ (stored \cup graph.external) = {}
                    /\ \A e \in graph.edges : e[1] \in ReverseDeps(e[2])
  BY DEF GraphIsExact, Nodes
<1>1. /\ closureMaxDepth \in Nat /\ last \in Nat /\ last \in 0..closureMaxDepth
      /\ closureMaxDepth \in 0..closureMaxDepth /\ last < closureMaxDepth /\ 0 \in Nat
  BY DepGraphAssumption
<1>2. ~graph.walking /\ graph.nodes # <<>> /\ graph.queue = <<>> /\ graph.root \in Coordinates
  BY DEF Drawn, GraphInv, QueueByDepth, GraphTypes, Begun
<1>3. graph.edges \subseteq Coordinates \X Coordinates
  BY GraphFields DEF GraphInv
<1>4. graph.level \in [Nodes -> Nat]
  BY GraphFields DEF GraphInv
<1>5. Nodes # {} /\ Nodes \subseteq Coordinates
  BY <1>2, GraphFields DEF GraphInv
<1>6. graph.root \in Nodes /\ graph.level[graph.root] = 0
  BY <1>5 DEF GraphInv, RootFirst
<1>7. \A c \in Nodes \cap graph.base : graph.level[c] < closureMaxDepth =>
         \A d \in Pinned(decl[c]) : d \in Nodes /\ graph.level[d] <= graph.level[c] + 1 /\ <<c, d>> \in graph.edges
  <2>1. Range(graph.queue) = {}
    BY <1>2 DEF Range
  <2> QED
    BY <2>1 DEF GraphInv, NothingLeftOut, Expanded, Reached
<1>8. \A j \in 0..closureMaxDepth : \A c \in Near(decl, graph.root, graph.base, j) :
         c \in Nodes /\ graph.level[c] <= j
  <2> DEFINE r == graph.root
             R == graph.base
             N == Nodes
             l == graph.level
             D == decl
  <2>1. /\ r \in N /\ l[r] = 0 /\ \A c \in N : l[c] \in Nat
        /\ \A c \in N \cap R : l[c] < closureMaxDepth => \A d \in Pinned(D[c]) : d \in N /\ l[d] <= l[c] + 1
    BY <1>4, <1>6, <1>7
  <2> HIDE DEF r, R, N, l, D
  <2>2. \A j \in 0..closureMaxDepth : \A c \in Near(D, r, R, j) : c \in N /\ l[c] <= j
    BY <1>1, <2>1, PathStays
  <2> QED
    BY <2>2 DEF r, R, N, l, D
<1>9. Within(graph.base, closureMaxDepth) \subseteq Nodes
  BY <1>1, <1>8, WithinIsNear
<1>10. ASSUME NEW c \in Within(graph.base, last) PROVE c \in Nodes /\ graph.level[c] < closureMaxDepth
  <2>1. c \in Nodes /\ graph.level[c] <= last
    BY <1>1, <1>8, WithinIsNear
  <2> QED
    BY <1>1, <1>4, <2>1
<1>11. Nodes \subseteq Within(stored, closureMaxDepth)
  <2> SUFFICES ASSUME NEW c \in Nodes PROVE c \in Near(decl, graph.root, stored, closureMaxDepth)
    BY WithinIsNear
  <2>1. c \in Near(decl, graph.root, stored, graph.level[c]) /\ graph.level[c] <= closureMaxDepth
    BY DEF GraphInv, OnlyReachable, QueueByDepth
  <2>2. graph.level[c] \in Nat
    BY <1>4
  <2> QED
    BY <1>1, <2>1, <2>2, NearGrows
<1>12. EdgesOf(Within(graph.base, last) \cap graph.base) \subseteq graph.edges
  <2> SUFFICES ASSUME NEW e \in EdgesOf(Within(graph.base, last) \cap graph.base) PROVE e \in graph.edges
    OBVIOUS
  <2>1. /\ e = <<e[1], e[2]>> /\ e[1] \in Within(graph.base, last) /\ e[1] \in graph.base
        /\ e[2] \in Pinned(decl[e[1]])
    BY DEF EdgesOf, BazelDeps
  <2>2. <<e[1], e[2]>> \in graph.edges
    BY <1>7, <1>10, <2>1
  <2> QED
    BY <2>1, <2>2
<1>13. graph.edges \subseteq EdgesOf(Within(stored, last) \cap stored)
  <2> SUFFICES ASSUME NEW e \in graph.edges PROVE e \in EdgesOf(Within(stored, last) \cap stored)
    OBVIOUS
  <2>1. e \in Coordinates \X Coordinates
    BY <1>3
  <2>2. e[1] \in stored /\ e[2] \in Pinned(decl[e[1]]) /\ e[1] \in Within(stored, last)
    BY WithinIsNear DEF GraphInv, OnlyReachable
  <2> QED
    BY <2>1, <2>2 DEF EdgesOf, BazelDeps
<1>14. Within(graph.base, last) \ (stored \cup graph.external) = {}
  BY <1>10 DEF GraphInv, AnswersKnown
<1>15. \A e \in graph.edges : e[1] \in ReverseDeps(e[2])
  BY DEF GraphInv, OnlyReachable, ReverseDeps, BazelDeps, Pinned
<1> QED
  BY <1>9, <1>11, <1>12, <1>13, <1>14, <1>15 DEF GraphInv, NothingLeftOut

(* No graph is drawn at first.                                             *)
LEMMA GraphInitInv == ASSUME DepGraphInit PROVE GraphInv
<1>1. decl \in Declarations /\ graph = NoGraph /\ stored \subseteq Coordinates /\ missing \in Seq(Coordinates)
  BY DEF DepGraphInit, Coordinates
<1>2. /\ graph.walking = FALSE /\ graph.queue = <<>> /\ graph.nodes = <<>> /\ graph.edges = {} /\ graph.external = {}
      /\ DOMAIN graph.level = {} /\ graph \in GraphRec
  <2>1. [c \in {} |-> 0] \in UNION {[S -> Nat] : S \in SUBSET Coordinates}
    <3>1. [c \in {} |-> 0] \in [{} -> Nat] /\ {} \in SUBSET Coordinates
      OBVIOUS
    <3> QED
      BY <3>1
  <2>2. /\ graph.walking = FALSE /\ graph.queue = <<>> /\ graph.nodes = <<>> /\ graph.edges = {} /\ graph.external = {}
        /\ graph.level = [c \in {} |-> 0]
    BY <1>1 DEF NoGraph
  <2>3. graph \in GraphRec
    <3> DEFINE L == UNION {[S -> Nat] : S \in SUBSET Coordinates}
               Z == [c \in {} |-> 0]
    <3>1. Z \in L
      BY <2>1
    <3>2. /\ graph = [walking |-> FALSE, root |-> <<"", "">>, queue |-> <<>>, nodes |-> <<>>, external |-> {},
                      edges |-> {}, capped |-> FALSE, failed |-> {}, base |-> {}, level |-> Z]
      BY <1>1 DEF NoGraph
    <3>3. <<>> \in Seq(QueueEntry) /\ <<>> \in Seq(Coordinates)
      OBVIOUS
    <3> HIDE DEF L, Z
    <3>4. graph \in [walking : BOOLEAN, root : Coordinates \cup {<<"", "">>}, queue : Seq(QueueEntry),
                     nodes : Seq(Coordinates), external : SUBSET Coordinates,
                     edges : SUBSET (Coordinates \X Coordinates), capped : BOOLEAN,
                     failed : SUBSET Coordinates, base : SUBSET Coordinates, level : L]
      BY <3>1, <3>2, <3>3
    <3> QED
      BY <3>4 DEF GraphRec, L
  <2> QED
    BY <2>2, <2>3
<1>3. Nodes = {} /\ Range(graph.queue) = {} /\ ByDepth(graph.queue) /\ ~Begun
  BY <1>2 DEF Nodes, Range, ByDepth, Begun
<1> QED
  BY <1>1, <1>2, <1>3 DEF GraphInv, GraphTypes, QueueByDepth, RootFirst, OnlyReachable, NothingLeftOut, AnswersKnown, CapFlagged

(* The store grows while nothing else happens.                             *)
LEMMA StoreGrowsKeeps ==
    ASSUME GraphInv, graph' = graph, decl' = decl, stored \subseteq stored', stored' \subseteq Coordinates,
           missing' \in Seq(Coordinates)
    PROVE  GraphInv'
<1>1. Nodes' = Nodes /\ Coordinates' = Coordinates /\ Begun' = Begun /\ GraphRec' = GraphRec
  BY DEF Nodes, Coordinates, Begun, GraphRec, QueueEntry
<1>2. GraphTypes' /\ QueueByDepth' /\ RootFirst' /\ NothingLeftOut' /\ AnswersKnown' /\ CapFlagged'
  <2>1. GraphTypes'
    BY <1>1 DEF GraphInv, GraphTypes
  <2>2. QueueByDepth' /\ RootFirst'
    BY <1>1 DEF GraphInv, QueueByDepth, RootFirst
  <2>3. NothingLeftOut'
    BY <1>1 DEF GraphInv, NothingLeftOut, Expanded, Reached
  <2>4. AnswersKnown' /\ CapFlagged'
    BY <1>1 DEF GraphInv, AnswersKnown, CapFlagged
  <2> QED
    BY <2>1, <2>2, <2>3, <2>4
<1>3. OnlyReachable'
  <2>0. closureMaxDepth - 1 \in Nat
    BY DepGraphAssumption
  <2>1. \A k \in Nat : Near(decl, graph.root, stored, k) \subseteq Near(decl, graph.root, stored', k)
    <3> SUFFICES ASSUME NEW k \in Nat PROVE Near(decl, graph.root, stored, k) \subseteq Near(decl, graph.root, stored', k)
      OBVIOUS
    <3>1. k <= k
      OBVIOUS
    <3> QED
      BY <3>1, NearGrows
  <2>2. \A e \in Range(graph.queue) : e.depth \in Nat
    BY GraphFields DEF GraphInv
  <2>3. \A c \in Nodes : graph.level[c] \in Nat
    BY GraphFields DEF GraphInv
  <2> QED
    BY <1>1, <2>0, <2>1, <2>2, <2>3 DEF GraphInv, OnlyReachable
<1> QED
  BY <1>2, <1>3 DEF GraphInv

(* A walk begins with its root.                                            *)
LEMMA ClosureKeeps == ASSUME GraphInv, NEW c \in Coordinates, Closure(c) PROVE GraphInv'
<1>1. /\ decl' = decl /\ stored' = stored /\ missing' = missing /\ Coordinates' = Coordinates
      /\ graph' = [NoGraph EXCEPT !.walking = TRUE, !.root = c, !.base = stored,
                                  !.queue = <<[at |-> c, depth |-> 0]>>]
  BY DEF Closure, Coordinates
<1> DEFINE first == [at |-> c, depth |-> 0]
<1>2. /\ graph'.walking = TRUE /\ graph'.root = c /\ graph'.base = stored /\ graph'.queue = <<first>>
      /\ graph'.nodes = <<>> /\ graph'.edges = {} /\ graph'.external = {} /\ graph'.failed = {}
      /\ graph'.capped = FALSE /\ graph'.level = [x \in {} |-> 0]
  BY <1>1 DEF NoGraph
<1>3. first \in QueueEntry /\ first.at = c /\ first.depth = 0
  BY DEF QueueEntry
<1> HIDE DEF first
<1>4. <<first>> \in Seq(QueueEntry) /\ Range(<<first>>) = {first} /\ DOMAIN <<first>> = {1} /\ <<first>>[1] = first
  BY <1>3 DEF Range
<1>5. graph' \in GraphRec
  <2> DEFINE L == UNION {[S -> Nat] : S \in SUBSET Coordinates}
             Z == [x \in {} |-> 0]
             Q == <<first>>
  <2>1. Z \in [{} -> Nat] /\ {} \in SUBSET Coordinates
    OBVIOUS
  <2>2. Z \in L
    BY <2>1
  <2>3. graph' = [walking |-> TRUE, root |-> c, queue |-> Q, nodes |-> <<>>, external |-> {},
                  edges |-> {}, capped |-> FALSE, failed |-> {}, base |-> stored, level |-> Z]
    BY <1>1 DEF NoGraph, first
  <2>4. stored \subseteq Coordinates
    BY DEF GraphInv, GraphTypes
  <2>5. Q \in Seq(QueueEntry) /\ <<>> \in Seq(Coordinates)
    BY <1>4
  <2> HIDE DEF L, Z, Q
  <2>6. graph' \in [walking : BOOLEAN, root : Coordinates \cup {<<"", "">>}, queue : Seq(QueueEntry),
                    nodes : Seq(Coordinates), external : SUBSET Coordinates,
                    edges : SUBSET (Coordinates \X Coordinates), capped : BOOLEAN,
                    failed : SUBSET Coordinates, base : SUBSET Coordinates, level : L]
    BY <2>2, <2>3, <2>4, <2>5
  <2> QED
    BY <2>6 DEF GraphRec, L
<1>6. Nodes' = {} /\ Range(graph'.queue) = {first} /\ QueueEntry' = QueueEntry /\ GraphRec' = GraphRec
  BY <1>1, <1>2, <1>4 DEF Nodes, Range, QueueEntry, GraphRec
<1>7. GraphTypes'
  BY <1>1, <1>2, <1>5, <1>6 DEF GraphInv, GraphTypes, Begun
<1>8. QueueByDepth'
  <2>1. ByDepth(graph'.queue)
    BY <1>2, <1>3, <1>4 DEF ByDepth
  <2>2. closureMaxDepth \in Nat /\ 0 <= closureMaxDepth
    BY DepGraphAssumption
  <2> QED
    BY <1>2, <1>3, <1>6, <2>1, <2>2 DEF QueueByDepth, ByDepth
<1>9. RootFirst'
  BY <1>2, <1>6 DEF RootFirst, first
<1>10. OnlyReachable'
  <2>1. c \in Near(decl, c, stored, 0)
    BY NearRoot DEF Coordinates
  <2> QED
    BY <1>1, <1>2, <1>3, <1>6, <2>1 DEF OnlyReachable
<1>11. NothingLeftOut' /\ AnswersKnown' /\ CapFlagged'
  BY <1>2, <1>6 DEF NothingLeftOut, AnswersKnown, CapFlagged
<1> QED
  BY <1>7, <1>8, <1>9, <1>10, <1>11 DEF GraphInv

(* The walk ends when its queue is empty.                                  *)
LEMMA GraphReadyKeeps == ASSUME GraphInv, GraphReady PROVE GraphInv'
<1>1. /\ decl' = decl /\ stored' = stored /\ missing' = missing /\ graph.walking /\ graph.queue = <<>>
      /\ graph' = [graph EXCEPT !.walking = FALSE] /\ graph \in GraphRec
  BY DEF GraphReady, GraphInv, GraphTypes
<1>2. /\ graph'.walking = FALSE /\ graph'.root = graph.root /\ graph'.base = graph.base /\ graph'.queue = graph.queue
      /\ graph'.nodes = graph.nodes /\ graph'.edges = graph.edges /\ graph'.external = graph.external
      /\ graph'.failed = graph.failed /\ graph'.level = graph.level /\ graph'.capped = graph.capped /\ graph' \in GraphRec
  BY <1>1 DEF GraphRec
<1>3. Nodes' = Nodes /\ Coordinates' = Coordinates /\ GraphRec' = GraphRec /\ (Begun' => Begun)
  BY <1>1, <1>2 DEF Nodes, Coordinates, GraphRec, QueueEntry, Begun
<1>4. GraphTypes'
  BY <1>1, <1>2, <1>3 DEF GraphInv, GraphTypes
<1>5. QueueByDepth' /\ RootFirst'
  BY <1>1, <1>2, <1>3 DEF GraphInv, QueueByDepth, RootFirst
<1>6. OnlyReachable' /\ AnswersKnown' /\ CapFlagged'
  BY <1>1, <1>2, <1>3 DEF GraphInv, OnlyReachable, AnswersKnown, CapFlagged
<1>7. NothingLeftOut'
  BY <1>1, <1>2, <1>3 DEF GraphInv, NothingLeftOut, Expanded, Reached
<1> QED
  BY <1>4, <1>5, <1>6, <1>7 DEF GraphInv

(* The positions of a part of a list, in order, are a list.                *)
LEMMA AscendingLists ==
    ASSUME NEW n \in Nat, NEW I \in SUBSET (1..n), NEW f \in Ascending(I)
    PROVE  /\ Cardinality(I) \in Nat /\ f \in [1..Cardinality(I) -> I] /\ Range(f) = I
<1>1. IsFiniteSet(I)
  <2>1. IsFiniteSet(1..n)
    BY FS_Interval
  <2> QED
    BY <2>1, FS_Subset
<1>2. Cardinality(I) \in Nat
  BY <1>1, FS_CardinalityType
<1>3. f \in [1..Cardinality(I) -> I] /\ I \subseteq Range(f)
  BY DEF Ascending
<1>4. Range(f) \subseteq I
  BY <1>3 DEF Range
<1> QED
  BY <1>2, <1>3, <1>4

(* Bumps and other requests only add reports to the store.                 *)
LEMMA BesidesTheWalk ==
    ASSUME GraphInv, IngestClosureMissing \/ BumpMissing \/ StoreReport \/ UNCHANGED graphVars
    PROVE  GraphInv'
<1>0. stored \subseteq Coordinates /\ missing \in Seq(Coordinates) /\ graph.nodes \in Seq(Coordinates)
  BY GraphFields DEF GraphInv, GraphTypes
<1>1. CASE IngestClosureMissing
  <2> DEFINE I == {i \in DOMAIN graph.nodes : graph.nodes[i] \in graph.external}
  <2>1. PICK f \in Ascending(I) : missing' = [i \in DOMAIN f |-> graph.nodes[f[i]]]
    BY <1>1 DEF IngestClosureMissing
  <2>2. Len(graph.nodes) \in Nat /\ DOMAIN graph.nodes = 1..Len(graph.nodes) /\ \A i \in DOMAIN graph.nodes : graph.nodes[i] \in Coordinates
    BY <1>0, ListedIn
  <2>3. I \in SUBSET (1..Len(graph.nodes)) /\ \A i \in I : graph.nodes[i] \in Coordinates
    BY <2>2
  <2> HIDE DEF I
  <2>4. Cardinality(I) \in Nat /\ f \in [1..Cardinality(I) -> I]
    BY <2>1, <2>2, <2>3, AscendingLists
  <2>5. missing' \in [1..Cardinality(I) -> Coordinates]
    BY <2>1, <2>3, <2>4
  <2>6. missing' \in Seq(Coordinates)
    BY <2>4, <2>5, SeqDef
  <2> QED
    BY <1>0, <1>1, <2>6, StoreGrowsKeeps DEF IngestClosureMissing
<1>2. CASE BumpMissing
  <2>1. Head(missing) \in Coordinates /\ Tail(missing) \in Seq(Coordinates)
    BY <1>0, <1>2, HeadAndRest DEF BumpMissing
  <2> QED
    BY <1>0, <1>2, <2>1, StoreGrowsKeeps DEF BumpMissing
<1>3. CASE StoreReport
  BY <1>0, <1>3, StoreGrowsKeeps DEF StoreReport
<1>4. CASE UNCHANGED graphVars
  BY <1>0, <1>4, StoreGrowsKeeps DEF graphVars
<1> QED
  BY <1>1, <1>2, <1>3, <1>4

(* The children queued for a coordinate: its dependencies that can be      *)
(* followed and are not nodes, each of them, one level deeper.             *)
LEMMA ChildrenOf ==
    ASSUME decl \in Declarations, NEW cur \in QueueEntry, NEW nodes, NEW children \in NewChildren(cur, nodes)
    PROVE  /\ children \in Seq(QueueEntry)
           /\ \A x \in Range(children) : x.at \in Pinned(decl[cur.at]) \ Range(nodes) /\ x.depth = cur.depth + 1
           /\ \A d \in Pinned(decl[cur.at]) \ Range(nodes) : \E x \in Range(children) : x.at = d
<1> DEFINE ds  == decl[cur.at]
           new == {i \in DOMAIN ds : ds[i] \in Pinned(ds) \ Range(nodes)}
<1>1. cur.at \in DOMAIN decl /\ cur.depth \in Nat
  BY DEF QueueEntry, Coordinates
<1>2. ds \in Seq(Range(ds)) /\ Pinned(ds) \subseteq Coordinates
  BY <1>1, DepGraphAssumption DEF Coordinates
<1>3. Len(ds) \in Nat /\ DOMAIN ds = 1..Len(ds)
  BY <1>2, ListedIn
<1>4. new \in SUBSET (1..Len(ds)) /\ \A i \in new : ds[i] \in Pinned(ds) \ Range(nodes)
  BY <1>3
<1>5. \A d \in Pinned(ds) \ Range(nodes) : \E i \in new : ds[i] = d
  BY DEF Pinned, Range
<1>6. PICK f \in Ascending(new) : children = [i \in DOMAIN f |-> [at |-> ds[f[i]], depth |-> cur.depth + 1]]
  BY DEF NewChildren, BazelDeps
<1> HIDE DEF ds, new
<1>7. Cardinality(new) \in Nat /\ f \in [1..Cardinality(new) -> new] /\ Range(f) = new
  BY <1>3, <1>4, <1>6, AscendingLists
<1>8. \A i \in new : [at |-> ds[i], depth |-> cur.depth + 1] \in QueueEntry
  BY <1>1, <1>2, <1>4 DEF QueueEntry
<1>9. children \in [1..Cardinality(new) -> QueueEntry]
  BY <1>6, <1>7, <1>8
<1>10. children \in Seq(QueueEntry)
  BY <1>7, <1>9, SeqDef
<1>11. DOMAIN children = DOMAIN f /\ \A i \in DOMAIN f : children[i].at = ds[f[i]] /\ children[i].depth = cur.depth + 1 /\ f[i] \in new
  BY <1>6, <1>7
<1>12. \A x \in Range(children) : x.at \in Pinned(ds) \ Range(nodes) /\ x.depth = cur.depth + 1
  <2> SUFFICES ASSUME NEW x \in Range(children)
               PROVE  x.at \in Pinned(ds) \ Range(nodes) /\ x.depth = cur.depth + 1
    OBVIOUS
  <2>1. PICK i \in DOMAIN children : x = children[i]
    BY DEF Range
  <2> QED
    BY <1>4, <1>11, <2>1
<1>13. ASSUME NEW d \in Pinned(ds) \ Range(nodes) PROVE \E x \in Range(children) : x.at = d
  <2>1. PICK i \in new : ds[i] = d
    BY <1>5
  <2>2. PICK j \in DOMAIN f : f[j] = i
    BY <1>7 DEF Range
  <2>3. children[j] \in Range(children) /\ children[j].at = d
    BY <1>11, <2>1, <2>2 DEF Range
  <2> QED
    BY <2>3
<1> QED
  BY <1>10, <1>12, <1>13 DEF ds

(* Children one level below the head go to the end of the queue.           *)
LEMMA QueueGrows ==
    ASSUME NEW q \in Seq(QueueEntry), q # <<>>, ByDepth(q), NEW children \in Seq(QueueEntry),
           \A x \in Range(children) : x.depth = Head(q).depth + 1
    PROVE  /\ Head(q) \in QueueEntry /\ Tail(q) \o children \in Seq(QueueEntry)
           /\ Range(q) = {Head(q)} \cup Range(Tail(q))
           /\ Range(Tail(q) \o children) = Range(Tail(q)) \cup Range(children)
           /\ \A x \in Range(Tail(q) \o children) : Head(q).depth <= x.depth
           /\ ByDepth(Tail(q) \o children)
<1> DEFINE h == Head(q)
           t == Tail(q)
           r == t \o children
<1>1. /\ Len(q) \in Nat /\ Len(q) >= 1 /\ DOMAIN q = 1..Len(q) /\ h = q[1]
      /\ t \in Seq(QueueEntry) /\ Len(t) = Len(q) - 1 /\ DOMAIN t = 1..(Len(q) - 1)
      /\ \A i \in 1..(Len(q) - 1) : t[i] = q[i + 1]
  OBVIOUS
<1>2. \A i \in 1..Len(q) : q[i] \in QueueEntry
  BY <1>1
<1>3. \A e \in QueueEntry : e.depth \in Nat
  BY DEF QueueEntry
<1>4. h \in QueueEntry /\ h.depth \in Nat /\ 1 \in DOMAIN q
  BY <1>1, <1>2, <1>3
<1>5. \A i \in DOMAIN t : h.depth <= t[i].depth /\ t[i].depth <= h.depth + 1 /\ t[i].depth \in Nat
  <2> SUFFICES ASSUME NEW i \in DOMAIN t
               PROVE  h.depth <= t[i].depth /\ t[i].depth <= h.depth + 1 /\ t[i].depth \in Nat
    OBVIOUS
  <2>1. i + 1 \in DOMAIN q /\ 1 <= i + 1 /\ t[i] = q[i + 1]
    BY <1>1
  <2> QED
    BY <1>1, <1>2, <1>3, <1>4, <2>1 DEF ByDepth
<1>6. \A i, j \in DOMAIN t : i <= j => t[i].depth <= t[j].depth
  <2> SUFFICES ASSUME NEW i \in DOMAIN t, NEW j \in DOMAIN t, i <= j PROVE t[i].depth <= t[j].depth
    OBVIOUS
  <2>1. i + 1 \in DOMAIN q /\ j + 1 \in DOMAIN q /\ i + 1 <= j + 1 /\ t[i] = q[i + 1] /\ t[j] = q[j + 1]
    BY <1>1
  <2> QED
    BY <2>1 DEF ByDepth
<1> HIDE DEF h, t
<1>7. /\ Len(children) \in Nat /\ DOMAIN children = 1..Len(children) /\ Len(t) \in Nat /\ DOMAIN t = 1..Len(t)
      /\ r \in Seq(QueueEntry) /\ DOMAIN r = 1..(Len(t) + Len(children))
      /\ \A i \in 1..Len(t) : r[i] = t[i]
      /\ \A i \in 1..(Len(t) + Len(children)) : i > Len(t) => r[i] = children[i - Len(t)] /\ i - Len(t) \in 1..Len(children)
  <2>1. t \in Seq(QueueEntry) /\ children \in Seq(QueueEntry)
    BY <1>1
  <2>2. /\ Len(children) \in Nat /\ DOMAIN children = 1..Len(children) /\ Len(t) \in Nat /\ DOMAIN t = 1..Len(t)
    BY <2>1
  <2>3. /\ r \in Seq(QueueEntry) /\ Len(r) = Len(t) + Len(children) /\ DOMAIN r = 1..Len(r)
        /\ \A i \in 1..Len(r) : r[i] = IF i <= Len(t) THEN t[i] ELSE children[i - Len(t)]
    BY <2>1, ConcatProperties
  <2> HIDE DEF r
  <2> QED
    BY <2>2, <2>3
<1> HIDE DEF r
<1>8. \A i \in DOMAIN children : children[i].depth = h.depth + 1
  BY DEF Range, h
<1>9. ASSUME NEW i \in DOMAIN r
      PROVE  /\ h.depth <= r[i].depth /\ r[i].depth <= h.depth + 1 /\ r[i].depth \in Nat
             /\ i > Len(t) => r[i].depth = h.depth + 1
             /\ i <= Len(t) => i \in DOMAIN t /\ r[i] = t[i]
  <2>1. CASE i \in 1..Len(t)
    BY <1>5, <1>7, <2>1
  <2>2. CASE i > Len(t)
    <3>1. r[i].depth = h.depth + 1
      BY <1>7, <1>8, <2>2
    <3> QED
      BY <1>4, <1>7, <2>2, <3>1
  <2> QED
    BY <1>7, <2>1, <2>2
<1>10. ASSUME NEW i \in DOMAIN r, NEW j \in DOMAIN r, i <= j
       PROVE  r[i].depth <= r[j].depth /\ r[j].depth <= r[i].depth + 1
  <2>1. r[j].depth <= r[i].depth + 1
    BY <1>4, <1>9
  <2>2. CASE j > Len(t)
    BY <1>4, <1>9, <2>2
  <2>3. CASE j <= Len(t)
    <3>1. i \in DOMAIN t /\ j \in DOMAIN t /\ r[i] = t[i] /\ r[j] = t[j]
      BY <1>7, <1>9, <1>10, <2>3
    <3> QED
      BY <1>6, <1>10, <2>1, <3>1
  <2> QED
    BY <1>7, <2>1, <2>2, <2>3
<1>11. ByDepth(r)
  BY <1>10 DEF ByDepth
<1>12. \A x \in Range(r) : h.depth <= x.depth
  BY <1>9 DEF Range
<1>13. Range(r) = Range(t) \cup Range(children)
  BY <1>1, ConcatOf DEF r
<1>14. Range(q) = {h} \cup Range(t)
  <2>1. q # <<>>
    OBVIOUS
  <2> QED
    BY <2>1, HeadAndRest DEF h, t
<1> QED
  BY <1>4, <1>7, <1>11, <1>12, <1>13, <1>14 DEF h, t, r

(***************************************************************************)
(* One turn of the loop, field by field, with the children it queues.      *)
(***************************************************************************)
Grown(children) ==
    /\ decl' = decl /\ stored' = stored /\ missing' = missing
    /\ graph'.walking = TRUE /\ graph'.root = graph.root /\ graph'.base = graph.base
    /\ graph'.queue = Tail(graph.queue) \o children
    /\ graph'.nodes = IF Head(graph.queue).at \in Nodes THEN graph.nodes ELSE Append(graph.nodes, Head(graph.queue).at)
    /\ graph'.level = IF Head(graph.queue).at \in Nodes THEN graph.level
                      ELSE [c \in Nodes \cup {Head(graph.queue).at} |->
                                IF c = Head(graph.queue).at THEN Head(graph.queue).depth ELSE graph.level[c]]

Leaf ==
    /\ graph'.edges = graph.edges
    /\ \/ /\ AtCap(Head(graph.queue).depth) /\ graph'.capped = TRUE
          /\ graph'.external = graph.external /\ graph'.failed = graph.failed
       \/ /\ ~AtCap(Head(graph.queue).depth) /\ graph'.capped = graph.capped
          /\ graph'.external = graph.external \cup {Head(graph.queue).at}
          /\ \/ Head(graph.queue).at \notin stored /\ graph'.failed = graph.failed
             \/ graph'.failed = {Head(graph.queue).at}

Parent ==
    /\ ~AtCap(Head(graph.queue).depth) /\ graph'.capped = graph.capped
    /\ Head(graph.queue).at \in stored
    /\ graph'.external = graph.external /\ graph'.failed = graph.failed
    /\ graph'.edges = graph.edges \cup ({Head(graph.queue).at} \X Pinned(decl[Head(graph.queue).at]))

(* A turn draws a leaf, or a parent with its new children.                 *)
LEMMA ExpandFields ==
    ASSUME GraphInv, Expand
    PROVE  /\ graph'.capped \in BOOLEAN
           /\ graph' = [walking |-> graph'.walking, root |-> graph'.root, queue |-> graph'.queue, nodes |-> graph'.nodes,
                        external |-> graph'.external, edges |-> graph'.edges, capped |-> graph'.capped,
                        failed |-> graph'.failed, base |-> graph'.base, level |-> graph'.level]
           /\ \/ Grown(<<>>) /\ Leaf
              \/ \E children \in NewChildren(Head(graph.queue), graph'.nodes) : Grown(children) /\ Parent
<1> DEFINE cur == Head(graph.queue)
           rest == Tail(graph.queue)
           g0  == [graph EXCEPT !.queue = rest]
           g   == AddNode(g0, cur)
           nodes == IF cur.at \in Nodes THEN graph.nodes ELSE Append(graph.nodes, cur.at)
           level == IF cur.at \in Nodes THEN graph.level
                    ELSE [c \in Nodes \cup {cur.at} |-> IF c = cur.at THEN cur.depth ELSE graph.level[c]]
<1>1. graph \in GraphRec /\ graph.walking = TRUE /\ DOMAIN graph.level = Nodes /\ graph.queue \in Seq(QueueEntry)
  BY GraphFields DEF GraphInv, GraphTypes, Expand, GraphRec
<1>2. graph = [walking |-> graph.walking, root |-> graph.root, queue |-> graph.queue, nodes |-> graph.nodes,
               external |-> graph.external, edges |-> graph.edges, capped |-> graph.capped,
               failed |-> graph.failed, base |-> graph.base, level |-> graph.level] /\ graph.capped \in BOOLEAN
  BY <1>1 DEF GraphRec
<1>3. g0 = [walking |-> graph.walking, root |-> graph.root, queue |-> rest, nodes |-> graph.nodes,
            external |-> graph.external, edges |-> graph.edges, capped |-> graph.capped,
            failed |-> graph.failed, base |-> graph.base, level |-> graph.level]
  <2>1. PICK w, r, q, n, x, e, t, f, b, l :
           graph = [walking |-> w, root |-> r, queue |-> q, nodes |-> n, external |-> x, edges |-> e, capped |-> t,
                    failed |-> f, base |-> b, level |-> l]
    BY <1>2
  <2> HIDE DEF rest
  <2> QED
    BY <2>1
<1>4. g = [walking |-> graph.walking, root |-> graph.root, queue |-> rest, nodes |-> nodes,
           external |-> graph.external, edges |-> graph.edges, capped |-> graph.capped,
           failed |-> graph.failed, base |-> graph.base, level |-> level]
  <2> HIDE DEF g0
  <2>1. g0.nodes = graph.nodes /\ g0.level = graph.level
    BY <1>3
  <2>2. CASE cur.at \in Nodes
    BY <1>3, <2>1, <2>2 DEF AddNode, Nodes
  <2>3. CASE cur.at \notin Nodes
    BY <1>1, <1>3, <2>1, <2>3 DEF AddNode, Nodes
  <2> QED
    BY <2>2, <2>3
<1>5. /\ decl' = decl /\ stored' = stored /\ missing' = missing
      /\ \/ /\ AtCap(cur.depth)
            /\ graph' = [g EXCEPT !.capped = TRUE]
         \/ /\ ~AtCap(cur.depth)
            /\ cur.at \notin stored
            /\ graph' = [g EXCEPT !.external = @ \cup {cur.at}]
         \/ /\ ~AtCap(cur.depth)
            /\ cur.at \in stored /\ graph.failed = {}
            /\ graph' = [g EXCEPT !.external = @ \cup {cur.at}, !.failed = {cur.at}]
         \/ /\ ~AtCap(cur.depth)
            /\ cur.at \in stored
            /\ \E children \in NewChildren(cur, g.nodes) :
                  graph' = [g EXCEPT !.edges = @ \cup ({cur.at} \X Pinned(decl[cur.at])),
                                     !.queue = @ \o children]
  BY DEF Expand, BazelDeps
<1>6. rest \o <<>> = rest
  <2>1. rest \in Seq(QueueEntry)
    BY <1>1, HeadAndRest DEF Expand
  <2> QED
    BY <2>1
<1> HIDE DEF g, g0, nodes, level, cur, rest
<1>7. g.nodes = nodes
  BY <1>4
<1>8. CASE AtCap(cur.depth) /\ graph' = [g EXCEPT !.capped = TRUE]
  <2>1. graph' = [walking |-> graph.walking, root |-> graph.root, queue |-> rest, nodes |-> nodes,
                  external |-> graph.external, edges |-> graph.edges, capped |-> TRUE,
                  failed |-> graph.failed, base |-> graph.base, level |-> level]
    BY <1>4, <1>8
  <2>2. /\ graph'.walking = graph.walking /\ graph'.root = graph.root /\ graph'.queue = rest /\ graph'.nodes = nodes
        /\ graph'.edges = graph.edges /\ graph'.base = graph.base /\ graph'.level = level
        /\ graph'.capped \in BOOLEAN
    BY <1>2, <2>1
  <2>3. Grown(<<>>)
    BY <1>1, <1>5, <1>6, <2>2 DEF Grown, nodes, level, cur, rest
  <2>4. Leaf
    <3>1. /\ graph'.external = graph.external /\ graph'.failed = graph.failed /\ graph'.edges = graph.edges
          /\ graph'.capped = TRUE
      BY <2>1
    <3> QED
      BY <1>8, <3>1 DEF Leaf, cur
  <2> QED
    BY <2>1, <2>2, <2>3, <2>4
<1>9. CASE ~AtCap(cur.depth) /\ cur.at \notin stored /\ graph' = [g EXCEPT !.external = @ \cup {cur.at}]
  <2>1. graph' = [walking |-> graph.walking, root |-> graph.root, queue |-> rest, nodes |-> nodes,
                  external |-> graph.external \cup {cur.at}, edges |-> graph.edges, capped |-> graph.capped,
                  failed |-> graph.failed, base |-> graph.base, level |-> level]
    BY <1>4, <1>9
  <2>2. /\ graph'.walking = graph.walking /\ graph'.root = graph.root /\ graph'.queue = rest /\ graph'.nodes = nodes
        /\ graph'.edges = graph.edges /\ graph'.base = graph.base /\ graph'.level = level
        /\ graph'.capped \in BOOLEAN
    BY <1>2, <2>1
  <2>3. Grown(<<>>)
    BY <1>1, <1>5, <1>6, <2>2 DEF Grown, nodes, level, cur, rest
  <2>4. Leaf
    <3>1. /\ graph'.external = graph.external \cup {cur.at} /\ graph'.failed = graph.failed /\ graph'.edges = graph.edges
          /\ graph'.capped = graph.capped
      BY <2>1
    <3> QED
      BY <1>9, <3>1 DEF Leaf, cur
  <2> QED
    BY <2>1, <2>2, <2>3, <2>4
<1>10. CASE ~AtCap(cur.depth) /\ graph' = [g EXCEPT !.external = @ \cup {cur.at}, !.failed = {cur.at}]
  <2>1. graph' = [walking |-> graph.walking, root |-> graph.root, queue |-> rest, nodes |-> nodes,
                  external |-> graph.external \cup {cur.at}, edges |-> graph.edges, capped |-> graph.capped,
                  failed |-> {cur.at}, base |-> graph.base, level |-> level]
    BY <1>4, <1>10
  <2>2. /\ graph'.walking = graph.walking /\ graph'.root = graph.root /\ graph'.queue = rest /\ graph'.nodes = nodes
        /\ graph'.edges = graph.edges /\ graph'.base = graph.base /\ graph'.level = level
        /\ graph'.capped \in BOOLEAN
    BY <1>2, <2>1
  <2>3. Grown(<<>>)
    BY <1>1, <1>5, <1>6, <2>2 DEF Grown, nodes, level, cur, rest
  <2>4. Leaf
    <3>1. /\ graph'.external = graph.external \cup {cur.at} /\ graph'.failed = {cur.at}
          /\ graph'.capped = graph.capped
      BY <2>1
    <3> QED
      BY <1>10, <2>2, <3>1 DEF Leaf, cur
  <2> QED
    BY <2>1, <2>2, <2>3, <2>4
<1>11. CASE /\ ~AtCap(cur.depth) /\ cur.at \in stored
            /\ \E children \in NewChildren(cur, g.nodes) :
                  graph' = [g EXCEPT !.edges = @ \cup ({cur.at} \X Pinned(decl[cur.at])), !.queue = @ \o children]
  <2>1. PICK children \in NewChildren(cur, g.nodes) :
                  graph' = [g EXCEPT !.edges = @ \cup ({cur.at} \X Pinned(decl[cur.at])), !.queue = @ \o children]
    BY <1>11
  <2>2. graph' = [walking |-> graph.walking, root |-> graph.root, queue |-> rest \o children, nodes |-> nodes,
                  external |-> graph.external, edges |-> graph.edges \cup ({cur.at} \X Pinned(decl[cur.at])),
                  capped |-> graph.capped, failed |-> graph.failed, base |-> graph.base, level |-> level]
    BY <1>4, <2>1
  <2>3. children \in NewChildren(cur, graph'.nodes)
    BY <1>7, <2>1, <2>2
  <2>4. Grown(children) /\ Parent /\ graph'.capped \in BOOLEAN
    BY <1>1, <1>2, <1>5, <1>11, <2>2 DEF Grown, Parent, nodes, level, cur, rest
  <2> QED
    BY <2>2, <2>3, <2>4 DEF cur
<1> QED
  BY <1>5, <1>8, <1>9, <1>10, <1>11

(* A turn of the loop keeps the invariant.                                 *)
LEMMA ExpandGraphKeeps == ASSUME GraphInv, Expand PROVE GraphInv'
<1> DEFINE q == graph.queue
<1>1. /\ q \in Seq(QueueEntry) /\ q # <<>> /\ graph.walking /\ decl \in Declarations
      /\ graph.nodes \in Seq(Coordinates) /\ graph.level \in [Nodes -> Nat] /\ Nodes \subseteq Coordinates
  BY GraphFields DEF GraphInv, GraphTypes, Expand
<1>2. PICK h : h = Head(graph.queue)
  OBVIOUS
<1>3. h \in QueueEntry /\ h.at \in Coordinates /\ h.depth \in Nat /\ h \in Range(graph.queue)
  <2>1. h \in QueueEntry /\ h \in Range(graph.queue)
    BY <1>1, <1>2, HeadAndRest
  <2> QED
    BY <2>1 DEF QueueEntry
<1>4. h.depth <= closureMaxDepth /\ \A c \in Nodes : graph.level[c] <= h.depth
  BY <1>3 DEF GraphInv, QueueByDepth
<1>5. closureMaxDepth \in Nat /\ closureMaxDepth - 1 \in Nat
  BY DepGraphAssumption
<1>6. ~AtCap(h.depth) => h.depth < closureMaxDepth /\ h.depth + 1 <= closureMaxDepth /\ h.depth <= closureMaxDepth - 1
  BY <1>3, <1>5 DEF AtCap
<1>7. PICK children \in Seq(QueueEntry) :
         /\ Grown(children)
         /\ \A x \in Range(children) : /\ x.at \in Pinned(decl[h.at]) \ Nodes' /\ x.depth = h.depth + 1
                                       /\ ~AtCap(h.depth) /\ h.at \in stored
         /\ \/ Leaf
            \/ Parent /\ \A d \in Pinned(decl[h.at]) \ Nodes' : \E x \in Range(children) : x.at = d
  <2>1. CASE Grown(<<>>) /\ Leaf
    <3>1. <<>> \in Seq(QueueEntry) /\ Range(<<>>) = {}
      BY DEF Range
    <3> QED
      BY <2>1, <3>1
  <2>2. CASE \E children \in NewChildren(Head(graph.queue), graph'.nodes) : Grown(children) /\ Parent
    <3>1. PICK children \in NewChildren(h, graph'.nodes) : Grown(children) /\ Parent
      BY <1>2, <2>2
    <3>2. /\ children \in Seq(QueueEntry)
          /\ \A x \in Range(children) : x.at \in Pinned(decl[h.at]) \ Nodes' /\ x.depth = h.depth + 1
          /\ \A d \in Pinned(decl[h.at]) \ Nodes' : \E x \in Range(children) : x.at = d
      BY <1>1, <1>3, <3>1, ChildrenOf DEF Nodes
    <3>3. ~AtCap(h.depth) /\ h.at \in stored
      BY <1>2, <3>1 DEF Parent
    <3> QED
      BY <3>1, <3>2, <3>3
  <2> QED
    BY <2>1, <2>2, ExpandFields
<1>8. /\ decl' = decl /\ stored' = stored /\ missing' = missing /\ graph'.walking = TRUE /\ graph'.root = graph.root
      /\ graph'.base = graph.base /\ graph'.queue = Tail(graph.queue) \o children /\ Coordinates' = Coordinates
      /\ graph'.nodes = IF h.at \in Nodes THEN graph.nodes ELSE Append(graph.nodes, h.at)
      /\ graph'.level = IF h.at \in Nodes THEN graph.level
                        ELSE [c \in Nodes \cup {h.at} |-> IF c = h.at THEN h.depth ELSE graph.level[c]]
  BY <1>2, <1>7 DEF Grown, Coordinates
<1>9. Nodes' = Nodes \cup {h.at} /\ graph'.nodes \in Seq(Coordinates)
  <2>1. CASE h.at \in Nodes
    BY <1>1, <1>8, <2>1 DEF Nodes
  <2>2. CASE h.at \notin Nodes
    BY <1>1, <1>3, <1>8, <2>2, AppendOf DEF Nodes
  <2> QED
    BY <2>1, <2>2
<1>10. /\ graph'.level \in [Nodes' -> Nat] /\ \A c \in Nodes : graph'.level[c] = graph.level[c]
       /\ h.at \notin Nodes => graph'.level[h.at] = h.depth
  <2>1. CASE h.at \in Nodes
    <3>1. Nodes' = Nodes /\ graph'.level = graph.level
      BY <1>8, <1>9, <2>1
    <3> QED
      BY <1>1, <2>1, <3>1
  <2>2. CASE h.at \notin Nodes
    <3>1. graph'.level = [c \in Nodes \cup {h.at} |-> IF c = h.at THEN h.depth ELSE graph.level[c]]
      BY <1>8, <2>2
    <3>2. \A c \in Nodes : graph.level[c] \in Nat
      BY <1>1
    <3>3. graph'.level \in [Nodes \cup {h.at} -> Nat]
      BY <1>3, <3>1, <3>2
    <3>4. \A c \in Nodes : graph'.level[c] = graph.level[c]
      BY <2>2, <3>1
    <3>5. graph'.level[h.at] = h.depth
      BY <3>1
    <3> QED
      BY <1>9, <3>3, <3>4, <3>5
  <2> QED
    BY <2>1, <2>2
<1>11. \A c \in Nodes' : graph'.level[c] <= h.depth
  BY <1>3, <1>4, <1>9, <1>10
<1>12. /\ graph'.queue \in Seq(QueueEntry) /\ ByDepth(graph'.queue)
       /\ Range(graph.queue) = {h} \cup Range(Tail(graph.queue))
       /\ Range(graph'.queue) = Range(Tail(graph.queue)) \cup Range(children)
       /\ \A x \in Range(graph'.queue) : h.depth <= x.depth
  <2>1. ByDepth(q) /\ \A x \in Range(children) : x.depth = Head(q).depth + 1
    BY <1>2, <1>7 DEF GraphInv, QueueByDepth
  <2>2. q # <<>>
    BY <1>1
  <2> HIDE DEF q
  <2>3. /\ Tail(q) \o children \in Seq(QueueEntry) /\ ByDepth(Tail(q) \o children)
        /\ Range(q) = {Head(q)} \cup Range(Tail(q))
        /\ Range(Tail(q) \o children) = Range(Tail(q)) \cup Range(children)
        /\ \A x \in Range(Tail(q) \o children) : Head(q).depth <= x.depth
    BY <1>1, <2>1, <2>2, QueueGrows
  <2> QED
    BY <1>2, <1>8, <2>3 DEF q
<1>13. \A x \in Range(graph'.queue) : x \in Range(graph.queue) \/ x \in Range(children)
  BY <1>12
<1>14. \A x \in Range(graph'.queue) : x \in QueueEntry /\ x.depth \in Nat
  <2>1. \A x \in QueueEntry : x.depth \in Nat
    BY DEF QueueEntry
  <2>2. Range(graph'.queue) \subseteq QueueEntry
    BY <1>12, ListedIn
  <2> QED
    BY <2>1, <2>2
<1>15. GraphTypes'
  <2>1. DOMAIN graph'.level = Nodes' /\ graph.root \in Coordinates /\ graph.base \subseteq stored /\ stored \subseteq Coordinates
        /\ missing \in Seq(Coordinates)
    BY <1>1, <1>10 DEF GraphInv, GraphTypes, Begun
  <2>2. graph'.edges \subseteq Coordinates \X Coordinates /\ graph'.external \subseteq Coordinates /\ graph'.failed \subseteq Coordinates
    <3>1. /\ graph.edges \subseteq Coordinates \X Coordinates /\ graph.external \subseteq Coordinates
          /\ graph.failed \subseteq Coordinates
      BY DEF GraphInv, GraphTypes, GraphRec
    <3>2. {h.at} \X Pinned(decl[h.at]) \subseteq Coordinates \X Coordinates
      <4>1. Pinned(decl[h.at]) \subseteq Coordinates
        BY <1>1, <1>3, DepGraphAssumption DEF Coordinates
      <4> QED
        BY <1>3, <4>1
    <3>3. CASE Leaf
      BY <1>2, <1>3, <3>1, <3>3 DEF Leaf
    <3>4. CASE Parent
      BY <1>2, <3>1, <3>2, <3>4 DEF Parent
    <3> QED
      BY <1>7, <3>3, <3>4
  <2>3. graph' \in GraphRec
    <3> DEFINE L == UNION {[S -> Nat] : S \in SUBSET Coordinates}
    <3>1. graph'.level \in L
      <4>1. Nodes' \in SUBSET Coordinates
        BY <1>1, <1>3, <1>9
      <4> QED
        BY <1>10, <4>1
    <3>2. PICK e, x, f, t, l, b, qq, n :
             /\ graph' = [walking |-> TRUE, root |-> graph.root, queue |-> qq, nodes |-> n, external |-> x, edges |-> e,
                          capped |-> t, failed |-> f, base |-> b, level |-> l]
             /\ e = graph'.edges /\ x = graph'.external /\ f = graph'.failed /\ t = graph'.capped /\ l = graph'.level
             /\ b = graph'.base /\ qq = graph'.queue /\ n = graph'.nodes
      BY <1>8, ExpandFields
    <3>3. /\ e \in SUBSET (Coordinates \X Coordinates) /\ x \in SUBSET Coordinates /\ f \in SUBSET Coordinates
          /\ t \in BOOLEAN /\ l \in L /\ b \in SUBSET Coordinates /\ qq \in Seq(QueueEntry) /\ n \in Seq(Coordinates)
      BY <1>8, <1>9, <1>12, <2>1, <2>2, <3>1, <3>2, ExpandFields
    <3> HIDE DEF L
    <3>4. graph' \in [walking : BOOLEAN, root : Coordinates \cup {<<"", "">>}, queue : Seq(QueueEntry),
                      nodes : Seq(Coordinates), external : SUBSET Coordinates,
                      edges : SUBSET (Coordinates \X Coordinates), capped : BOOLEAN,
                      failed : SUBSET Coordinates, base : SUBSET Coordinates, level : L]
      BY <2>1, <3>2, <3>3
    <3> QED
      BY <3>4 DEF GraphRec, L
  <2>4. GraphRec' = GraphRec
    BY <1>8 DEF GraphRec, QueueEntry
  <2> QED
    BY <1>1, <1>8, <2>1, <2>3, <2>4 DEF GraphTypes
<1>16. QueueByDepth'
  <2>1. \A e \in Range(graph.queue) : e.depth <= closureMaxDepth
    BY DEF GraphInv, QueueByDepth
  <2>2. \A e \in Range(graph'.queue) : e.depth <= closureMaxDepth
    BY <1>6, <1>7, <1>13, <2>1
  <2>3. \A e \in Range(graph'.queue) : \A c \in Nodes' : graph'.level[c] <= e.depth
    BY <1>3, <1>10, <1>11, <1>12, <1>14
  <2>4. \A c \in Nodes' : graph'.level[c] <= closureMaxDepth
    BY <1>3, <1>4, <1>5, <1>10, <1>11
  <2> QED
    BY <1>8, <1>12, <2>2, <2>3, <2>4 DEF QueueByDepth, ByDepth
<1>17. RootFirst'
  <2>1. CASE Nodes = {}
    <3>1. graph.queue = <<[at |-> graph.root, depth |-> 0]>>
      BY <1>1, <2>1 DEF GraphInv, RootFirst
    <3>2. h = [at |-> graph.root, depth |-> 0]
      BY <1>2, <3>1
    <3>3. h.at = graph.root /\ h.depth = 0
      BY <3>2
    <3> QED
      BY <1>8, <1>9, <1>10, <2>1, <3>3 DEF RootFirst
  <2>2. CASE Nodes # {}
    BY <1>8, <1>9, <1>10, <2>2 DEF GraphInv, RootFirst
  <2> QED
    BY <2>1, <2>2
<1>18. OnlyReachable'
  <2> DEFINE N(k) == Near(decl, graph.root, stored, k)
  <2>1. h.at \in N(h.depth)
    BY <1>3 DEF GraphInv, OnlyReachable
  <2>2. \A x \in Range(graph.queue) : x.at \in N(x.depth)
    BY DEF GraphInv, OnlyReachable
  <2>3. ASSUME NEW x \in Range(children) PROVE x.at \in N(x.depth)
    <3>1. x.at \in Pinned(decl[h.at]) /\ x.depth = h.depth + 1 /\ h.at \in stored
      BY <1>7
    <3>2. x.at \in DOMAIN decl
      <4>1. x \in QueueEntry
        BY <1>7, ListedIn
      <4> QED
        BY <4>1 DEF QueueEntry, Coordinates
    <3> QED
      BY <1>3, <2>1, <3>1, <3>2, NearStep
  <2>4. \A x \in Range(graph'.queue) : x.at \in N(x.depth)
    BY <1>13, <2>2, <2>3
  <2>5. \A c \in Nodes' : c \in N(graph'.level[c])
    <3>1. \A c \in Nodes : c \in N(graph.level[c])
      BY DEF GraphInv, OnlyReachable
    <3> HIDE DEF N
    <3> QED
      BY <1>9, <1>10, <2>1, <3>1
  <2>6. \A e \in graph.edges : e[1] \in stored /\ e[2] \in Pinned(decl[e[1]]) /\ e[1] \in N(closureMaxDepth - 1)
    BY DEF GraphInv, OnlyReachable
  <2>7. \A e \in graph'.edges : e[1] \in stored /\ e[2] \in Pinned(decl[e[1]]) /\ e[1] \in N(closureMaxDepth - 1)
    <3>1. CASE Leaf
      BY <2>6, <3>1 DEF Leaf
    <3>2. CASE Parent
      <4>1. ~AtCap(h.depth) /\ h.at \in stored /\ graph'.edges = graph.edges \cup ({h.at} \X Pinned(decl[h.at]))
        BY <1>2, <3>2 DEF Parent
      <4>2. stored \subseteq stored /\ h.depth <= closureMaxDepth - 1
        BY <1>6, <4>1
      <4>3. h.at \in N(closureMaxDepth - 1)
        BY <1>3, <1>5, <2>1, <4>2, NearGrows
      <4> HIDE DEF N
      <4> QED
        BY <2>6, <4>1, <4>3
    <3> QED
      BY <1>7, <3>1, <3>2
  <2>8. \A c \in graph'.external : c \in Nodes' /\ c \in N(closureMaxDepth - 1)
    <3>1. \A c \in graph.external : c \in Nodes /\ c \in N(closureMaxDepth - 1)
      BY DEF GraphInv, OnlyReachable
    <3>2. graph'.external = graph.external \/ (graph'.external = graph.external \cup {h.at} /\ ~AtCap(h.depth))
      BY <1>2, <1>7 DEF Leaf, Parent
    <3>3. CASE graph'.external = graph.external
      BY <1>9, <3>1, <3>3
    <3>4. CASE graph'.external = graph.external \cup {h.at} /\ ~AtCap(h.depth)
      <4>1. stored \subseteq stored /\ h.depth <= closureMaxDepth - 1
        BY <1>6, <3>4
      <4>2. h.at \in N(closureMaxDepth - 1)
        BY <1>3, <1>5, <2>1, <4>1, NearGrows
      <4> HIDE DEF N
      <4> QED
        BY <1>9, <3>1, <3>4, <4>2
    <3> QED
      BY <3>2, <3>3, <3>4
  <2> QED
    BY <1>8, <2>4, <2>5, <2>7, <2>8 DEF OnlyReachable
<1>19. NothingLeftOut'
  <2> SUFFICES ASSUME graph'.failed = {}
               PROVE  /\ \A c \in Nodes' \cap graph'.base : graph'.level[c] < closureMaxDepth => Expanded(c)'
                      /\ graph'.external \cap graph'.base = {}
    BY DEF NothingLeftOut
  <2>1. graph.failed = {} /\ (Leaf => AtCap(h.depth) \/ h.at \notin stored)
    BY <1>2, <1>7 DEF Leaf, Parent
  <2>2. /\ \A c \in Nodes \cap graph.base : graph.level[c] < closureMaxDepth => Expanded(c)
        /\ graph.external \cap graph.base = {}
    BY <2>1 DEF GraphInv, NothingLeftOut
  <2>3. graph.base \subseteq stored
    BY <1>1 DEF GraphInv, GraphTypes, Begun
  <2>4. graph'.external \cap graph'.base = {}
    <3>1. graph'.external = graph.external \/ (graph'.external = graph.external \cup {h.at} /\ h.at \notin stored)
      BY <1>2, <1>7, <2>1 DEF Leaf, Parent
    <3> QED
      BY <1>8, <2>2, <2>3, <3>1
  <2>5. graph.edges \subseteq graph'.edges
    BY <1>7 DEF Leaf, Parent
  <2>6. ASSUME NEW d, NEW k \in Nat, Reached(d, k) PROVE Reached(d, k)'
    <3>1. CASE d \in Nodes /\ graph.level[d] <= k
      BY <1>9, <1>10, <3>1 DEF Reached
    <3>2. CASE \E e \in Range(graph.queue) : e.at = d /\ e.depth <= k
      <4>1. PICK e \in Range(graph.queue) : e.at = d /\ e.depth <= k
        BY <3>2
      <4>2. CASE e = h
        <5>1. d \in Nodes' /\ graph'.level[d] <= h.depth /\ graph'.level[d] \in Nat
          BY <1>9, <1>10, <1>11, <4>1, <4>2
        <5>2. graph'.level[d] <= k
          BY <1>3, <4>1, <4>2, <5>1
        <5> QED
          BY <5>1, <5>2 DEF Reached
      <4>3. CASE e # h
        <5>1. e \in Range(graph'.queue)
          BY <1>12, <4>1, <4>3
        <5> QED
          BY <4>1, <5>1 DEF Reached
      <4> QED
        BY <4>2, <4>3
    <3> QED
      BY <2>6, <3>1, <3>2 DEF Reached
  <2>7. ASSUME NEW c \in Nodes \cap graph.base, graph'.level[c] < closureMaxDepth PROVE Expanded(c)'
    <3>1. graph'.level[c] = graph.level[c] /\ graph.level[c] \in Nat /\ Expanded(c)
      BY <1>1, <1>10, <2>2, <2>7
    <3>2. PICK k \in Nat : k = graph.level[c] + 1 /\ k = graph'.level[c] + 1
      BY <3>1
    <3> SUFFICES ASSUME NEW d \in Pinned(decl[c]) PROVE <<c, d>> \in graph'.edges /\ Reached(d, k)'
      BY <1>8, <3>2 DEF Expanded, Reached
    <3>3. <<c, d>> \in graph.edges /\ Reached(d, k)
      BY <3>1, <3>2 DEF Expanded
    <3> QED
      BY <2>5, <2>6, <3>3
  <2>8. ASSUME h.at \notin Nodes, h.at \in graph.base, h.depth < closureMaxDepth PROVE Expanded(h.at)'
    <3>1. Parent /\ \A d \in Pinned(decl[h.at]) \ Nodes' : \E x \in Range(children) : x.at = d
      <4>1. ~AtCap(h.depth) /\ h.at \in stored
        BY <1>3, <1>5, <2>3, <2>8 DEF AtCap
      <4> QED
        BY <1>7, <2>1, <4>1
    <3>2. graph'.edges = graph.edges \cup ({h.at} \X Pinned(decl[h.at])) /\ graph'.level[h.at] = h.depth
      BY <1>2, <1>10, <2>8, <3>1 DEF Parent
    <3>3. PICK k \in Nat : k = h.depth + 1 /\ k = graph'.level[h.at] + 1
      BY <1>3, <3>2
    <3>4. PICK c : c = h.at
      OBVIOUS
    <3> SUFFICES ASSUME NEW d \in Pinned(decl[c]) PROVE <<c, d>> \in graph'.edges /\ Reached(d, k)'
      <4>1. \A d \in Pinned(decl'[c]) : <<c, d>> \in graph'.edges /\ Reached(d, k)'
        BY <1>8
      <4>2. Expanded(c)'
        BY <3>3, <3>4, <4>1 DEF Expanded, Reached
      <4> QED
        BY <3>4, <4>2
    <3>5. <<c, d>> \in graph'.edges
      BY <3>2, <3>4
    <3>6. CASE d \in Nodes'
      <4>1. graph'.level[d] <= k
        BY <1>3, <1>10, <1>11, <3>3, <3>6
      <4>2. Reached(d, k)'
        BY <3>6, <4>1 DEF Reached
      <4> QED
        BY <3>5, <4>2
    <3>7. CASE d \notin Nodes'
      <4>1. PICK x \in Range(children) : x.at = d
        BY <3>1, <3>7, <3>4
      <4>2. x \in Range(graph'.queue) /\ x.depth = k
        BY <1>7, <1>12, <3>3
      <4>3. x.depth <= k
        BY <4>2
      <4>4. Reached(d, k)'
        BY <4>1, <4>2, <4>3 DEF Reached
      <4> QED
        BY <3>5, <4>4
    <3> QED
      BY <3>6, <3>7
  <2>9. ASSUME NEW c \in Nodes' \cap graph'.base, graph'.level[c] < closureMaxDepth PROVE Expanded(c)'
    <3>1. CASE c \in Nodes
      BY <1>8, <2>7, <2>9, <3>1
    <3>2. CASE c \notin Nodes
      <4>1. c = h.at
        BY <1>9, <3>2
      <4> QED
        BY <1>8, <1>10, <2>8, <2>9, <3>2, <4>1
    <3> QED
      BY <3>1, <3>2
  <2> QED
    BY <2>4, <2>9
<1>20. AnswersKnown'
  <2> SUFFICES ASSUME NEW c \in Nodes', graph'.level[c] < closureMaxDepth PROVE c \in stored' \cup graph'.external
    BY DEF AnswersKnown
  <2>1. graph.external \subseteq graph'.external
    BY <1>7 DEF Leaf, Parent
  <2>2. CASE c \in Nodes
    BY <1>8, <1>10, <2>1, <2>2 DEF GraphInv, AnswersKnown
  <2>3. CASE c \notin Nodes
    <3>1. c = h.at /\ ~AtCap(h.depth)
      BY <1>3, <1>5, <1>9, <1>10, <2>3 DEF AtCap
    <3>2. c \in stored \/ c \in graph'.external
      BY <1>2, <1>7, <3>1 DEF Leaf, Parent
    <3> QED
      BY <1>8, <3>2
  <2> QED
    BY <2>2, <2>3
<1>21. CapFlagged'
  <2> SUFFICES ASSUME ~graph'.capped, NEW c \in Nodes' PROVE graph'.level[c] < closureMaxDepth
    BY DEF CapFlagged
  <2>1. ~graph.capped /\ ~AtCap(h.depth)
    BY <1>2, <1>7, ExpandFields DEF Leaf, Parent
  <2>2. CASE c \in Nodes
    BY <1>10, <2>1, <2>2 DEF GraphInv, CapFlagged
  <2>3. CASE c \notin Nodes
    BY <1>6, <1>9, <1>10, <2>1, <2>3
  <2> QED
    BY <2>2, <2>3
<1> QED
  BY <1>15, <1>16, <1>17, <1>18, <1>19, <1>20, <1>21 DEF GraphInv

(***************************************************************************)
(* Once Service.Closure has drawn a graph and no read failed, the graph is *)
(* the closure up to the depth cap: nothing within it over the reports     *)
(* stored at the start is missing, nothing is drawn that the store does    *)
(* not hold, and what is called external had no report when it started.    *)
(***************************************************************************)
THEOREM GraphsAreExact == DepGraphSpec => []GraphIsExact
<1>1. DepGraphInit => GraphInv
  BY GraphInitInv
<1>2. GraphInv /\ [DepGraphNext]_graphVars => GraphInv'
  <2> SUFFICES ASSUME GraphInv, [DepGraphNext]_graphVars PROVE GraphInv'
    OBVIOUS
  <2>1. CASE \E c \in Coordinates : Closure(c)
    BY <2>1, ClosureKeeps
  <2>2. CASE Expand
    BY <2>2, ExpandGraphKeeps
  <2>3. CASE GraphReady
    BY <2>3, GraphReadyKeeps
  <2>4. CASE IngestClosureMissing \/ BumpMissing \/ StoreReport \/ UNCHANGED graphVars
    BY <2>4, BesidesTheWalk
  <2> QED
    BY <2>1, <2>2, <2>3, <2>4 DEF DepGraphNext
<1>3. GraphInv => GraphIsExact
  BY GraphInvExact
<1> QED
  BY <1>1, <1>2, <1>3, PTL DEF DepGraphSpec

(***************************************************************************)
(* The surface of an air-gapped installation (Airgap)                      *)
(***************************************************************************)
SurfRec ==
    [pc : {"idle", "closure", "node", "corpus", "done"}, todo : Seq(Coordinates), own : SUBSET References,
     list : SUBSET References, missing : SUBSET Coordinates, capped : BOOLEAN, quiet : BOOLEAN, clean : BOOLEAN]
IngRec ==
    [pc : {"idle", "report", "refs", "usages", "sources", "canonical", "hydrate"},
     at : Coordinates \cup {<<"", "">>}, found : Coordinates \cup {<<"", "">>}, hydrate : BOOLEAN, ok : BOOLEAN]

StoreTypes ==
    /\ refs \in [Coordinates -> SUBSET References] /\ sources \subseteq Coordinates
    /\ ing \in IngRec /\ (ing.pc # "idle" => ing.at \in Coordinates /\ ing.found \in Coordinates)

\* Where a request is: the graph is drawn before the first node is read, and
\* while the request is quiet the store is the one its walk began with.
Reading == surf.pc \in {"node", "corpus", "done"}
SurfPhase ==
    /\ Reading => Drawn /\ surf.capped = graph.capped /\ (surf.clean => graph.failed = {})
    /\ surf.pc # "idle" /\ surf.quiet => graph.base = stored
    /\ surf.pc = "corpus" => surf.todo # <<>> /\ Head(surf.todo) \notin graph.external
    /\ surf.pc = "corpus" /\ surf.quiet => surf.own = refs[Head(surf.todo)]
    /\ surf.pc = "done" => surf.todo = <<>>
    /\ surf.pc = "closure" => surf.missing = {}

\* What a node may fetch is in the list, by its URL.
Covered(c) == \A r \in refs[c] \cup CorpusRefs(c) : \E x \in surf.list : x.url = r.url
Accounted ==
    Reading => /\ surf.missing \subseteq graph.external
               /\ \A c \in Nodes : \/ c \in Range(surf.todo)
                                   \/ c \in graph.external /\ c \in surf.missing
                                   \/ c \notin graph.external /\ (surf.quiet /\ surf.clean => Covered(c))

AirgapInv == GraphInv /\ StoreTypes /\ surf \in SurfRec /\ SurfPhase /\ Accounted

(* What the corpus makes an extension fetch are references.                *)
LEMMA CorpusRefsType == ASSUME StoreTypes, decl \in Declarations PROVE \A c : CorpusRefs(c) \subseteq References
<1> SUFFICES ASSUME NEW c, CorpusRefs(c) # {} PROVE CorpusRefs(c) \subseteq References
  OBVIOUS
<1>1. c \in sources /\ CorpusRefs(c) = DrivenRefs[c]
  BY DEF CorpusRefs
<1>2. c \in DOMAIN DrivenRefs
  BY <1>1, AirgapAssumption DEF StoreTypes, Coordinates
<1>3. DrivenRefs[c] \in Range(DrivenRefs)
  BY <1>2 DEF Range
<1> QED
  BY <1>1, <1>3 DEF References

(* The invariant of a finished request is NothingSilentlyOmitted.          *)
LEMMA AirgapInvOmitsNothing == ASSUME AirgapInv PROVE NothingSilentlyOmitted
<1> DEFINE Taken(r) == \E x \in surf.list : x.url = r.url /\ (x.host \in RewrittenHosts \/ x.url \in ManualURLs)
<1> SUFFICES ASSUME surf.pc = "done", surf.quiet, surf.clean
             PROVE  /\ \A c \in Within(stored, closureMaxDepth) \cap stored : \A r \in refs[c] \cup CorpusRefs(c) : Taken(r)
                    /\ surf.missing = Within(stored, closureMaxDepth - 1) \ stored
                    /\ Within(stored, closureMaxDepth) \subseteq Within(stored, closureMaxDepth - 1) \/ surf.capped
  BY DEF NothingSilentlyOmitted
<1>1. Drawn /\ graph.failed = {} /\ graph.base = stored /\ surf.todo = <<>>
  BY DEF AirgapInv, SurfPhase, Reading
<1>2. GraphIsExact
  BY GraphInvExact DEF AirgapInv
<1>3. /\ Within(stored, closureMaxDepth) \subseteq Nodes
      /\ graph.external \cap stored = {}
      /\ Within(stored, closureMaxDepth - 1) \subseteq stored \cup graph.external
  BY <1>1, <1>2 DEF GraphIsExact, Nodes
<1>4. /\ surf.missing \subseteq graph.external
      /\ \A c \in Nodes : (c \in graph.external /\ c \in surf.missing) \/ (c \notin graph.external /\ Covered(c))
  <2>1. Range(surf.todo) = {}
    BY <1>1 DEF Range
  <2> QED
    BY <2>1 DEF AirgapInv, Accounted, Reading
<1>5. ASSUME NEW c \in Within(stored, closureMaxDepth) \cap stored, NEW r \in refs[c] \cup CorpusRefs(c)
      PROVE  Taken(r)
  <2>1. Covered(c)
    BY <1>3, <1>4
  <2>2. PICK x \in surf.list : x.url = r.url
    BY <2>1 DEF Covered
  <2>3. x.host \in RewrittenHosts \/ x.url \in ManualURLs
    BY DEF RewrittenHosts, ManualURLs
  <2> QED
    BY <2>2, <2>3
<1>6. surf.missing = Within(stored, closureMaxDepth - 1) \ stored
  <2>1. Within(stored, closureMaxDepth - 1) \subseteq Within(stored, closureMaxDepth)
    <3>1. /\ closureMaxDepth \in Nat /\ closureMaxDepth - 1 \in Nat /\ closureMaxDepth - 1 <= closureMaxDepth
          /\ stored \subseteq stored
      BY DepGraphAssumption
    <3> QED
      BY <3>1, NearGrows, WithinIsNear
  <2>2. \A c \in graph.external : c \in Within(stored, closureMaxDepth - 1)
    BY WithinIsNear DEF AirgapInv, GraphInv, OnlyReachable
  <2> QED
    BY <1>3, <1>4, <2>1, <2>2
<1>7. ASSUME ~surf.capped, NEW c \in Within(stored, closureMaxDepth) PROVE c \in Within(stored, closureMaxDepth - 1)
  <2>1. c \in Nodes /\ ~graph.capped
    BY <1>3, <1>7 DEF AirgapInv, SurfPhase, Reading
  <2>2. c \in Near(decl, graph.root, stored, graph.level[c]) /\ graph.level[c] < closureMaxDepth
    BY <2>1 DEF AirgapInv, GraphInv, OnlyReachable, CapFlagged
  <2>3. /\ graph.level[c] \in Nat /\ closureMaxDepth - 1 \in Nat /\ graph.level[c] <= closureMaxDepth - 1
        /\ stored \subseteq stored
    <3>1. graph.level[c] \in Nat
      BY <2>1, GraphFields DEF AirgapInv, GraphInv
    <3> QED
      BY <2>2, <3>1, DepGraphAssumption
  <2> QED
    BY <2>2, <2>3, NearGrows, WithinIsNear
<1> QED
  BY <1>5, <1>6, <1>7

(* No request is under way at first.                                       *)
LEMMA AirgapInitInv == ASSUME AirgapInit PROVE AirgapInv
<1>1. GraphInv /\ decl \in Declarations
  BY GraphInitInv DEF AirgapInit, DepGraphInit
<1>2. refs = [c \in DOMAIN decl |-> {}] /\ sources = {} /\ ing = NoIngest /\ surf = NoSurface
  BY DEF AirgapInit, SurfaceInit
<1>3. StoreTypes
  <2>1. refs \in [Coordinates -> SUBSET References] /\ sources \subseteq Coordinates
    BY <1>2 DEF Coordinates
  <2>2. ing \in IngRec /\ ing.pc = "idle"
    BY <1>2 DEF NoIngest, IngRec
  <2> QED
    BY <2>1, <2>2 DEF StoreTypes
<1>4. surf \in SurfRec /\ surf.pc = "idle"
  BY <1>2 DEF NoSurface, SurfRec
<1> QED
  BY <1>1, <1>3, <1>4 DEF AirgapInv, SurfPhase, Accounted, Reading

(* What an ingest does to a request under way: nothing, or it unsettles it. *)
LEMMA BesideTheRequest ==
    ASSUME AirgapInv, GraphInv', StoreTypes', graph' = graph, decl' = decl,
           Unsettle \/ UNCHANGED <<surf, stored, refs, usages, sources>>
    PROVE  AirgapInv'
<1>1. Coordinates' = Coordinates /\ SurfRec' = SurfRec /\ Nodes' = Nodes /\ Drawn' = Drawn
  BY DEF Coordinates, SurfRec, Nodes, Drawn
<1>2. CASE Unsettle
  <2>1. surf \in SurfRec /\ surf' = [surf EXCEPT !.quiet = (surf.pc = "idle")]
    BY <1>2 DEF AirgapInv, Unsettle
  <2>2. /\ surf' \in SurfRec /\ surf'.pc = surf.pc /\ surf'.todo = surf.todo /\ surf'.list = surf.list
        /\ surf'.missing = surf.missing /\ surf'.clean = surf.clean /\ surf'.capped = surf.capped
        /\ (surf'.quiet => surf.pc = "idle")
    BY <2>1 DEF SurfRec
  <2>3. SurfPhase'
    BY <1>1, <2>2 DEF AirgapInv, SurfPhase, Reading
  <2>4. Accounted'
    BY <1>1, <2>2 DEF AirgapInv, Accounted, Reading
  <2> QED
    BY <1>1, <2>2, <2>3, <2>4 DEF AirgapInv
<1>3. CASE UNCHANGED <<surf, stored, refs, usages, sources>>
  <2>1. \A c : Covered(c)' <=> Covered(c)
    BY <1>3 DEF Covered, CorpusRefs, CorpusUsages, GetUsages
  <2>2. SurfPhase'
    BY <1>1, <1>3 DEF AirgapInv, SurfPhase, Reading
  <2>3. Accounted'
    BY <1>1, <1>3, <2>1 DEF AirgapInv, Accounted, Reading
  <2> QED
    BY <1>1, <1>3, <2>2, <2>3 DEF AirgapInv
<1> QED
  BY <1>2, <1>3

(* WriteReport under a coordinate.                                         *)
LEMMA ReplaceKeeps ==
    ASSUME AirgapInv, NEW c \in Coordinates, ReplaceVersion(c)
    PROVE  /\ GraphInv' /\ graph' = graph /\ decl' = decl
           /\ refs' \in [Coordinates -> SUBSET References] /\ sources' \subseteq Coordinates
<1>1. /\ graph' = graph /\ decl' = decl /\ missing' = missing /\ stored' = stored \cup {c}
      /\ refs' = [refs EXCEPT ![c] = {}] /\ sources' = sources \ {c}
  BY DEF ReplaceVersion
<1>2. GraphInv /\ stored \subseteq Coordinates /\ missing \in Seq(Coordinates)
  BY DEF AirgapInv, GraphInv, GraphTypes
<1>3. GraphInv'
  BY <1>1, <1>2, StoreGrowsKeeps
<1>4. refs' \in [Coordinates -> SUBSET References] /\ sources' \subseteq Coordinates
  BY <1>1 DEF AirgapInv, StoreTypes
<1> QED
  BY <1>1, <1>3, <1>4

(* An ingest may unsettle a request, never mislead a quiet one.            *)
LEMMA IngestStepsKeep ==
    ASSUME AirgapInv,
           \/ BeginIngest \/ WriteFoundReport \/ WriteExternalRefs \/ WriteUseExtensionUsages
           \/ WriteModuleExtensionSources \/ Canonicalize \/ HydrateReport
    PROVE  AirgapInv'
<1>1. /\ ing \in IngRec /\ (ing.pc # "idle" => ing.at \in Coordinates /\ ing.found \in Coordinates)
      /\ refs \in [Coordinates -> SUBSET References] /\ sources \subseteq Coordinates /\ GraphInv /\ decl \in Declarations
  BY DEF AirgapInv, StoreTypes, GraphInv, GraphTypes
<1>2. \A p \in {"refs", "usages", "sources", "canonical", "hydrate"} :
         LET i == [ing EXCEPT !.pc = p] IN i \in IngRec /\ i.at = ing.at /\ i.found = ing.found
  BY <1>1 DEF IngRec
<1>3. LET i == [ing EXCEPT !.pc = "canonical", !.ok = TRUE] IN i \in IngRec /\ i.at = ing.at /\ i.found = ing.found
  BY <1>1 DEF IngRec
<1>4. decl' = decl => IngRec' = IngRec /\ Coordinates' = Coordinates
  BY DEF IngRec, Coordinates
<1>5. UNCHANGED graphVars => GraphInv' /\ graph' = graph /\ decl' = decl /\ stored' = stored
  BY <1>1, BesidesTheWalk DEF graphVars
<1>6. NoIngest \in IngRec /\ NoIngest.pc = "idle"
  BY DEF NoIngest, IngRec
<1>7. CASE BeginIngest
  <2>1. PICK c \in Coordinates, f \in Coordinates, h \in BOOLEAN :
           ing' = [NoIngest EXCEPT !.pc = "report", !.at = c, !.found = f, !.hydrate = h]
    BY <1>7 DEF BeginIngest
  <2>2. ing' \in IngRec /\ ing'.at = c /\ ing'.found = f
    BY <2>1 DEF NoIngest, IngRec
  <2>3. UNCHANGED <<refs, usages, sources, surf>> /\ UNCHANGED graphVars
    BY <1>7 DEF BeginIngest
  <2>4. StoreTypes'
    BY <1>1, <1>4, <1>5, <2>2, <2>3 DEF StoreTypes
  <2> QED
    BY <1>5, <2>3, <2>4, BesideTheRequest
<1>8. CASE WriteFoundReport
  <2>1. ing.found \in Coordinates /\ ReplaceVersion(ing.found) /\ ing' = [ing EXCEPT !.pc = "refs"] /\ Unsettle
        /\ ing.at \in Coordinates
    BY <1>1, <1>8 DEF WriteFoundReport
  <2>2. /\ GraphInv' /\ graph' = graph /\ decl' = decl
        /\ refs' \in [Coordinates -> SUBSET References] /\ sources' \subseteq Coordinates
    BY <2>1, ReplaceKeeps
  <2>3. StoreTypes'
    BY <1>2, <1>4, <2>1, <2>2 DEF StoreTypes
  <2> QED
    BY <2>1, <2>2, <2>3, BesideTheRequest
<1>9. CASE WriteExternalRefs
  <2>1. /\ ing.at \in Coordinates /\ ing.found \in Coordinates /\ UNCHANGED graphVars /\ UNCHANGED sources /\ Unsettle
        /\ ing' \in {[ing EXCEPT !.pc = "usages"], [ing EXCEPT !.pc = "canonical"]}
        /\ refs' = refs \/ refs' = [refs EXCEPT ![ing.found] = OwnRefs[ing.at]]
    BY <1>1, <1>9 DEF WriteExternalRefs, InsertRefs
  <2>2. OwnRefs[ing.at] \in SUBSET References
    <3>1. ing.at \in DOMAIN OwnRefs
      BY <1>1, <2>1, AirgapAssumption DEF Coordinates
    <3>2. OwnRefs[ing.at] \in Range(OwnRefs)
      BY <3>1 DEF Range
    <3> QED
      BY <3>2 DEF References
  <2>3. refs' \in [Coordinates -> SUBSET References]
    BY <1>1, <2>1, <2>2
  <2>4. StoreTypes'
    BY <1>1, <1>2, <1>4, <1>5, <2>1, <2>3 DEF StoreTypes
  <2> QED
    BY <1>5, <2>1, <2>4, BesideTheRequest
<1>10. CASE WriteUseExtensionUsages
  <2>1. /\ ing.at \in Coordinates /\ ing.found \in Coordinates /\ UNCHANGED graphVars /\ UNCHANGED <<refs, sources>>
        /\ ing' \in {[ing EXCEPT !.pc = "sources"], [ing EXCEPT !.pc = "canonical"]} /\ Unsettle
    BY <1>1, <1>10 DEF WriteUseExtensionUsages
  <2>2. StoreTypes'
    BY <1>1, <1>2, <1>4, <1>5, <2>1 DEF StoreTypes
  <2> QED
    BY <1>5, <2>1, <2>2, BesideTheRequest
<1>11. CASE WriteModuleExtensionSources
  <2>1. /\ ing.at \in Coordinates /\ ing.found \in Coordinates /\ UNCHANGED graphVars /\ UNCHANGED refs /\ Unsettle
        /\ ing' \in {[ing EXCEPT !.pc = "canonical", !.ok = TRUE], [ing EXCEPT !.pc = "canonical"]}
        /\ sources' \subseteq sources \cup {ing.found}
    BY <1>1, <1>11 DEF WriteModuleExtensionSources
  <2>2. StoreTypes'
    BY <1>1, <1>2, <1>3, <1>4, <1>5, <2>1 DEF StoreTypes
  <2> QED
    BY <1>5, <2>1, <2>2, BesideTheRequest
<1>12. CASE Canonicalize
  <2>1. ing.at \in Coordinates /\ ing.found \in Coordinates /\ ing' = [ing EXCEPT !.pc = "hydrate"]
    BY <1>1, <1>12 DEF Canonicalize
  <2>2. CASE UNCHANGED <<graphVars, refs, usages, sources, surf>>
    <3>1. StoreTypes'
      BY <1>1, <1>2, <1>4, <1>5, <2>1, <2>2 DEF StoreTypes
    <3> QED
      BY <1>5, <2>2, <3>1, BesideTheRequest
  <2>3. CASE ReplaceVersion(ing.at) /\ Unsettle
    <3>1. /\ GraphInv' /\ graph' = graph /\ decl' = decl
          /\ refs' \in [Coordinates -> SUBSET References] /\ sources' \subseteq Coordinates
      BY <2>1, <2>3, ReplaceKeeps
    <3>2. StoreTypes'
      BY <1>2, <1>4, <2>1, <3>1 DEF StoreTypes
    <3> QED
      BY <2>3, <3>1, <3>2, BesideTheRequest
  <2> QED
    BY <1>12, <2>2, <2>3 DEF Canonicalize
<1>13. CASE HydrateReport
  <2>1. ing.at \in Coordinates /\ ing' = NoIngest
    BY <1>1, <1>13 DEF HydrateReport
  <2>2. CASE UNCHANGED <<graphVars, refs, usages, sources, surf>>
    <3>1. StoreTypes'
      BY <1>1, <1>4, <1>5, <1>6, <2>1, <2>2 DEF StoreTypes
    <3> QED
      BY <1>5, <2>2, <3>1, BesideTheRequest
  <2>3. CASE ReplaceVersion(ing.at) /\ Unsettle
    <3>1. /\ GraphInv' /\ graph' = graph /\ decl' = decl
          /\ refs' \in [Coordinates -> SUBSET References] /\ sources' \subseteq Coordinates
      BY <2>1, <2>3, ReplaceKeeps
    <3>2. StoreTypes'
      BY <1>4, <1>6, <2>1, <3>1 DEF StoreTypes
    <3> QED
      BY <2>3, <3>1, <3>2, BesideTheRequest
  <2> QED
    BY <1>13, <2>2, <2>3 DEF HydrateReport
<1> QED
  BY <1>7, <1>8, <1>9, <1>10, <1>11, <1>12, <1>13

(* The walk of a request, which reads no node before the graph is drawn.   *)
LEMMA RequestWalkKeeps ==
    ASSUME AirgapInv,
           (\E c \in Coordinates : AirgapSurface(c)) \/ ((Expand \/ GraphReady) /\ UNCHANGED surfaceVars)
    PROVE  AirgapInv'
<1>1. GraphInv /\ StoreTypes /\ surf \in SurfRec /\ graph \in GraphRec
  BY DEF AirgapInv, GraphInv, GraphTypes
<1>2. decl' = decl => Coordinates' = Coordinates /\ SurfRec' = SurfRec /\ IngRec' = IngRec
  BY DEF Coordinates, SurfRec, IngRec
<1>3. CASE \E c \in Coordinates : AirgapSurface(c)
  <2>1. PICK c \in Coordinates : AirgapSurface(c)
    BY <1>3
  <2>2. Closure(c) /\ UNCHANGED <<refs, usages, sources, ing>> /\ decl' = decl /\ stored' = stored
        /\ surf' = [NoSurface EXCEPT !.pc = "closure", !.quiet = (ing.pc = "idle")]
    BY <2>1 DEF AirgapSurface, Closure
  <2>3. GraphInv'
    BY <1>1, <2>2, ClosureKeeps
  <2>4. surf' \in SurfRec /\ surf'.pc = "closure" /\ surf'.missing = {}
    <3>1. PICK b \in BOOLEAN : surf' = [NoSurface EXCEPT !.pc = "closure", !.quiet = b]
      BY <2>2
    <3>2. surf' = [pc |-> "closure", todo |-> <<>>, own |-> {}, list |-> {}, missing |-> {},
                    capped |-> FALSE, quiet |-> b, clean |-> TRUE]
      BY <3>1 DEF NoSurface
    <3> QED
      BY <3>2 DEF SurfRec
  <2>5. graph'.base = stored
    BY <2>2 DEF Closure, NoGraph
  <2>6. StoreTypes'
    BY <1>1, <1>2, <2>2 DEF StoreTypes
  <2> QED
    BY <1>2, <2>2, <2>3, <2>4, <2>5, <2>6 DEF AirgapInv, SurfPhase, Accounted, Reading
<1>4. CASE (Expand \/ GraphReady) /\ UNCHANGED surfaceVars
  <2>1. UNCHANGED <<refs, usages, sources, ing, surf, decl, stored>> /\ graph.walking
    BY <1>4 DEF surfaceVars, Expand, GraphReady
  <2>2. ~Reading
    BY <2>1 DEF AirgapInv, SurfPhase, Drawn
  <2>3. graph'.base = graph.base
    <3>1. CASE Expand
      BY <1>1, <3>1, ExpandFields DEF Grown
    <3>2. CASE GraphReady
      BY <1>1, <3>2 DEF GraphReady, GraphRec
    <3> QED
      BY <1>4, <3>1, <3>2
  <2>4. GraphInv'
    BY <1>1, <1>4, ExpandGraphKeeps, GraphReadyKeeps
  <2>5. StoreTypes'
    BY <1>1, <1>2, <2>1 DEF StoreTypes
  <2>6. surf' = surf /\ ~Reading' /\ surf.pc \notin {"node", "corpus", "done"}
    BY <2>1, <2>2 DEF Reading
  <2>7. SurfPhase'
    BY <2>1, <2>3, <2>6 DEF AirgapInv, SurfPhase, Reading
  <2>8. Accounted'
    BY <2>6 DEF Accounted
  <2> QED
    BY <1>1, <1>2, <2>1, <2>4, <2>5, <2>7, <2>8 DEF AirgapInv
<1> QED
  BY <1>3, <1>4

(* What is merged is in the list, by its URL, and what was there stays.    *)
LEMMA FirstSeenCovers ==
    ASSUME NEW s \in SUBSET References, NEW n \in SUBSET References, NEW l \in FirstSeen(s, n)
    PROVE  l \in SUBSET References /\ s \subseteq l /\ \A r \in n : \E x \in l : x.url = r.url
<1> DEFINE fresh == {r \in n : \A x \in s : x.url # r.url}
<1>1. PICK k \in SUBSET fresh : l = s \cup k /\ \A r \in fresh : \E x \in k : x.url = r.url
  BY DEF FirstSeen
<1>2. ASSUME NEW r \in n PROVE \E x \in l : x.url = r.url
  <2>1. CASE r \in fresh
    BY <1>1, <2>1
  <2>2. CASE r \notin fresh
    BY <1>1, <2>2
  <2> QED
    BY <2>1, <2>2
<1> QED
  BY <1>1, <1>2

(* The steps that read the nodes of a drawn graph.                         *)
LEMMA RequestReadsKeep ==
    ASSUME AirgapInv, SurfaceNodes \/ ReadRefs \/ ReadCorpus \/ SurfaceDone
    PROVE  AirgapInv'
<1>1. /\ GraphInv /\ StoreTypes /\ surf \in SurfRec /\ SurfPhase /\ Accounted /\ decl \in Declarations
      /\ graph.nodes \in Seq(Coordinates) /\ graph.external \subseteq Coordinates /\ surf.todo \in Seq(Coordinates)
      /\ refs \in [Coordinates -> SUBSET References] /\ surf.own \in SUBSET References /\ surf.list \in SUBSET References
  BY GraphFields DEF AirgapInv, GraphInv, GraphTypes, StoreTypes, SurfRec
<1>2. UNCHANGED graphVars /\ UNCHANGED <<decl, stored, graph, refs, usages, sources, ing>>
  BY DEF SurfaceNodes, ReadRefs, ReadCorpus, SurfaceDone, graphVars
<1>3. GraphInv' /\ StoreTypes' /\ SurfRec' = SurfRec /\ Nodes' = Nodes /\ Drawn' = Drawn
  <2>1. GraphInv'
    BY <1>1, <1>2, BesidesTheWalk
  <2>2. SurfRec' = SurfRec /\ Nodes' = Nodes /\ Drawn' = Drawn /\ StoreTypes'
    BY <1>1, <1>2 DEF SurfRec, Nodes, Drawn, StoreTypes, IngRec, Coordinates
  <2> QED
    BY <2>1, <2>2
<1>4. \A c : CorpusRefs(c)' = CorpusRefs(c)
  BY <1>2 DEF CorpusRefs, CorpusUsages, GetUsages
<1>5. surf.list \subseteq surf'.list => \A c : Covered(c) => Covered(c)'
  BY <1>2, <1>4 DEF Covered
<1>6. surf.todo # <<>> => /\ Head(surf.todo) \in Coordinates /\ Tail(surf.todo) \in Seq(Coordinates)
                          /\ Range(surf.todo) = {Head(surf.todo)} \cup Range(Tail(surf.todo))
  BY <1>1, HeadAndRest
<1>7. SUFFICES surf' \in SurfRec /\ SurfPhase' /\ Accounted'
  BY <1>3 DEF AirgapInv
<1>8. CASE SurfaceNodes
  <2>1. PICK b \in BOOLEAN, k \in BOOLEAN :
           /\ surf' = [surf EXCEPT !.pc = "node", !.todo = graph.nodes, !.capped = k, !.clean = b]
           /\ k = graph.capped /\ (b => graph.failed = {})
    <3>1. graph.capped \in BOOLEAN
      BY DEF AirgapInv, GraphInv, GraphTypes, GraphRec
    <3> QED
      BY <1>8, <3>1 DEF SurfaceNodes
  <2>2. /\ surf' \in SurfRec /\ surf'.pc = "node" /\ surf'.todo = graph.nodes /\ surf'.clean = b /\ surf'.capped = k
        /\ surf'.quiet = surf.quiet /\ surf'.missing = surf.missing /\ surf.pc = "closure"
    BY <1>1, <1>8, <2>1 DEF SurfRec, SurfaceNodes
  <2>3. SurfPhase'
    BY <1>1, <1>2, <1>3, <1>8, <2>1, <2>2 DEF SurfPhase, Reading, SurfaceNodes
  <2>4. Accounted'
    <3>1. surf'.missing = {} /\ Range(surf'.todo) = Nodes'
      BY <1>1, <1>3, <2>2 DEF SurfPhase, Nodes
    <3> QED
      BY <3>1 DEF Accounted
  <2> QED
    BY <2>2, <2>3, <2>4
<1>9. CASE ReadRefs
  <2>0. PICK c : c = Head(surf.todo)
    OBVIOUS
  <2>1. surf.pc = "node" /\ surf.todo # <<>> /\ c \in Coordinates /\ Drawn /\ Reading
    BY <1>1, <1>6, <1>9, <2>0 DEF ReadRefs, SurfPhase, Reading
  <2>2. CASE c \in graph.external /\ surf' = [surf EXCEPT !.todo = Tail(@), !.missing = @ \cup {c}]
    <3>1. /\ surf' \in SurfRec /\ surf'.pc = "node" /\ surf'.todo = Tail(surf.todo) /\ surf'.clean = surf.clean
          /\ surf'.quiet = surf.quiet /\ surf'.missing = surf.missing \cup {c} /\ surf'.list = surf.list /\ surf'.capped = surf.capped
      BY <1>1, <1>6, <2>1, <2>2 DEF SurfRec
    <3>2. SurfPhase'
      BY <1>1, <1>2, <1>3, <2>1, <3>1 DEF SurfPhase, Reading
    <3>3. Accounted'
      BY <1>1, <1>2, <1>3, <1>5, <1>6, <2>0, <2>1, <2>2, <3>1 DEF Accounted, Reading
    <3> QED
      BY <3>1, <3>2, <3>3
  <2>3. CASE c \notin graph.external /\ surf' = [surf EXCEPT !.todo = Tail(@), !.clean = FALSE]
    <3>1. /\ surf' \in SurfRec /\ surf'.pc = "node" /\ surf'.todo = Tail(surf.todo) /\ surf'.clean = FALSE
          /\ surf'.quiet = surf.quiet /\ surf'.missing = surf.missing /\ surf'.list = surf.list /\ surf'.capped = surf.capped
      BY <1>1, <1>6, <2>1, <2>3 DEF SurfRec
    <3>2. SurfPhase'
      BY <1>1, <1>2, <1>3, <2>1, <3>1 DEF SurfPhase, Reading
    <3>3. Accounted'
      BY <1>1, <1>2, <1>3, <1>6, <2>0, <2>1, <2>3, <3>1 DEF Accounted, Reading
    <3> QED
      BY <3>1, <3>2, <3>3
  <2>4. CASE c \notin graph.external /\ surf' = [surf EXCEPT !.pc = "corpus", !.own = refs[c]]
    <3>1. /\ surf' \in SurfRec /\ surf'.pc = "corpus" /\ surf'.todo = surf.todo /\ surf'.clean = surf.clean
          /\ surf'.quiet = surf.quiet /\ surf'.missing = surf.missing /\ surf'.list = surf.list /\ surf'.capped = surf.capped /\ surf'.own = refs[c]
      BY <1>1, <2>1, <2>4 DEF SurfRec
    <3>2. SurfPhase'
      BY <1>1, <1>2, <1>3, <2>0, <2>1, <2>4, <3>1 DEF SurfPhase, Reading
    <3>3. Accounted'
      BY <1>1, <1>2, <1>3, <1>5, <2>1, <3>1 DEF Accounted, Reading
    <3> QED
      BY <3>1, <3>2, <3>3
  <2> QED
    BY <1>9, <2>0, <2>2, <2>3, <2>4 DEF ReadRefs
<1>10. CASE ReadCorpus
  <2>0. PICK c : c = Head(surf.todo)
    OBVIOUS
  <2>1. /\ surf.pc = "corpus" /\ surf.todo # <<>> /\ c \in Coordinates /\ Drawn /\ Reading /\ c \notin graph.external
        /\ surf.quiet => surf.own = refs[c]
    BY <1>1, <1>6, <1>10, <2>0 DEF ReadCorpus, SurfPhase, Reading
  <2>2. PICK l \in SUBSET References, b \in BOOLEAN :
           /\ surf' = [surf EXCEPT !.pc = "node", !.todo = Tail(@), !.own = {}, !.list = l, !.clean = b]
           /\ surf.list \subseteq l /\ (b => surf.clean)
           /\ b => \A r \in surf.own \cup CorpusRefs(c) : \E x \in l : x.url = r.url
    <3>1. CASE \E own \in FirstSeen(surf.list, surf.own) : \E list \in FirstSeen(own, CorpusRefs(c)) :
                  surf' = [surf EXCEPT !.pc = "node", !.todo = Tail(@), !.own = {}, !.list = list]
      <4>1. PICK own \in FirstSeen(surf.list, surf.own) : \E list \in FirstSeen(own, CorpusRefs(c)) :
                  surf' = [surf EXCEPT !.pc = "node", !.todo = Tail(@), !.own = {}, !.list = list]
        BY <3>1
      <4>2. PICK list \in FirstSeen(own, CorpusRefs(c)) :
                  surf' = [surf EXCEPT !.pc = "node", !.todo = Tail(@), !.own = {}, !.list = list]
        BY <4>1
      <4>3. own \in SUBSET References /\ surf.list \subseteq own /\ \A r \in surf.own : \E x \in own : x.url = r.url
        BY <1>1, <4>1, FirstSeenCovers
      <4>4. CorpusRefs(c) \in SUBSET References
        BY <1>1, CorpusRefsType
      <4>5. list \in SUBSET References /\ own \subseteq list /\ \A r \in CorpusRefs(c) : \E x \in list : x.url = r.url
        BY <4>2, <4>3, <4>4, FirstSeenCovers
      <4>6. surf' = [surf EXCEPT !.pc = "node", !.todo = Tail(@), !.own = {}, !.list = list, !.clean = surf.clean]
            /\ surf.clean \in BOOLEAN
        BY <1>1, <4>2 DEF SurfRec
      <4>7. surf.list \subseteq list /\ \A r \in surf.own \cup CorpusRefs(c) : \E x \in list : x.url = r.url
        BY <4>3, <4>5
      <4> QED
        BY <4>5, <4>6, <4>7
    <3>2. CASE \E own \in FirstSeen(surf.list, surf.own) :
                  surf' = [surf EXCEPT !.pc = "node", !.todo = Tail(@), !.own = {}, !.list = own, !.clean = FALSE]
      <4>1. PICK own \in FirstSeen(surf.list, surf.own) :
                  surf' = [surf EXCEPT !.pc = "node", !.todo = Tail(@), !.own = {}, !.list = own, !.clean = FALSE]
        BY <3>2
      <4>2. own \in SUBSET References /\ surf.list \subseteq own
        BY <1>1, <4>1, FirstSeenCovers
      <4> QED
        BY <4>1, <4>2
    <3> QED
      BY <1>10, <2>0, <3>1, <3>2 DEF ReadCorpus
  <2>3. /\ surf' \in SurfRec /\ surf'.pc = "node" /\ surf'.todo = Tail(surf.todo) /\ surf'.clean = b
        /\ surf'.quiet = surf.quiet /\ surf'.missing = surf.missing /\ surf'.list = l /\ surf'.capped = surf.capped
    BY <1>1, <1>6, <2>1, <2>2 DEF SurfRec
  <2>4. SurfPhase'
    BY <1>1, <1>2, <1>3, <2>1, <2>2, <2>3 DEF SurfPhase, Reading
  <2>5. surf'.quiet /\ surf'.clean => Covered(c)'
    BY <1>2, <1>4, <2>1, <2>2, <2>3 DEF Covered
  <2>6. Accounted'
    <3>1. surf'.missing \subseteq graph'.external
      BY <1>1, <1>2, <2>1, <2>3 DEF Accounted
    <3>2. ASSUME NEW d \in Nodes
          PROVE  \/ d \in Range(surf'.todo)
                 \/ d \in graph'.external /\ d \in surf'.missing
                 \/ d \notin graph'.external /\ (surf'.quiet /\ surf'.clean => Covered(d)')
      <4>1. CASE d = c
        BY <1>2, <2>1, <2>5, <4>1
      <4>2. CASE d # c
        <5>1. \/ d \in Range(surf.todo)
              \/ d \in graph.external /\ d \in surf.missing
              \/ d \notin graph.external /\ (surf.quiet /\ surf.clean => Covered(d))
          BY <1>1, <2>1 DEF Accounted
        <5>2. Covered(d) => Covered(d)'
          BY <1>5, <2>2, <2>3
        <5>3. d \in Range(surf.todo) => d \in Range(surf'.todo)
          BY <1>6, <2>0, <2>1, <2>3, <4>2
        <5> QED
          BY <1>2, <2>2, <2>3, <5>1, <5>2, <5>3
      <4> QED
        BY <4>1, <4>2
    <3> QED
      BY <1>3, <3>1, <3>2 DEF Accounted
  <2> QED
    BY <2>3, <2>4, <2>6
<1>11. CASE SurfaceDone
  <2>1. surf.pc = "node" /\ surf.todo = <<>> /\ surf' = [surf EXCEPT !.pc = "done"]
    BY <1>11 DEF SurfaceDone
  <2>2. /\ surf' \in SurfRec /\ surf'.pc = "done" /\ surf'.todo = surf.todo /\ surf'.clean = surf.clean
        /\ surf'.quiet = surf.quiet /\ surf'.missing = surf.missing /\ surf'.list = surf.list /\ surf'.capped = surf.capped
    BY <1>1, <2>1 DEF SurfRec
  <2>3. SurfPhase'
    BY <1>1, <1>2, <1>3, <2>1, <2>2 DEF SurfPhase, Reading
  <2>4. Accounted'
    BY <1>1, <1>2, <1>3, <1>5, <2>1, <2>2 DEF Accounted, Reading
  <2> QED
    BY <2>2, <2>3, <2>4
<1> QED
  BY <1>8, <1>9, <1>10, <1>11

(***************************************************************************)
(* A response of AirgapSurface collected while no ingest wrote and no read *)
(* failed answers for the whole closure: what an indexed module within the *)
(* depth cap may fetch is in its list (and in the config made of that),    *)
(* its missing modules are those above the cap without a report, and       *)
(* unless it says the cap was reached nothing lies at the cap.             *)
(***************************************************************************)
THEOREM SurfacesOmitNothing == AirgapSpec => []NothingSilentlyOmitted
<1>1. AirgapInit => AirgapInv
  BY AirgapInitInv
<1>2. AirgapInv /\ [AirgapNext]_airgapVars => AirgapInv'
  <2> SUFFICES ASSUME AirgapInv, [AirgapNext]_airgapVars PROVE AirgapInv'
    OBVIOUS
  <2>1. CASE \/ BeginIngest \/ WriteFoundReport \/ WriteExternalRefs \/ WriteUseExtensionUsages
             \/ WriteModuleExtensionSources \/ Canonicalize \/ HydrateReport
    BY <2>1, IngestStepsKeep
  <2>2. CASE (\E c \in Coordinates : AirgapSurface(c)) \/ ((Expand \/ GraphReady) /\ UNCHANGED surfaceVars)
    BY <2>2, RequestWalkKeeps
  <2>3. CASE SurfaceNodes \/ ReadRefs \/ ReadCorpus \/ SurfaceDone
    BY <2>3, RequestReadsKeep
  <2>4. CASE UNCHANGED airgapVars
    <3>1. UNCHANGED graphVars /\ UNCHANGED <<decl, stored, graph, refs, usages, sources, ing, surf>>
      BY <2>4 DEF airgapVars, graphVars, surfaceVars
    <3>2. GraphInv'
      BY <3>1, BesidesTheWalk DEF AirgapInv
    <3>3. StoreTypes'
      BY <3>1 DEF AirgapInv, StoreTypes, IngRec, Coordinates
    <3> QED
      BY <3>1, <3>2, <3>3, BesideTheRequest
  <2> QED
    BY <2>1, <2>2, <2>3, <2>4 DEF AirgapNext
<1>3. AirgapInv => NothingSilentlyOmitted
  BY AirgapInvOmitsNothing
<1> QED
  BY <1>1, <1>2, <1>3, PTL DEF AirgapSpec

=============================================================================
