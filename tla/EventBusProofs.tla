--------------------------- MODULE EventBusProofs ---------------------------
(***************************************************************************)
(* Proofs about EventBus, for any number of publishers and streams, any    *)
(* buffer and any number of events, with clients leaving, the bus closing  *)
(* and publishers dying: a stream keeps every publisher's order, shows     *)
(* nothing twice, and accounts for every event it was offered.             *)
(***************************************************************************)
EXTENDS EventBus, SequenceTheorems, TLAPS

Event == Publishers \X Nat
Chan == [q : Seq(Event), open : BOOLEAN]
ForwarderRec == [pc : {"off", "recv", "hold", "exited"}, q : Seq(Event)]
PublisherRec == [n : Nat, left : SUBSET Streams]

BusTypes ==
    /\ subs \subseteq Streams
    /\ raw \in [Streams -> Chan] /\ out \in [Streams -> Chan]
    /\ fwd \in [Streams -> ForwarderRec]
    /\ pub \in [Publishers -> PublisherRec]
    /\ got \in [Streams -> Seq(Event)] /\ sse \in [Streams -> {"new", "open", "gone"}]
    /\ dropped \in [Streams -> Nat] /\ offered \in [Streams -> Nat]

\* The forwarder runs for a connected stream, and holds an event only
\* between its receive and its send.
HoldsOne ==
    \A s \in Streams :
        /\ fwd[s].pc # "hold" => fwd[s].q = <<>>
        /\ sse[s] = "new" => fwd[s].pc = "off"

\* A list in which every publisher's events come in the order of their numbers.
InOrder(q) == \A i, j \in 1..Len(q) : i < j /\ q[i][1] = q[j][1] => q[i][2] < q[j][2]

\* No stream has an event its publisher has not published, nor the one it
\* has yet to be offered.
NotAhead(s) ==
    \A i \in 1..Len(Pipeline(s)), p \in Publishers : Pipeline(s)[i][1] = p =>
        /\ Pipeline(s)[i][2] <= pub[p].n
        /\ s \in pub[p].left => Pipeline(s)[i][2] < pub[p].n

Accounted(s) == offered[s] = Len(Pipeline(s)) + dropped[s]

BusInv ==
    /\ BusTypes /\ HoldsOne
    /\ \A s \in Streams : InOrder(Pipeline(s)) /\ NotAhead(s) /\ Accounted(s)

-----------------------------------------------------------------------------
(***************************************************************************)
(* Moving events between the four parts of a pipeline                      *)
(***************************************************************************)
(* The head of a list, moved to the end of the one before it.              *)
LEMMA MoveHead ==
    ASSUME NEW S, NEW a \in Seq(S), NEW b \in Seq(S), b # <<>>
    PROVE  Append(a, Head(b)) \o Tail(b) = a \o b
<1>1. Len(a) \in Nat /\ Len(b) \in Nat /\ Len(b) # 0
  BY LenProperties, EmptySeq
<1>2. Head(b) \in S /\ Tail(b) \in Seq(S) /\ Len(Tail(b)) = Len(b) - 1
      /\ \A i \in 1..(Len(b) - 1) : Tail(b)[i] = b[i + 1]
  BY HeadTailProperties
<1>3. Head(b) = b[1]
  BY <1>1
<1> DEFINE x == Append(a, Head(b))
           y == Tail(b)
<1>4. x \in Seq(S) /\ Len(x) = Len(a) + 1 /\ \A i \in 1..Len(a) : x[i] = a[i]
  BY <1>2, AppendProperties
<1>5. x[Len(a) + 1] = b[1]
  BY <1>2, <1>3, AppendProperties
<1>6. y \in Seq(S) /\ Len(y) = Len(b) - 1 /\ \A i \in 1..(Len(b) - 1) : y[i] = b[i + 1]
  BY <1>2
<1> HIDE DEF x, y
<1>7. /\ x \o y \in Seq(S) /\ Len(x \o y) = Len(x) + Len(y)
      /\ \A i \in 1..(Len(x) + Len(y)) : (x \o y)[i] = IF i <= Len(x) THEN x[i] ELSE y[i - Len(x)]
  BY <1>4, <1>6, ConcatProperties
<1>8. /\ a \o b \in Seq(S) /\ Len(a \o b) = Len(a) + Len(b)
      /\ \A i \in 1..(Len(a) + Len(b)) : (a \o b)[i] = IF i <= Len(a) THEN a[i] ELSE b[i - Len(a)]
  BY ConcatProperties
<1>9. Len(x \o y) = Len(a \o b)
  BY <1>1, <1>4, <1>6, <1>7, <1>8
<1>10. ASSUME NEW i \in 1..Len(a \o b) PROVE (x \o y)[i] = (a \o b)[i]
  <2>0. i \in 1..(Len(x) + Len(y)) /\ i \in 1..(Len(a) + Len(b))
    BY <1>1, <1>4, <1>6, <1>8
  <2>1. CASE i <= Len(a)
    BY <2>0, <2>1, <1>1, <1>4, <1>7, <1>8
  <2>2. CASE i = Len(a) + 1
    BY <2>0, <2>2, <1>1, <1>4, <1>5, <1>7, <1>8
  <2>3. CASE i > Len(a) + 1
    <3>1. i - Len(x) \in 1..(Len(b) - 1) /\ (i - Len(x)) + 1 = i - Len(a)
      BY <2>0, <2>3, <1>1, <1>4
    <3>2. (x \o y)[i] = y[i - Len(x)]
      BY <2>0, <2>3, <1>1, <1>4, <1>7
    <3>3. (a \o b)[i] = b[i - Len(a)]
      BY <2>0, <2>3, <1>1, <1>8
    <3> QED BY <3>1, <3>2, <3>3, <1>6
  <2> QED BY <2>0, <2>1, <2>2, <2>3, <1>1
<1> QED BY <1>7, <1>8, <1>9, <1>10, SeqEqual DEF x, y

(* The forwarder takes the oldest event of the bus channel.                *)
LEMMA RecvKeepsPipeline ==
    ASSUME NEW S, NEW g \in Seq(S), NEW o \in Seq(S), NEW r \in Seq(S), r # <<>>
    PROVE  g \o o \o <<Head(r)>> \o Tail(r) = g \o o \o <<>> \o r
<1> DEFINE x == g \o o
<1>1. x \in Seq(S)
  BY ConcatProperties
<1> HIDE DEF x
<1>2. Head(r) \in S /\ Tail(r) \in Seq(S)
  BY HeadTailProperties
<1>3. x \o <<Head(r)>> = Append(x, Head(r))
  BY <1>1, <1>2, AppendIsConcat
<1>4. x \o <<>> = x
  BY <1>1, ConcatEmptySeq
<1> QED BY <1>1, <1>3, <1>4, MoveHead DEF x

(* An event accepted by the bus channel is the newest of the pipeline.     *)
LEMMA OfferAppends ==
    ASSUME NEW S, NEW x \in Seq(S), NEW r \in Seq(S), NEW e \in S
    PROVE  x \o Append(r, e) = Append(x \o r, e)
<1>1. Append(r, e) = r \o <<e>> /\ <<e>> \in Seq(S)
  BY AppendIsConcat
<1>2. x \o r \in Seq(S)
  BY ConcatProperties
<1>3. Append(x \o r, e) = (x \o r) \o <<e>>
  BY <1>2, AppendIsConcat
<1>4. (x \o r) \o <<e>> = x \o (r \o <<e>>)
  BY <1>1, ConcatAssociative
<1> QED BY <1>1, <1>3, <1>4
-----------------------------------------------------------------------------
(* No stream, nothing published.                                           *)
LEMMA BusInitInv == BusInit => BusInv
<1> SUFFICES ASSUME BusInit PROVE BusInv
  OBVIOUS
<1>1. BusTypes
  <2>1. <<>> \in Seq(Event) /\ {} \in SUBSET Streams
    BY EmptySeq
  <2> QED BY <2>1 DEF BusInit, BusTypes, NewChan, Chan, ForwarderRec, PublisherRec
<1>2. HoldsOne
  BY DEF BusInit, HoldsOne
<1>3. ASSUME NEW s \in Streams PROVE InOrder(Pipeline(s)) /\ NotAhead(s) /\ Accounted(s)
  <2>1. Pipeline(s) = <<>>
    BY ConcatEmptySeq, EmptySeq DEF BusInit, Pipeline, NewChan
  <2>2. Len(Pipeline(s)) = 0
    BY <2>1, EmptySeq
  <2> QED BY <2>2 DEF InOrder, NotAhead, Accounted, BusInit
<1> QED BY <1>1, <1>2, <1>3 DEF BusInv

(* Every step of the bus, the forwarders, the handlers and the clients     *)
(* preserves the invariant.                                                *)
LEMMA BusStep == BusInv /\ [BusNext]_busVars => BusInv'
<1> SUFFICES ASSUME BusInv, [BusNext]_busVars PROVE BusInv'
  OBVIOUS
<1>t. BusTypes /\ HoldsOne
  BY DEF BusInv
<1>q. ASSUME NEW s \in Streams
      PROVE  /\ got[s] \in Seq(Event) /\ raw[s] \in Chan /\ out[s] \in Chan /\ fwd[s] \in ForwarderRec
             /\ raw[s].q \in Seq(Event) /\ out[s].q \in Seq(Event) /\ fwd[s].q \in Seq(Event)
             /\ Pipeline(s) \in Seq(Event) /\ Len(Pipeline(s)) \in Nat
             /\ InOrder(Pipeline(s)) /\ NotAhead(s) /\ Accounted(s)
  <2>1. /\ got[s] \in Seq(Event) /\ raw[s] \in Chan /\ out[s] \in Chan /\ fwd[s] \in ForwarderRec
    BY <1>t DEF BusTypes
  <2>2. raw[s].q \in Seq(Event) /\ out[s].q \in Seq(Event) /\ fwd[s].q \in Seq(Event)
    BY <2>1 DEF Chan, ForwarderRec
  <2>3. Pipeline(s) \in Seq(Event)
    BY <2>1, <2>2, ConcatProperties DEF Pipeline
  <2> QED BY <2>1, <2>2, <2>3, LenProperties DEF BusInv
\* Nothing enters a pipeline, and nobody publishes.
<1>k. ASSUME BusTypes', HoldsOne', UNCHANGED <<pub, dropped, offered>>,
             \A s \in Streams : Pipeline(s)' = Pipeline(s)
      PROVE  BusInv'
  <2>1. ASSUME NEW s \in Streams PROVE (InOrder(Pipeline(s)) /\ NotAhead(s) /\ Accounted(s))'
    BY <1>k, <1>q DEF InOrder, NotAhead, Accounted
  <2> QED BY <1>k, <2>1 DEF BusInv
<1>u. ASSUME NEW s \in Streams, got'[s] = got[s], raw'[s].q = raw[s].q, out'[s].q = out[s].q,
             fwd'[s].q = fwd[s].q
      PROVE  Pipeline(s)' = Pipeline(s)
  BY <1>u DEF Pipeline
<1>1. CASE UNCHANGED busVars
  BY <1>1, <1>t, <1>k, <1>u DEF busVars, BusTypes, HoldsOne
<1>2. ASSUME NEW p \in Publishers, Snapshot(p) PROVE BusInv'
  <2>1. /\ pub' = [pub EXCEPT ![p] = [n |-> pub[p].n + 1, left |-> subs]]
        /\ UNCHANGED <<subs, raw, out, fwd, sse, got, dropped, offered>>
    BY <1>2 DEF Snapshot
  <2>2. pub[p] \in PublisherRec /\ pub[p].n \in Nat
    BY <1>t DEF BusTypes, PublisherRec
  <2>3. [n |-> pub[p].n + 1, left |-> subs] \in PublisherRec
    <3>1. subs \in SUBSET Streams /\ pub[p].n + 1 \in Nat
      BY <2>2, <1>t DEF BusTypes
    <3> QED BY <3>1 DEF PublisherRec
  <2>4. BusTypes' /\ HoldsOne'
    BY <2>1, <2>3, <1>t DEF BusTypes, HoldsOne
  <2>5. ASSUME NEW s \in Streams PROVE (InOrder(Pipeline(s)) /\ NotAhead(s) /\ Accounted(s))'
    <3>1. Pipeline(s)' = Pipeline(s)
      BY <2>1, <1>u
    <3>2. InOrder(Pipeline(s))' /\ Accounted(s)'
      BY <3>1, <2>1, <1>q DEF InOrder, Accounted
    <3>3. ASSUME NEW i \in 1..Len(Pipeline(s)), NEW r \in Publishers, Pipeline(s)[i][1] = r
          PROVE  /\ Pipeline(s)[i][2] <= pub'[r].n
                 /\ s \in pub'[r].left => Pipeline(s)[i][2] < pub'[r].n
      <4>1. Pipeline(s)[i] \in Event
        BY <1>q, ElementOfSeq
      <4>2. Pipeline(s)[i][2] \in Nat
        BY <4>1 DEF Event
      <4>3. /\ Pipeline(s)[i][2] <= pub[r].n /\ (s \in pub[r].left => Pipeline(s)[i][2] < pub[r].n)
        BY <3>3, <1>q DEF NotAhead
      <4>4. CASE r = p
        <5>1. pub'[r].n = pub[p].n + 1
          BY <4>4, <2>1, <1>t DEF BusTypes
        <5> QED BY <5>1, <4>2, <4>3, <4>4, <2>2
      <4>5. CASE r # p
        <5>1. pub'[r] = pub[r]
          BY <4>5, <2>1, <1>t DEF BusTypes
        <5> QED BY <5>1, <4>3
      <4> QED BY <4>4, <4>5
    <3> QED BY <3>1, <3>2, <3>3 DEF NotAhead
  <2> QED BY <2>4, <2>5 DEF BusInv
<1>3. ASSUME NEW p \in Publishers, NEW s \in pub[p].left, Offer(p, s) PROVE BusInv'
  <2>0. /\ s \in Streams /\ pub[p] \in PublisherRec /\ pub[p].n \in Nat
        /\ pub[p].left \in SUBSET Streams
    BY <1>t DEF BusTypes, PublisherRec
  <2>1. UNCHANGED <<subs, out, fwd, sse, got>>
    BY <1>3 DEF Offer
  <2>p. /\ pub' \in [Publishers -> PublisherRec]
        /\ \A r \in Publishers : pub'[r].n = pub[r].n /\ pub'[r].left \subseteq pub[r].left
        /\ s \notin pub'[p].left
    <3> DEFINE SS == SUBSET Streams
    <3>1. PublisherRec = [n : Nat, left : SS] /\ {} \in SS /\ pub[p].left \ {s} \in SS
      BY <2>0 DEF PublisherRec
    <3> HIDE DEF SS
    <3>2. pub' = [pub EXCEPT ![p].left = {}] \/ pub' = [pub EXCEPT ![p].left = @ \ {s}]
      BY <1>3 DEF Offer
    <3>3. CASE pub' = [pub EXCEPT ![p].left = {}]
      BY <3>1, <3>3, <1>t DEF BusTypes
    <3>4. CASE pub' = [pub EXCEPT ![p].left = @ \ {s}]
      BY <3>1, <3>4, <1>t DEF BusTypes
    <3> QED BY <3>2, <3>3, <3>4
  \* A publisher that stops offering an event is not ahead of it either.
  <2>n. ASSUME NEW r \in Streams, Pipeline(r)' = Pipeline(r) PROVE NotAhead(r)'
    BY <2>n, <2>p, <1>q DEF NotAhead
  <2>2. CASE ~raw[s].open
    <3>1. UNCHANGED <<raw, dropped, offered>>
      BY <1>3, <2>2 DEF Offer
    <3>2. BusTypes' /\ HoldsOne'
      BY <3>1, <2>1, <2>p, <1>t DEF BusTypes, HoldsOne
    <3>3. ASSUME NEW r \in Streams PROVE (InOrder(Pipeline(r)) /\ NotAhead(r) /\ Accounted(r))'
      <4>1. Pipeline(r)' = Pipeline(r)
        BY <3>1, <2>1, <1>u
      <4> QED BY <4>1, <3>1, <2>n, <1>q DEF InOrder, Accounted
    <3> QED BY <3>2, <3>3 DEF BusInv
  <2>3. CASE raw[s].open
    <3>0. /\ offered' = [offered EXCEPT ![s] = @ + 1]
          /\ IF Len(raw[s].q) < Buf
               THEN /\ raw' = [raw EXCEPT ![s].q = Append(@, <<p, pub[p].n>>)]
                    /\ UNCHANGED dropped
               ELSE /\ dropped' = [dropped EXCEPT ![s] = @ + 1]
                    /\ UNCHANGED raw
      BY <1>3, <2>3 DEF Offer
    <3>d. dropped[s] \in Nat /\ offered[s] \in Nat
      BY <2>0, <1>t DEF BusTypes
    <3>o. /\ offered' \in [Streams -> Nat] /\ offered'[s] = offered[s] + 1
          /\ \A r \in Streams : r # s => offered'[r] = offered[r]
      BY <3>0, <3>d, <2>0, <1>t DEF BusTypes
    <3>1. CASE ~(Len(raw[s].q) < Buf)
      <4>1. /\ UNCHANGED raw /\ dropped' \in [Streams -> Nat] /\ dropped'[s] = dropped[s] + 1
            /\ \A r \in Streams : r # s => dropped'[r] = dropped[r]
        BY <3>0, <3>1, <3>d, <2>0, <1>t DEF BusTypes
      <4>2. BusTypes' /\ HoldsOne'
        BY <4>1, <3>o, <2>1, <2>p, <1>t DEF BusTypes, HoldsOne
      <4>3. ASSUME NEW r \in Streams PROVE (InOrder(Pipeline(r)) /\ NotAhead(r) /\ Accounted(r))'
        <5>1. Pipeline(r)' = Pipeline(r)
          BY <4>1, <2>1, <1>u
        <5>2. InOrder(Pipeline(r))' /\ NotAhead(r)'
          BY <5>1, <2>n, <1>q DEF InOrder
        <5>3. Accounted(r)'
          <6>1. /\ Len(Pipeline(r)) \in Nat /\ dropped[r] \in Nat /\ offered[r] = Len(Pipeline(r)) + dropped[r]
            BY <1>q, <1>t DEF Accounted, BusTypes
          <6>2. Len(Pipeline(r))' = Len(Pipeline(r))
            BY <5>1
          <6>3. offered'[r] = Len(Pipeline(r)) + dropped'[r]
            <7>1. CASE r = s
              BY <7>1, <6>1, <4>1, <3>o
            <7>2. CASE r # s
              BY <7>2, <6>1, <4>1, <3>o
            <7> QED BY <7>1, <7>2
          <6> QED BY <6>2, <6>3 DEF Accounted
        <5> QED BY <5>2, <5>3
      <4> QED BY <4>2, <4>3 DEF BusInv
    <3>2. CASE Len(raw[s].q) < Buf
      <4> DEFINE e == <<p, pub[p].n>>
      <4>e. e \in Event /\ e[1] = p /\ e[2] = pub[p].n
        BY <2>0 DEF Event
      <4>0. raw' = [raw EXCEPT ![s].q = Append(@, e)] /\ UNCHANGED dropped
        BY <3>0, <3>2
      <4> HIDE DEF e
      <4>1. Append(raw[s].q, e) \in Seq(Event)
        BY <4>e, <2>0, <1>q, AppendProperties
      <4>2. /\ raw' \in [Streams -> Chan] /\ raw'[s].q = Append(raw[s].q, e)
            /\ \A r \in Streams : r # s => raw'[r] = raw[r]
        BY <4>0, <4>1, <2>0, <1>t DEF BusTypes, Chan
      <4>3. BusTypes' /\ HoldsOne'
        BY <4>0, <4>2, <3>o, <2>1, <2>p, <1>t DEF BusTypes, HoldsOne
      <4>4. Pipeline(s)' = Append(Pipeline(s), e)
        <5> DEFINE x == got[s] \o out[s].q \o fwd[s].q
        <5>1. x \in Seq(Event)
          BY <2>0, <1>q, ConcatProperties
        <5>2. Pipeline(s) = x \o raw[s].q /\ Pipeline(s)' = x \o Append(raw[s].q, e)
          BY <2>1, <4>2 DEF Pipeline
        <5>3. x \o Append(raw[s].q, e) = Append(x \o raw[s].q, e)
          <6> HIDE DEF x
          <6>1. raw[s].q \in Seq(Event) /\ e \in Event
            BY <4>e, <2>0, <1>q
          <6> QED BY <5>1, <6>1, OfferAppends
        <5> QED BY <5>2, <5>3
      <4>5. LET P == Pipeline(s)
            IN  /\ Len(Pipeline(s)') = Len(P) + 1 /\ Pipeline(s)'[Len(P) + 1] = e
                /\ \A i \in 1..Len(P) : Pipeline(s)'[i] = P[i]
        BY <4>4, <4>e, <2>0, <1>q, AppendProperties
      <4>6. \A i \in 1..Len(Pipeline(s)) : Pipeline(s)[i][1] = p => Pipeline(s)[i][2] < pub[p].n
        BY <2>0, <1>3, <1>q DEF NotAhead
      <4>7. InOrder(Pipeline(s))'
        <5> SUFFICES ASSUME NEW i \in 1..Len(Pipeline(s)'), NEW j \in 1..Len(Pipeline(s)'), i < j,
                            Pipeline(s)'[i][1] = Pipeline(s)'[j][1]
                     PROVE  Pipeline(s)'[i][2] < Pipeline(s)'[j][2]
          BY DEF InOrder
        <5>0. Len(Pipeline(s)) \in Nat
          BY <2>0, <1>q
        <5>1. i \in 1..Len(Pipeline(s))
          BY <4>5, <5>0
        <5>2. CASE j = Len(Pipeline(s)) + 1
          BY <5>1, <5>2, <4>5, <4>6, <4>e
        <5>3. CASE j # Len(Pipeline(s)) + 1
          <6>1. j \in 1..Len(Pipeline(s))
            BY <5>0, <5>3, <4>5
          <6> QED BY <5>1, <6>1, <4>5, <2>0, <1>q DEF InOrder
        <5> QED BY <5>2, <5>3
      <4>8. NotAhead(s)'
        <5> SUFFICES ASSUME NEW i \in 1..Len(Pipeline(s)'), NEW r \in Publishers, Pipeline(s)'[i][1] = r
                     PROVE  /\ Pipeline(s)'[i][2] <= pub'[r].n
                            /\ s \in pub'[r].left => Pipeline(s)'[i][2] < pub'[r].n
          BY DEF NotAhead
        <5>0. Len(Pipeline(s)) \in Nat
          BY <2>0, <1>q
        <5>1. CASE i = Len(Pipeline(s)) + 1
          BY <5>1, <4>5, <4>e, <2>p, <2>0
        <5>2. CASE i # Len(Pipeline(s)) + 1
          <6>1. i \in 1..Len(Pipeline(s))
            BY <5>0, <5>2, <4>5
          <6>2. Pipeline(s)'[i] = Pipeline(s)[i]
            BY <6>1, <4>5
          <6>3. /\ Pipeline(s)[i][2] <= pub[r].n
                /\ s \in pub[r].left => Pipeline(s)[i][2] < pub[r].n
            BY <6>1, <6>2, <2>0, <1>q DEF NotAhead
          <6> QED BY <6>2, <6>3, <2>p
        <5> QED BY <5>1, <5>2
      <4>9. Accounted(s)'
        <5>1. Len(Pipeline(s)) \in Nat /\ offered[s] = Len(Pipeline(s)) + dropped[s]
          BY <2>0, <1>q DEF Accounted
        <5>2. Len(Pipeline(s))' = Len(Pipeline(s)) + 1
          BY <4>5
        <5>3. offered'[s] = (Len(Pipeline(s)) + 1) + dropped'[s]
          BY <5>1, <4>0, <3>o, <3>d
        <5> QED BY <5>2, <5>3 DEF Accounted
      <4>10. ASSUME NEW r \in Streams PROVE (InOrder(Pipeline(r)) /\ NotAhead(r) /\ Accounted(r))'
        <5>1. CASE r = s
          BY <5>1, <4>7, <4>8, <4>9
        <5>2. CASE r # s
          <6>1. Pipeline(r)' = Pipeline(r)
            BY <5>2, <4>2, <2>1, <1>u
          <6> QED BY <5>2, <6>1, <4>0, <3>o, <2>n, <1>q DEF InOrder, Accounted
        <5> QED BY <5>1, <5>2
      <4> QED BY <4>3, <4>10 DEF BusInv
    <3> QED BY <3>1, <3>2
  <2> QED BY <2>2, <2>3
<1>4. CASE Close
  <2>1. /\ raw' = [s \in Streams |-> IF s \in subs THEN [raw[s] EXCEPT !.open = FALSE] ELSE raw[s]]
        /\ subs' = {} /\ UNCHANGED <<out, fwd, pub, sse, got, dropped, offered>>
    BY <1>4 DEF Close
  <2>2. raw' \in [Streams -> Chan] /\ \A s \in Streams : raw'[s].q = raw[s].q
    BY <2>1, <1>q DEF Chan
  <2>3. BusTypes' /\ HoldsOne'
    BY <2>1, <2>2, <1>t DEF BusTypes, HoldsOne
  <2> QED BY <2>1, <2>2, <2>3, <1>u, <1>k
<1>5. ASSUME NEW s \in Streams, Connect(s) PROVE BusInv'
  <2>1. /\ UNCHANGED <<raw, out, pub, got, dropped, offered>>
        /\ subs' \subseteq subs \cup {s} /\ sse[s] = "new"
        /\ (sse' = [sse EXCEPT ![s] = "gone"] \/ sse' = [sse EXCEPT ![s] = "open"])
        /\ (UNCHANGED fwd \/ fwd' = [fwd EXCEPT ![s].pc = "recv"])
    BY <1>5 DEF Connect
  <2>2. fwd' \in [Streams -> ForwarderRec] /\ \A r \in Streams : fwd'[r].q = fwd[r].q
    <3>1. CASE UNCHANGED fwd
      BY <3>1, <1>t DEF BusTypes
    <3>2. CASE fwd' = [fwd EXCEPT ![s].pc = "recv"]
      BY <3>2, <1>t DEF BusTypes, ForwarderRec
    <3> QED BY <2>1, <3>1, <3>2
  <2>3. HoldsOne'
    <3>1. fwd[s].q = <<>>
      BY <2>1, <1>t DEF HoldsOne
    <3>2. \A r \in Streams : r # s => fwd'[r].pc = fwd[r].pc
      BY <2>1, <1>t DEF BusTypes
    <3>3. sse'[s] # "new" /\ \A r \in Streams : r # s => sse'[r] = sse[r]
      BY <2>1, <1>t DEF BusTypes
    <3> QED BY <3>1, <3>2, <3>3, <2>2, <1>t DEF HoldsOne
  <2>4. BusTypes'
    BY <2>1, <2>2, <1>t DEF BusTypes
  <2> QED BY <2>1, <2>2, <2>3, <2>4, <1>u, <1>k
\* Unsubscribing closes a channel and leaves what is in it.
<1>l. ASSUME NEW s \in Streams, Unsubscribe(s), sse' = [sse EXCEPT ![s] = "gone"],
             UNCHANGED <<out, fwd, pub, got, dropped, offered>>
      PROVE  BusInv'
  <2>1. subs' \subseteq subs /\ (UNCHANGED raw \/ raw' = [raw EXCEPT ![s].open = FALSE])
    BY <1>l DEF Unsubscribe
  <2>2. raw' \in [Streams -> Chan] /\ \A r \in Streams : raw'[r].q = raw[r].q
    <3>1. CASE UNCHANGED raw
      BY <3>1, <1>t DEF BusTypes
    <3>2. CASE raw' = [raw EXCEPT ![s].open = FALSE]
      BY <3>2, <1>t DEF BusTypes, Chan
    <3> QED BY <2>1, <3>1, <3>2
  <2>3. BusTypes' /\ HoldsOne'
    <3>1. sse' \in [Streams -> {"new", "open", "gone"}] /\ \A r \in Streams : sse'[r] = "new" => sse[r] = "new"
      BY <1>l, <1>t DEF BusTypes
    <3> QED BY <3>1, <1>l, <2>1, <2>2, <1>t DEF BusTypes, HoldsOne
  <2> QED BY <1>l, <2>2, <2>3, <1>u, <1>k
<1>6. ASSUME NEW s \in Streams, Leave(s) \/ StreamEnds(s) PROVE BusInv'
  BY <1>6, <1>l DEF Leave, StreamEnds
<1>7. ASSUME NEW s \in Streams, WriteFrame(s) PROVE BusInv'
  <2>1. /\ out[s].q # <<>> /\ got' = [got EXCEPT ![s] = Append(@, Head(out[s].q))]
        /\ out' = [out EXCEPT ![s].q = Tail(@)]
        /\ UNCHANGED <<subs, raw, fwd, pub, sse, dropped, offered>>
    BY <1>7 DEF WriteFrame
  <2>2. Head(out[s].q) \in Event /\ Tail(out[s].q) \in Seq(Event)
    BY <2>1, <1>q, HeadTailProperties
  <2>3. Append(got[s], Head(out[s].q)) \in Seq(Event)
    BY <2>2, <1>q, AppendProperties
  <2>4. /\ got' \in [Streams -> Seq(Event)] /\ got'[s] = Append(got[s], Head(out[s].q))
        /\ \A r \in Streams : r # s => got'[r] = got[r]
    BY <2>1, <2>3, <1>t DEF BusTypes
  <2>5. /\ out' \in [Streams -> Chan] /\ out'[s].q = Tail(out[s].q)
        /\ \A r \in Streams : r # s => out'[r] = out[r]
    BY <2>1, <2>2, <1>t DEF BusTypes, Chan
  <2>6. BusTypes' /\ HoldsOne'
    BY <2>1, <2>4, <2>5, <1>t DEF BusTypes, HoldsOne
  <2>7. Pipeline(s)' = Pipeline(s)
    <3>1. Pipeline(s)' = Append(got[s], Head(out[s].q)) \o Tail(out[s].q) \o fwd[s].q \o raw[s].q
      BY <2>1, <2>4, <2>5 DEF Pipeline
    <3>2. /\ got[s] \in Seq(Event) /\ out[s].q \in Seq(Event) /\ fwd[s].q \in Seq(Event) /\ raw[s].q \in Seq(Event)
      BY <1>q
    <3>3. Append(got[s], Head(out[s].q)) \o Tail(out[s].q) \o fwd[s].q \o raw[s].q
            = got[s] \o out[s].q \o fwd[s].q \o raw[s].q
      <4>1. Append(got[s], Head(out[s].q)) \o Tail(out[s].q) = got[s] \o out[s].q
        BY <3>2, <2>1, MoveHead, Zenon
      <4> QED BY <4>1, Zenon
    <3> QED BY <3>1, <3>3 DEF Pipeline
  <2>8. ASSUME NEW r \in Streams PROVE Pipeline(r)' = Pipeline(r)
    BY <2>1, <2>4, <2>5, <2>7, <1>u
  <2> QED BY <2>1, <2>6, <2>8, <1>k
<1>8. ASSUME NEW s \in Streams, ForwardRecv(s) PROVE BusInv'
  <2>0. fwd[s].pc = "recv" /\ UNCHANGED <<subs, pub, sse, got, dropped, offered>> /\ fwd[s].q = <<>>
        /\ sse[s] # "new"
    BY <1>8, <1>t DEF ForwardRecv, HoldsOne
  <2>1. CASE raw[s].q # <<>>
    <3>1. /\ fwd' = [fwd EXCEPT ![s] = [pc |-> "hold", q |-> <<Head(raw[s].q)>>]]
          /\ raw' = [raw EXCEPT ![s].q = Tail(@)] /\ UNCHANGED out
      BY <1>8, <2>1 DEF ForwardRecv
    <3>2. Head(raw[s].q) \in Event /\ Tail(raw[s].q) \in Seq(Event)
      BY <2>1, <1>q, HeadTailProperties
    <3>3. <<Head(raw[s].q)>> \in Seq(Event)
      BY <3>2
    <3>4. /\ fwd' \in [Streams -> ForwarderRec] /\ fwd'[s].q = <<Head(raw[s].q)>> /\ fwd'[s].pc = "hold"
          /\ \A r \in Streams : r # s => fwd'[r] = fwd[r]
      BY <3>1, <3>3, <1>t DEF BusTypes, ForwarderRec
    <3>5. /\ raw' \in [Streams -> Chan] /\ raw'[s].q = Tail(raw[s].q)
          /\ \A r \in Streams : r # s => raw'[r] = raw[r]
      BY <3>1, <3>2, <1>t DEF BusTypes, Chan
    <3>6. BusTypes' /\ HoldsOne'
      BY <2>0, <3>1, <3>4, <3>5, <1>t DEF BusTypes, HoldsOne
    <3>7. Pipeline(s)' = Pipeline(s)
      <4>1. Pipeline(s)' = got[s] \o out[s].q \o <<Head(raw[s].q)>> \o Tail(raw[s].q)
        BY <2>0, <3>1, <3>4, <3>5 DEF Pipeline
      <4>2. got[s] \in Seq(Event) /\ out[s].q \in Seq(Event) /\ raw[s].q \in Seq(Event)
        BY <1>q
      <4>3. got[s] \o out[s].q \o <<Head(raw[s].q)>> \o Tail(raw[s].q) = got[s] \o out[s].q \o <<>> \o raw[s].q
        <5>1. ASSUME NEW g \in Seq(Event), NEW o \in Seq(Event), NEW r \in Seq(Event), r # <<>>
              PROVE  g \o o \o <<Head(r)>> \o Tail(r) = g \o o \o <<>> \o r
          BY <5>1, RecvKeepsPipeline
        <5> QED BY <4>2, <2>1, <5>1, Zenon
      <4> QED BY <4>1, <4>3, <2>0 DEF Pipeline
    <3>8. ASSUME NEW r \in Streams PROVE Pipeline(r)' = Pipeline(r)
      BY <2>0, <3>1, <3>4, <3>5, <3>7, <1>u
    <3> QED BY <2>0, <3>6, <3>8, <1>k
  <2>2. CASE raw[s].q = <<>>
    <3>1. /\ fwd' = [fwd EXCEPT ![s].pc = "exited"] /\ out' = [out EXCEPT ![s].open = FALSE] /\ UNCHANGED raw
      BY <1>8, <2>2 DEF ForwardRecv
    <3>2. fwd' \in [Streams -> ForwarderRec] /\ \A r \in Streams : fwd'[r].q = fwd[r].q
      BY <3>1, <1>t DEF BusTypes, ForwarderRec
    <3>3. out' \in [Streams -> Chan] /\ \A r \in Streams : out'[r].q = out[r].q
      BY <3>1, <1>t DEF BusTypes, Chan
    <3>4. HoldsOne'
      BY <3>1, <2>0, <1>t DEF BusTypes, ForwarderRec, HoldsOne
    <3>5. BusTypes'
      BY <2>0, <3>1, <3>2, <3>3, <1>t DEF BusTypes
    <3> QED BY <2>0, <3>1, <3>2, <3>3, <3>4, <3>5, <1>u, <1>k
  <2> QED BY <2>1, <2>2
<1>9. ASSUME NEW s \in Streams, ForwardSend(s) PROVE BusInv'
  <2>1. /\ out' = [out EXCEPT ![s].q = @ \o fwd[s].q] /\ fwd' = [fwd EXCEPT ![s] = [pc |-> "recv", q |-> <<>>]]
        /\ UNCHANGED <<subs, raw, pub, sse, got, dropped, offered>> /\ sse[s] # "new"
    BY <1>9, <1>t DEF ForwardSend, HoldsOne
  <2>2. out[s].q \o fwd[s].q \in Seq(Event) /\ <<>> \in Seq(Event)
    BY <1>q, ConcatProperties, EmptySeq
  <2>3. /\ out' \in [Streams -> Chan] /\ out'[s].q = out[s].q \o fwd[s].q
        /\ \A r \in Streams : r # s => out'[r] = out[r]
    BY <2>1, <2>2, <1>t DEF BusTypes, Chan
  <2>4. /\ fwd' \in [Streams -> ForwarderRec] /\ fwd'[s].q = <<>>
        /\ \A r \in Streams : r # s => fwd'[r] = fwd[r]
    BY <2>1, <2>2, <1>t DEF BusTypes, ForwarderRec
  <2>5. BusTypes' /\ HoldsOne'
    BY <2>1, <2>3, <2>4, <1>t DEF BusTypes, HoldsOne
  <2>6. Pipeline(s)' = Pipeline(s)
    <3>1. Pipeline(s)' = got[s] \o (out[s].q \o fwd[s].q) \o <<>> \o raw[s].q
      BY <2>1, <2>3, <2>4 DEF Pipeline
    <3>2. /\ got[s] \in Seq(Event) /\ out[s].q \in Seq(Event) /\ fwd[s].q \in Seq(Event) /\ raw[s].q \in Seq(Event)
      BY <1>q
    <3>3. got[s] \o (out[s].q \o fwd[s].q) \o <<>> \o raw[s].q = got[s] \o out[s].q \o fwd[s].q \o raw[s].q
      <4>1. got[s] \o (out[s].q \o fwd[s].q) \o <<>> = got[s] \o out[s].q \o fwd[s].q
        <5>1. got[s] \o (out[s].q \o fwd[s].q) = got[s] \o out[s].q \o fwd[s].q
          <6> DEFINE g == got[s]
                     o == out[s].q
                     f == fwd[s].q
          <6>1. g \in Seq(Event) /\ o \in Seq(Event) /\ f \in Seq(Event)
            BY <3>2
          <6> HIDE DEF g, o, f
          <6>2. g \o (o \o f) = g \o o \o f
            BY <6>1, ConcatAssociative
          <6> QED BY <6>2, Zenon DEF g, o, f
        <5>2. got[s] \o out[s].q \o fwd[s].q \in Seq(Event)
          BY <3>2, ConcatProperties
        <5>3. got[s] \o out[s].q \o fwd[s].q \o <<>> = got[s] \o out[s].q \o fwd[s].q
          BY <5>2, ConcatEmptySeq
        <5> QED BY <5>1, <5>3, Zenon
      <4> QED BY <4>1, Zenon
    <3> QED BY <3>1, <3>3 DEF Pipeline
  <2>7. ASSUME NEW r \in Streams PROVE Pipeline(r)' = Pipeline(r)
    BY <2>1, <2>3, <2>4, <2>6, <1>u
  <2> QED BY <2>1, <2>5, <2>7, <1>k
<1> QED
  BY <1>1, <1>2, <1>3, <1>4, <1>5, <1>6, <1>7, <1>8, <1>9 DEF BusNext, Forward, Handler

(* StreamFaithful, through two channels, the forwarder, full buffers,      *)
(* disconnects and shutdown: every stream shows each publisher's events    *)
(* once and in order, and what it was offered is shown, on its way or      *)
(* counted as dropped.                                                     *)
THEOREM StreamsAreFaithful == BusSpec => []StreamFaithful
<1>1. BusInv => StreamFaithful
  BY DEF BusInv, StreamFaithful, InOrder, Accounted
<1> QED BY <1>1, BusInitInv, BusStep, PTL DEF BusSpec
=============================================================================
