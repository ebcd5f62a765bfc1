------------------------------ MODULE EventBus ------------------------------
(***************************************************************************)
(* The in-process event bus (internal/eventbus) and the server-sent event  *)
(* streams fed by it: Publish, Subscribe, unsubscribe and Close, the       *)
(* forwarder goroutine of Service.Subscribe between the bus channel and    *)
(* the stream channel, and the apiEvents handler that drains the latter.   *)
(***************************************************************************)
EXTENDS Naturals, Sequences, FiniteSets

CONSTANTS Publishers,   \* goroutines that emit: bumps, walks, audit writers
          Detached,     \* those that are not HTTP handlers: promote-on-serve bumps
          Streams,      \* GET /api/events connections
          Buf,          \* channel capacity (256 in apiEvents)
          MaxEvents,    \* bound: events per publisher
          MayLeave,     \* may clients disconnect?
          MayClose      \* may the process shut the bus down?

ASSUME BusAssumption ==
    /\ Detached \subseteq Publishers
    /\ Buf \in Nat \ {0} /\ MaxEvents \in Nat
    /\ MayLeave \in BOOLEAN /\ MayClose \in BOOLEAN

VARIABLES closed,    \* Bus.closed
          subs,      \* Bus.subs
          raw,       \* stream -> [q: buffered events, open: not closed]
          out,       \* stream -> the forwarder's channel, likewise
          fwd,       \* stream -> the forwarder: [pc, q: the event it holds, if any]
          pub,       \* publisher -> [n: events published, left: targets of the call in progress]
          sse,       \* stream -> "new", "open", "gone"
          got,       \* stream -> frames written to the client
          dropped,   \* stream -> drop counter
          offered,   \* history: stream -> events a Publish has offered to it
          dead,      \* publishers that died of a panic
          stuck      \* a goroutine died while it held Bus.mu

busVars == <<closed, subs, raw, out, fwd, pub, sse, got, dropped, offered, dead, stuck>>

NewChan == [q |-> <<>>, open |-> TRUE]

BusInit ==
    /\ closed = FALSE /\ subs = {} /\ dead = {} /\ stuck = FALSE
    /\ raw = [s \in Streams |-> NewChan]
    /\ out = [s \in Streams |-> NewChan]
    /\ fwd = [s \in Streams |-> [pc |-> "off", q |-> <<>>]]
    /\ pub = [p \in Publishers |-> [n |-> 0, left |-> {}]]
    /\ sse = [s \in Streams |-> "new"]
    /\ got = [s \in Streams |-> <<>>]
    /\ dropped = [s \in Streams |-> 0]
    /\ offered = [s \in Streams |-> 0]

\* net/http recovers a panic of a handler; in any other goroutine it ends
\* the process.
Running == dead \cap Detached = {}
BusFree == Running /\ ~stuck

-----------------------------------------------------------------------------
(***************************************************************************)
(* The bus                                                                 *)
(***************************************************************************)
\* Publish: under the mutex, snapshot the subscribers ...
Snapshot(p) ==
    /\ BusFree /\ ~closed /\ p \notin dead
    /\ pub[p].left = {} /\ pub[p].n < MaxEvents
    /\ pub' = [pub EXCEPT ![p] = [n |-> @.n + 1, left |-> subs]]
    /\ UNCHANGED <<closed, subs, raw, out, fwd, sse, got, dropped, offered, dead, stuck>>

\* Mutant: an event that finds the channel full displaces the oldest one.
OfferDisplaces(p, s) ==
    /\ Running /\ s \in pub[p].left
    /\ \/ /\ ~raw[s].open
          /\ dead' = dead \cup {p}
          /\ pub' = [pub EXCEPT ![p].left = {}]
          /\ UNCHANGED <<raw, offered>>
       \/ /\ raw[s].open
          /\ pub' = [pub EXCEPT ![p].left = @ \ {s}]
          /\ offered' = [offered EXCEPT ![s] = @ + 1]
          /\ raw' = [raw EXCEPT ![s].q = Append(IF Len(@) < Buf THEN @ ELSE Tail(@), <<p, pub[p].n>>)]
          /\ UNCHANGED dead
    /\ UNCHANGED <<closed, subs, out, fwd, sse, got, dropped, stuck>>

\* ... then offer the event to each of them without it.  A send on a closed
\* channel panics, also in a select with a default.
Offer(p, s) ==
    /\ Running /\ s \in pub[p].left
    /\ \/ /\ ~raw[s].open
          /\ dead' = dead \cup {p}
          /\ pub' = [pub EXCEPT ![p].left = {}]
          /\ UNCHANGED <<raw, dropped, offered>>
       \/ /\ raw[s].open
          /\ pub' = [pub EXCEPT ![p].left = @ \ {s}]
          /\ offered' = [offered EXCEPT ![s] = @ + 1]
          /\ IF Len(raw[s].q) < Buf
               THEN /\ raw' = [raw EXCEPT ![s].q = Append(@, <<p, pub[p].n>>)]
                    /\ UNCHANGED dropped
               ELSE /\ dropped' = [dropped EXCEPT ![s] = @ + 1]
                    /\ UNCHANGED raw
          /\ UNCHANGED dead
    /\ UNCHANGED <<closed, subs, out, fwd, sse, got, stuck>>

Close ==
    /\ BusFree /\ MayClose /\ ~closed
    /\ closed' = TRUE /\ subs' = {}
    /\ raw' = [s \in Streams |-> IF s \in subs THEN [raw[s] EXCEPT !.open = FALSE] ELSE raw[s]]
    /\ UNCHANGED <<out, fwd, pub, sse, got, dropped, offered, dead, stuck>>

-----------------------------------------------------------------------------
(***************************************************************************)
(* A stream: the handler and its forwarder                                 *)
(***************************************************************************)
\* Subscribe; a write to the nil map of a closed bus panics with the mutex
\* held, and the handler is gone.
Connect(s) ==
    /\ BusFree /\ sse[s] = "new"
    /\ IF closed
         THEN /\ stuck' = TRUE
              /\ sse' = [sse EXCEPT ![s] = "gone"]
              /\ UNCHANGED <<subs, fwd>>
         ELSE /\ subs' = subs \cup {s}
              /\ fwd' = [fwd EXCEPT ![s].pc = "recv"]
              /\ sse' = [sse EXCEPT ![s] = "open"]
              /\ UNCHANGED stuck
    /\ UNCHANGED <<closed, raw, out, pub, got, dropped, offered, dead>>

\* unsubscribe, deferred by the handler.
Unsubscribe(s) ==
    /\ subs' = subs \ {s}
    /\ raw' = IF s \in subs THEN [raw EXCEPT ![s].open = FALSE] ELSE raw

\* The client disconnects, or a write to it fails.
Leave(s) ==
    /\ BusFree /\ MayLeave /\ sse[s] = "open"
    /\ sse' = [sse EXCEPT ![s] = "gone"]
    /\ Unsubscribe(s)
    /\ UNCHANGED <<closed, out, fwd, pub, got, dropped, offered, dead, stuck>>

WriteFrame(s) ==
    /\ Running /\ sse[s] = "open" /\ out[s].q # <<>>
    /\ got' = [got EXCEPT ![s] = Append(@, Head(out[s].q))]
    /\ out' = [out EXCEPT ![s].q = Tail(@)]
    /\ UNCHANGED <<closed, subs, raw, fwd, pub, sse, dropped, offered, dead, stuck>>

\* The events channel is drained and closed: the handler returns.
StreamEnds(s) ==
    /\ BusFree /\ sse[s] = "open" /\ out[s].q = <<>> /\ ~out[s].open
    /\ sse' = [sse EXCEPT ![s] = "gone"]
    /\ Unsubscribe(s)
    /\ UNCHANGED <<closed, out, fwd, pub, got, dropped, offered, dead, stuck>>

\* Mutant: the forwarder ends without closing its channel.
ForwardRecvLeaves(s) ==
    /\ Running /\ fwd[s].pc = "recv" /\ raw[s].q # <<>>
    /\ fwd' = [fwd EXCEPT ![s] = [pc |-> "hold", q |-> <<Head(raw[s].q)>>]]
    /\ raw' = [raw EXCEPT ![s].q = Tail(@)]
    /\ UNCHANGED <<closed, subs, out, pub, sse, got, dropped, offered, dead, stuck>>

\* for e := range raw, with close(out) deferred.
ForwardRecv(s) ==
    /\ Running /\ fwd[s].pc = "recv"
    /\ \/ /\ raw[s].q # <<>>
          /\ fwd' = [fwd EXCEPT ![s] = [pc |-> "hold", q |-> <<Head(raw[s].q)>>]]
          /\ raw' = [raw EXCEPT ![s].q = Tail(@)]
          /\ UNCHANGED out
       \/ /\ raw[s].q = <<>> /\ ~raw[s].open
          /\ fwd' = [fwd EXCEPT ![s].pc = "exited"]
          /\ out' = [out EXCEPT ![s].open = FALSE]
          /\ UNCHANGED raw
    /\ UNCHANGED <<closed, subs, pub, sse, got, dropped, offered, dead, stuck>>

\* out <- e blocks while the channel is full, also when nobody reads any more.
ForwardSend(s) ==
    /\ Running /\ fwd[s].pc = "hold" /\ Len(out[s].q) < Buf
    /\ out' = [out EXCEPT ![s].q = @ \o fwd[s].q]
    /\ fwd' = [fwd EXCEPT ![s] = [pc |-> "recv", q |-> <<>>]]
    /\ UNCHANGED <<closed, subs, raw, pub, sse, got, dropped, offered, dead, stuck>>

Forward(s) == ForwardRecv(s) \/ ForwardSend(s)
Handler(s) == WriteFrame(s) \/ StreamEnds(s)

BusNext ==
    \/ \E p \in Publishers : Snapshot(p) \/ \E s \in pub[p].left : Offer(p, s)
    \/ \E s \in Streams : Connect(s) \/ Leave(s) \/ Forward(s) \/ Handler(s)
    \/ Close

BusSpec == BusInit /\ [][BusNext]_busVars

-----------------------------------------------------------------------------
\* Everything a stream was given, in order of arrival.
Pipeline(s) == got[s] \o out[s].q \o fwd[s].q \o raw[s].q

(* Through two channels and the forwarder a stream keeps the order in      *)
(* which each publisher published and shows nothing twice; and an event    *)
(* offered to it is on its way, shown, or counted as dropped: a slow       *)
(* client loses events only where the counter says so.                     *)
StreamFaithful ==
    \A s \in Streams :
        /\ \A i, j \in 1..Len(Pipeline(s)) :
              i < j /\ Pipeline(s)[i][1] = Pipeline(s)[j][1] => Pipeline(s)[i][2] < Pipeline(s)[j][2]
        /\ offered[s] = Len(Pipeline(s)) + dropped[s]

(* Shutting the bus down ends every stream, after it has shown what was    *)
(* already buffered, unless a goroutine died with the bus mutex locked.    *)
ShutdownEndsStreams ==
    \A s \in Streams : (closed /\ sse[s] = "open") ~> (sse[s] = "gone" \/ ~BusFree)

(***************************************************************************)
(* What comments in the code say and the code does not do.                 *)
(***************************************************************************)
(* "Publish never blocks and returns immediately" (eventbus/bus.go:38):    *)
(* a client that disconnects while an event is being published does not    *)
(* bring the publisher down.                                               *)
PublishReturns == dead = {}
=============================================================================
