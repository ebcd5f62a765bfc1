------------------------------ MODULE MCStreams ------------------------------
(***************************************************************************)
(* The machines with something that must happen in the end, for TLC: the   *)
(* recursive walk, the event streams, the reload on SIGHUP and the cascade.*)
(* They share no variable, so a behaviour runs one of them: the initial    *)
(* state chooses which, and the others rest in one initial state of theirs.*)
(***************************************************************************)
EXTENDS SequencesExt, Walk, EventBus, Reload, Cascade

CONSTANTS Parts,   \* the machines to run
          Root,    \* the key a walk starts from
          Few,     \* the keys of the walks over every graph
          One      \* a pool of one worker

VARIABLE part      \* the machine of this behaviour

streamVars == <<part, walkVars, busVars, reloadVars, cascadeVars>>

JustRoot == <<Root>>

\* Every graph over a few keys, cycles and self-loops included, by the whole pool.
AllGraphs ==
    {[deps |-> [k \in Keys |-> IF k \in Few THEN SetToSeq(g[k]) ELSE <<>>], pool |-> Workers] :
        g \in [Few -> SUBSET Few]}

\* A root with more dependencies than both channels and the worker can hold.
Star == [deps |-> [k \in Keys |-> IF k = Root THEN SetToSeq(Keys \ {Root}) ELSE <<>>],
         pool |-> One]

WalkSetups == AllGraphs \cup {Star}

-----------------------------------------------------------------------------
StreamsInit ==
    /\ part \in Parts
    /\ part # "walk" => deps = Star.deps /\ pool = One
    /\ part # "reload" => reloaders = <<"identity">>
    /\ WalkInit /\ BusInit /\ ReloadInit /\ CascadeInit

Only(p) ==
    /\ part = p /\ UNCHANGED part
    /\ p # "walk"    => UNCHANGED walkVars
    /\ p # "bus"     => UNCHANGED busVars
    /\ p # "reload"  => UNCHANGED reloadVars
    /\ p # "cascade" => UNCHANGED cascadeVars

StreamsNext ==
    \/ Only("walk") /\ WalkNext
    \/ Only("bus") /\ BusNext
    \/ Only("reload") /\ ReloadNext
    \/ Only("cascade") /\ CascadeNext

(***************************************************************************)
(* Fairness.  Goroutines are scheduled: the coordinator and the workers of *)
(* a walk (fetches end, the client has timeouts), the forwarder and the    *)
(* handler of a stream (clients that stay read what is sent to them), the  *)
(* two goroutines of the reload, and some probe or tally of the cascade.   *)
(* Time passes; upstreams owe neither answers nor bodies.                  *)
(***************************************************************************)
StreamsFairness ==
    /\ WF_streamVars(Only("walk") /\ Coordinator)
    /\ \A w \in Workers : WF_streamVars(Only("walk") /\ Worker(w))
    /\ \A s \in Streams : /\ WF_streamVars(Only("bus") /\ Forward(s))
                         /\ WF_streamVars(Only("bus") /\ Handler(s))
    /\ WF_streamVars(Only("reload") /\ ForwardSignal)
    /\ WF_streamVars(Only("reload") /\ RunReloader)
    /\ WF_streamVars(Only("cascade") /\ Tick)
    /\ WF_streamVars(Only("cascade") /\ \E g \in Gets, u \in Upstreams :
                                              Probe(g, u) \/ Tally(g, u))

StreamsSpec == StreamsInit /\ [][StreamsNext]_streamVars /\ StreamsFairness

-----------------------------------------------------------------------------
\* The select of the coordinator keeps the two bounded channels from blocking
\* each other: every walk returns.
WalkTerminates == part = "walk" => Terminates
=============================================================================
