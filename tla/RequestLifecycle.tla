-------------------------- MODULE RequestLifecycle --------------------------
(***************************************************************************)
(* What the procurement pipeline promises about every request, with no     *)
(* workers, handlers, snapshots or crashes in sight: a request is granted  *)
(* before it is fetched, published only while it is being fetched, indexed *)
(* only after it was published, and a terminal verdict is final.  The only *)
(* backward step is the recovery of requests whose fetch was interrupted.  *)
(* Module Requests implements this specification.                          *)
(***************************************************************************)
EXTENDS RequestStates

CONSTANT Ids            \* request identifiers

VARIABLES state,        \* the state of every request
          granted,      \* requests that a checker or a reviewer let through
          pub           \* requests whose module entry reached the registry

absVars == <<state, granted, pub>>

AbsInit ==
    /\ state = [i \in Ids |-> "none"]
    /\ granted = {}
    /\ pub = {}

Submit(i) ==
    /\ state[i] = "none"
    /\ state' = [state EXCEPT ![i] = "pending"]
    /\ UNCHANGED <<granted, pub>>

\* A step along the graph that neither grants nor ends the request.
Work(i, to) ==
    /\ CanTransitionTo(state[i], to)
    /\ to \in {"preflighting", "needs_review"}
    /\ state' = [state EXCEPT ![i] = to]
    /\ UNCHANGED <<granted, pub>>

Grant(i, to) ==
    /\ CanTransitionTo(state[i], to)
    /\ to \in AdmitCandidates
    /\ state' = [state EXCEPT ![i] = to]
    /\ granted' = granted \cup {i}
    /\ UNCHANGED pub

BeginFetch(i) ==
    /\ i \in granted
    /\ CanTransitionTo(state[i], "fetching")
    /\ state' = [state EXCEPT ![i] = "fetching"]
    /\ UNCHANGED <<granted, pub>>

PublishEntry(i) ==
    /\ i \in granted
    /\ state[i] = "fetching"
    /\ pub' = pub \cup {i}
    /\ UNCHANGED <<state, granted>>

Index(i) ==
    /\ i \in pub
    /\ state[i] = "fetching"
    /\ state' = [state EXCEPT ![i] = "indexed"]
    /\ UNCHANGED <<granted, pub>>

Refuse(i) ==
    /\ CanTransitionTo(state[i], "denied")
    /\ state' = [state EXCEPT ![i] = "denied"]
    /\ UNCHANGED <<granted, pub>>

Recover(R) ==
    /\ \A i \in R : state[i] = "fetching"
    /\ state' = [i \in Ids |-> IF i \in R THEN "approved" ELSE state[i]]
    /\ UNCHANGED <<granted, pub>>

AbsNext ==
    \/ \E i \in Ids :
          \/ Submit(i) \/ BeginFetch(i) \/ PublishEntry(i)
          \/ Index(i) \/ Refuse(i)
          \/ \E to \in RequestState : Work(i, to) \/ Grant(i, to)
    \/ \E R \in SUBSET Ids : Recover(R)

AbsSpec == AbsInit /\ [][AbsNext]_absVars
=============================================================================
