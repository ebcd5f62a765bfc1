--------------------------- MODULE MCRequestsCast ---------------------------
(***************************************************************************)
(* Instances of Requests for TLC that count.  The initial state chooses    *)
(* who may act: submit handlers that race in one lifetime, with a reviewer *)
(* and an admit worker that close rows, or one handler and both runners    *)
(* over several lifetimes, on fewer rows, all of which can be fetched.     *)
(***************************************************************************)
EXTENDS MCRequests

VARIABLE cast   \* "submit" or "restart"

castVars == <<cast, vars>>

OnStage ==
    CASE cast = "submit"  -> /\ boots <= 1 /\ proc # "stopping" /\ (proc = "down" => boots = 0)
                             /\ \A w \in PfWorkers : pw[w].pc = "idle"
      [] cast = "restart" -> /\ nextId <= MaxId
                             /\ \A i \in 1..(nextId - 1) : body[i].src
                             /\ \A i, j \in 1..(nextId - 1) : i # j =>
                                   body[i].user # body[j].user /\ body[i].coord # body[j].coord
                             /\ Cardinality({c \in Clients : cl[c].pc # "idle"}) <= 1
                             /\ \A r \in Reviewers : rv[r].pc = "idle"

CastInit == cast \in {"submit", "restart"} /\ Init
CastNext == UNCHANGED cast /\ Next /\ OnStage'
CastSpec == CastInit /\ [][CastNext]_castVars

\* Only the restarts count attempts.
CastView == <<cast, IF cast = "submit" THEN WithoutHistory ELSE WithoutAudit>>
=============================================================================
