----------------------------- MODULE MCRequests -----------------------------
(* Model-checking instances of Requests. *)
EXTENDS Requests, TLC

(* Workers and handlers of one kind are interchangeable, and so are the    *)
(* submitters and the coordinates.  Ids are not: their order is the order  *)
(* of creation, which ListRequests uses.                                   *)
Symmetry == Permutations(Clients) \cup Permutations(Reviewers)
              \cup Permutations(PfWorkers) \cup Permutations(AdWorkers)
              \cup Permutations(Users) \cup Permutations(Coords)

(* audit and attempts are written and never read by an action: the runs    *)
(* whose properties do not mention them identify states that differ only   *)
(* there; a run that counts attempts leaves out audit alone.               *)
WithoutHistory == <<nextId, state, body, hit, retryCount, stale, proc, phase,
                    boots, cl, rv, pw, aw, granted, pub>>
WithoutAudit == <<WithoutHistory, attempts>>
=============================================================================
