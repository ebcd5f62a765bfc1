--------------------------- MODULE RequestStates ---------------------------
(***************************************************************************)
(* The states of a procurement request and the graph of legal transitions  *)
(* between them (internal/store/requests.go).  "none" is the state of a    *)
(* row that has not been inserted yet.                                     *)
(***************************************************************************)

RequestState == {"pending", "preflighting", "auto_pass", "needs_review",
                 "approved", "fetching", "indexed", "denied"}

legalTransitions ==
    {<<"pending", "preflighting">>,      <<"pending", "denied">>,
     <<"preflighting", "auto_pass">>,    <<"preflighting", "needs_review">>,
     <<"preflighting", "denied">>,
     <<"needs_review", "approved">>,     <<"needs_review", "denied">>,
     <<"auto_pass", "fetching">>,        <<"approved", "fetching">>,
     <<"fetching", "indexed">>,          <<"fetching", "denied">>}

CanTransitionTo(s, to) == <<s, to>> \in legalTransitions

\* A state without an outgoing edge: indexed and denied.
IsTerminal(s) == \A to \in RequestState : ~CanTransitionTo(s, to)

(***************************************************************************)
(* The sets of states the components name in their queries: what the       *)
(* preflight runner and the admit runner list, and from where a reviewer   *)
(* may approve or deny.                                                    *)
(***************************************************************************)
\* Mutant: the admit runner lists approved rows only.
AdmitCandidatesApprovedOnly == {"approved"}

AdmitCandidates == {"auto_pass", "approved"}

AllowedFroms(toState) ==
    IF toState = "approved" THEN {"needs_review"}
                            ELSE {"pending", "preflighting", "needs_review"}

OpenStates == RequestState \ {"indexed", "denied"}
=============================================================================
