------------------------------ MODULE MCServer ------------------------------
(***************************************************************************)
(* The machines behind the HTTP server, for TLC: the gates of a request,   *)
(* the limiters, the maintainer cache, the response cache of the cascade,  *)
(* the audit daemons and egress.  They share no variable, so a behaviour   *)
(* runs one of them: the initial state chooses which, and the others rest  *)
(* in one initial state of theirs.                                         *)
(***************************************************************************)
EXTENDS Serving, IngestLimits, UserLimits, Maintainers, Cascade, AuditTrail, Egress, TLC

CONSTANTS Parts,       \* the machines to run
          a1, g1       \* model values: an address, a grant

VARIABLE part          \* the machine of this behaviour

serverVars == <<part, servingVars, limitsVars, userVars, maintVars, cascadeVars,
                auditVars, egressVars>>

-----------------------------------------------------------------------------
(* Limits switched on and off, alone and together.                         *)
SomeLimits == {[perMin |-> 1, maxConcurrent |-> 1], [perMin |-> 2, maxConcurrent |-> 1],
               [perMin |-> 0, maxConcurrent |-> 2], [perMin |-> 2, maxConcurrent |-> 0]}

SomeAuditPolicies == {[retain |-> 0, url |-> TRUE], [retain |-> 1, url |-> TRUE],
                      [retain |-> 1, url |-> FALSE]}

\* Gates opened, misspelt and closed; entries a registry takes and refuses.
SomeGroupGates == [approver |-> "group:approver", engineers |-> "group:engineers",
                   procurement |-> "group:procurement"]
SomeOverlays == {("submit_request" :> "any") @@ ("approve_request" :> "everyone"),
                 ("use_mcp_write" :> "any") @@ ("use_mcp_read" :> "group:")
                    @@ ("deny_request" :> "authenticated")}
TokenEntry(token, named, groups) == [token |-> token, named |-> named, groups |-> groups]
SomeEntryLists == {<< >>,
                   <<TokenEntry("t1", TRUE, {"engineers"}), TokenEntry("t2", TRUE, {})>>,
                   <<TokenEntry("", TRUE, {"approver"})>>, <<TokenEntry("t1", FALSE, {"approver"})>>,
                   <<TokenEntry("t1", TRUE, {}), TokenEntry("t1", TRUE, {"approver"})>>}

-----------------------------------------------------------------------------
ServerInit ==
    /\ part \in Parts
    /\ part # "limits" => limits = [perMin |-> 1, maxConcurrent |-> 1]
                          /\ call = [c \in IngestCalls |-> IdleCall(a1)]
    /\ part # "user" => rate = 1
    /\ part # "maintainers" => granted = {} /\ asker = [a \in Askers |-> IdleAsker(g1)]
    /\ part # "audit" => auditPolicy = [retain |-> 0, url |-> TRUE]
    /\ part # "egress" => environment = [profile |-> "default", allow |-> {}, auditFile |-> "unset"]
    /\ ServingInit /\ LimitsInit /\ UserInit /\ MaintInit
    /\ CascadeInit /\ AuditInit /\ EgressInit

Only(p) ==
    /\ part = p /\ UNCHANGED part
    /\ p # "serving"     => UNCHANGED servingVars
    /\ p # "limits"      => UNCHANGED limitsVars
    /\ p # "user"        => UNCHANGED userVars
    /\ p # "maintainers" => UNCHANGED maintVars
    /\ p # "cascade"     => UNCHANGED cascadeVars
    /\ p # "audit"       => UNCHANGED auditVars
    /\ p # "egress"      => UNCHANGED egressVars

ServerNext ==
    \/ Only("serving") /\ ServingNext
    \/ Only("limits") /\ LimitsNext
    \/ Only("user") /\ UserNext
    \/ Only("maintainers") /\ MaintNext
    \/ Only("cascade") /\ CascadeNext
    \/ Only("audit") /\ AuditNext
    \/ Only("egress") /\ EgressNext

ServerSpec == ServerInit /\ [][ServerNext]_serverVars

=============================================================================
