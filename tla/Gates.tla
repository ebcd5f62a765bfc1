------------------------------- MODULE Gates -------------------------------
(***************************************************************************)
(* Who a request comes from and what the policy lets them do: the two      *)
(* identity middlewares of internal/server, internal/auth's registry and   *)
(* internal/policy's gates and file loading. A token stands for its hash,  *)
(* a network for the peers inside it; a gate keeps its spelling in the     *)
(* file.                                                                   *)
(***************************************************************************)
EXTENDS FiniteSets, Sequences

CONSTANTS
    Tokens,       \* the bearer tokens a request can show
    Peers,        \* the addresses a request can come from
    Networks,     \* the sets of peers an operator can trust (BZLHUB_TRUSTED_PROXY_CIDR)
    Claims,       \* the groups X-Forwarded-Groups can name
    GroupGates,   \* group -> the gate "group:<name>"
    OverlayMaps,  \* the auth.actions tables of policy files: names of actions -> gates
    EntryLists    \* the token lists of identity files

Groups == DOMAIN GroupGates

\* The actions some handler asks for.
ActionNames == {"view_requests", "submit_request", "approve_request", "deny_request",
                "view_maintainers", "grant_maintainer", "use_mcp_read", "use_mcp_write"}

ASSUME GatesAssumption ==
    /\ "" \notin Tokens /\ Networks \subseteq SUBSET Peers /\ Claims \subseteq SUBSET Groups
    /\ {"approver", "engineers", "procurement"} \subseteq Groups
    /\ GroupGates["approver"] = "group:approver"
    /\ GroupGates["engineers"] = "group:engineers"
    /\ GroupGates["procurement"] = "group:procurement"
    /\ \A g, h \in Groups : GroupGates[g] = GroupGates[h] => g = h
    /\ \A g \in Groups : GroupGates[g] \notin {"any", "authenticated"}
    /\ \A l \in EntryLists : l \in Seq([token : Tokens \cup {""}, named : BOOLEAN, groups : SUBSET Groups])

KnownProfiles == {"strict", "open", "closed"}

\* internal/policy/profiles/*.yml
Profiles ==
    [strict |-> [view_requests |-> "any", submit_request |-> "authenticated",
                 approve_request |-> "group:approver", deny_request |-> "group:approver",
                 view_maintainers |-> "any", grant_maintainer |-> "group:approver",
                 use_mcp_read |-> "any", use_mcp_write |-> "group:approver"],
     open   |-> [view_requests |-> "any", submit_request |-> "any",
                 approve_request |-> "group:approver", deny_request |-> "group:approver",
                 view_maintainers |-> "any", grant_maintainer |-> "group:approver",
                 use_mcp_read |-> "any", use_mcp_write |-> "authenticated"],
     closed |-> [view_requests |-> "authenticated", submit_request |-> "group:engineers",
                 approve_request |-> "group:procurement", deny_request |-> "group:procurement",
                 view_maintainers |-> "authenticated", grant_maintainer |-> "group:procurement",
                 use_mcp_read |-> "authenticated", use_mcp_write |-> "group:procurement"]]

-----------------------------------------------------------------------------
(* Identity.                                                               *)

Anonymous == [source |-> "anonymous", groups |-> {}]
IsAuthenticated(id) == id.source # "anonymous"

(* An Authorization header is its scheme and what follows the blank after  *)
(* it: another scheme, or "Bearer" without a token, is no token.           *)
extractBearerToken(header) == IF header.scheme = "bearer" THEN header.token ELSE ""

\* A registry is the groups of each token; Lookup finds a token by its hash.
bearerAuth(registry, req) ==
    LET token == extractBearerToken(req.authorization) IN
    IF token # "" /\ token \in DOMAIN registry
    THEN [source |-> "bearer", groups |-> registry[token]]
    ELSE Anonymous      \* an unknown token falls through to the headers

\* Only a peer inside a trusted network may name the user.
sourceIPIsTrusted(req, trusted) == req.peer \in trusted

identityFromHeaders(req) ==
    IF req.named THEN [source |-> "header", groups |-> req.groups] ELSE Anonymous

\* Mutant: the forwarded headers are believed from every peer.
headerAuthAnyPeer(trusted, req, id) ==
    IF IsAuthenticated(id) \/ trusted = {} THEN id ELSE identityFromHeaders(req)

headerAuth(trusted, req, id) ==
    IF IsAuthenticated(id) \/ ~sourceIPIsTrusted(req, trusted) THEN id
    ELSE identityFromHeaders(req)

Identify(registry, trusted, req) == headerAuth(trusted, req, bearerAuth(registry, req))

(* LoadIdentityFile: all entries or none. An entry needs a well-formed     *)
(* hash (that of a token), an identity that names someone, and a hash no   *)
(* other entry has.                                                        *)
IdentityFiles ==
    [state : {"ok", "missing", "too_large", "malformed", "version"}, entries : EntryLists]

LoadIdentityFile(f) ==
    IF \/ f.state # "ok"
       \/ \E i \in DOMAIN f.entries : f.entries[i].token = "" \/ ~f.entries[i].named
       \/ \E i, j \in DOMAIN f.entries : i # j /\ f.entries[i].token = f.entries[j].token
    THEN {}
    ELSE {[t \in {f.entries[i].token : i \in DOMAIN f.entries} |->
             f.entries[CHOOSE i \in DOMAIN f.entries : f.entries[i].token = t].groups]}

-----------------------------------------------------------------------------
(* Policy.                                                                 *)

IsGroup(gate) == \E g \in Groups : gate = GroupGates[g]
GroupName(gate) == CHOOSE g \in Groups : gate = GroupGates[g]

(* Allow: no policy, an action the policy does not list, a gate it does    *)
(* not know, "group:" without a name and "maintainer" all refuse.          *)
Allow(policy, id, action) ==
    /\ policy # {}
    /\ \E actions \in policy :
          /\ action \in DOMAIN actions
          /\ LET gate == actions[action] IN
             \/ gate = "any"
             \/ gate = "authenticated" /\ IsAuthenticated(id)
             \/ IsGroup(gate) /\ IsAuthenticated(id) /\ GroupName(gate) \in id.groups

\* Profile files are embedded; only the name can be wrong.
LoadProfile(name) == IF name \in KnownProfiles THEN {Profiles[name]} ELSE {}

(* deepMergeMaps on auth.actions: a map overrides key by key (an action    *)
(* set to null gets the empty gate), null replaces the whole table, and a  *)
(* list is a value the merged document cannot be decoded with.             *)
deepMergeMaps(base, overlay) ==
    LET set == DOMAIN overlay.map IN
    CASE overlay.kind = "absent" -> {base}
      [] overlay.kind = "null"   -> {<< >>}
      [] overlay.kind = "list"   -> {}
      [] OTHER                   -> {[a \in DOMAIN base \cup set |-> IF a \in set THEN overlay.map[a] ELSE base[a]]}

Overlays ==
    [kind : {"absent", "null", "list"}, map : {<< >>}] \cup [kind : {"map"}, map : OverlayMaps]

\* The first field says what is wrong with the file before its profile is looked at.
PolicyFiles ==
    [state : {"ok"}, profile : {"", "open", "closed", "lax"}, overlay : Overlays]
        \cup [state : {"missing", "too_large", "malformed", "version"}, profile : {""},
              overlay : [kind : {"absent"}, map : {<< >>}]]

ProfileOf(f) == IF f.profile = "" THEN "strict" ELSE f.profile

\* LoadFile: {} is an error; an unknown profile is a diagnostic and strict.
LoadFile(f) ==
    IF f.state # "ok" THEN {}
    ELSE LET named == LoadProfile(ProfileOf(f))
             baseline == IF named = {} THEN LoadProfile("strict") ELSE named
         IN UNION {deepMergeMaps(b, f.overlay) : b \in baseline}
=============================================================================
