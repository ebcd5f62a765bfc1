------------------------------ MODULE Serving ------------------------------
(***************************************************************************)
(* bzlhub serve: the boot sequence of cmd/bzlhub/serve.go, stage by stage  *)
(* with its refusals, and what the routes of internal/server then do for   *)
(* one request at a time. The environment, the files and the requests are  *)
(* chosen where they are read.                                             *)
(***************************************************************************)
EXTENDS Gates

VARIABLES
    stage,    \* the boot stage, "serving" or "refused"
    wiring    \* what boot has put together; an unset value is {} or "none"

servingVars == <<stage, wiring>>

Bare == [backend |-> "none", cascade |-> "none", db |-> FALSE, promote |-> FALSE,
         ingestWrite |-> FALSE, frontProxy |-> TRUE, mcpHTTP |-> FALSE, mcpWrite |-> FALSE,
         trusted |-> {}, identityFile |-> {}, identity |-> {}, policyFile |-> {},
         policy |-> {}, publisher |-> "none"]

ServingInit == stage = "backend" /\ wiring = Bare

-----------------------------------------------------------------------------
(* The primary substrate.                                                  *)

StoreConfigs ==
    [kind : {"httpstore", "artifactory", "other"}, url : BOOLEAN, repo : BOOLEAN,
     auth : {"anonymous", "bearer", "basic", "artifactory-api-key", "other"}, user : BOOLEAN,
     secret : {"unset", "unreadable", "blank", "ok"}]

BuildLayout(c) == c.kind = "httpstore" \/ (c.kind = "artifactory" /\ c.repo)

BuildAuth(c) ==
    \/ c.auth = "anonymous"
    \/ /\ c.auth \in {"bearer", "basic", "artifactory-api-key"}
       /\ c.auth = "basic" => c.user
       /\ c.secret = "ok"

BuildHTTPStore(c) == c.url /\ BuildLayout(c) /\ BuildAuth(c)

\* A root with a .git is opened as a mirror clone, which can fail; an absent root refuses.
NewFromRoot(root) ==
    CASE root = "dir" -> {"file"} [] root = "git" -> {"mirror", "none"} [] OTHER -> {"none"}

Proceed(next, w) == stage' = next /\ wiring' = w
Refuse == stage' = "refused" /\ UNCHANGED wiring

\* Chooses --root, BZLHUB_BACKEND_KIND and --db; db is opened later.
BuildBackend ==
    /\ stage = "backend"
    /\ \E root \in {"", "dir", "git", "absent"}, db \in BOOLEAN,
          store \in {<< >>} \cup {<<c>> : c \in StoreConfigs} :
       \/ /\ \/ root = "" /\ store = << >> /\ ~db
             \/ root # "" /\ store # << >>
             \/ root = "" /\ store # << >> /\ ~BuildHTTPStore(store[1])
             \/ root # "" /\ store = << >> /\ "none" \in NewFromRoot(root)
          /\ Refuse
       \/ /\ root = "" /\ store = << >> /\ db
          /\ Proceed("federate", [wiring EXCEPT !.db = db])
       \/ /\ root = "" /\ store # << >> /\ BuildHTTPStore(store[1])
          /\ Proceed("federate", [wiring EXCEPT !.backend = "httpstore", !.db = db])
       \/ /\ root # "" /\ store = << >>
          /\ \E b \in NewFromRoot(root) \ {"none"} :
                Proceed("federate", [wiring EXCEPT !.backend = b, !.db = db])

-----------------------------------------------------------------------------
(* Federation. A probe at boot: an unreachable or failing upstream starts  *)
(* degraded, one that answers anything else is refused.                    *)

Probes == {"200", "5xx", "error", "other", "bad_url"}
IsProbeTransient(p) == p \in {"5xx", "error"}
Reachable(p) == IF p = "200" THEN "up" ELSE "down"

Federate ==
    /\ stage = "federate"
    /\ \/ Proceed("open", wiring)                        \* no upstreams
       \/ wiring.backend = "none" /\ Refuse
       \/ /\ wiring.backend # "none"
          /\ \E p \in Probes :
                IF p = "200" \/ IsProbeTransient(p)
                THEN Proceed("open", [wiring EXCEPT !.cascade = Reachable(p)])
                ELSE Refuse

\* The database, and the promote hook, which needs the service and a cascade.
OpenStore ==
    /\ stage = "open"
    /\ \/ wiring.db /\ Refuse
       \/ \E promote \in BOOLEAN :
             Proceed("flags", [wiring EXCEPT !.promote = promote /\ wiring.db /\ wiring.cascade # "none"])

(* featureflags.Parse fails as a whole when one value does not parse; it   *)
(* runs before the trusted networks are read and CheckSafeStartup.         *)
\* Mutant: the opt-out is read the wrong way round.
CheckSafeStartupInverted(w) == w.frontProxy \/ ~w.ingestWrite \/ w.trusted # {}

CheckSafeStartup(w) == ~w.frontProxy \/ ~w.ingestWrite \/ w.trusted # {}

FlagSets ==
    [ingestWrite : BOOLEAN, frontProxy : BOOLEAN, mcpHTTP : BOOLEAN, mcpWrite : BOOLEAN]
Flagged(flags, trusted) ==
    [wiring EXCEPT !.ingestWrite = flags.ingestWrite, !.frontProxy = flags.frontProxy,
                   !.mcpHTTP = flags.mcpHTTP, !.mcpWrite = flags.mcpWrite, !.trusted = trusted]

ParseFlags ==
    /\ stage = "flags"
    /\ \/ Refuse                             \* a bad flag, or a bad trusted network
       \/ \E flags \in FlagSets, trusted \in Networks :
             IF CheckSafeStartup(Flagged(flags, trusted)) THEN Proceed("files", Flagged(flags, trusted))
             ELSE Refuse

CheckMCPWriteStartup(w) ==
    w.mcpWrite => w.mcpHTTP /\ (w.identity # {} \/ w.trusted # {}) /\ w.policy # {}

\* The identity and the policy file: unset, or loaded, or the boot is refused.
LoadFiles ==
    /\ stage = "files"
    /\ \E i \in {{}} \cup {{f} : f \in IdentityFiles}, p \in {{}} \cup {{f} : f \in PolicyFiles} :
          LET identity == UNION {LoadIdentityFile(f) : f \in i}
              policy == UNION {LoadFile(f) : f \in p}
              w == [wiring EXCEPT !.identityFile = i, !.identity = identity,
                                  !.policyFile = p, !.policy = policy]
          IN IF (i # {} /\ identity = {}) \/ (p # {} /\ policy = {}) \/ ~CheckMCPWriteStartup(w)
             THEN Refuse
             ELSE Proceed("daemons", w)

(* buildAdmitPublisher: BZLHUB_REGISTRY_WORKTREE must be a git working     *)
(* tree; without it the root is used, with or without git, or no publisher *)
(* at all. It is built only with a database and a policy.                  *)
BuildAdmitPublisher(w, worktree) ==
    CASE worktree = "git"   -> {"git-direct"}
      [] worktree = "plain" -> {}
      [] OTHER -> {CASE w.backend = "mirror" -> "git-direct"
                     [] w.backend = "file" -> "filesystem"
                     [] OTHER -> "none"}

StartDaemons ==
    /\ stage = "daemons"
    /\ \/ (~wiring.db \/ wiring.policy = {}) /\ Proceed("serving", wiring)
       \/ /\ wiring.db /\ wiring.policy # {}
          /\ \E worktree \in {"", "git", "plain"} :
                LET pub == BuildAdmitPublisher(wiring, worktree) IN
                IF pub = {} THEN Refuse
                ELSE \E b \in pub : Proceed("serving", [wiring EXCEPT !.publisher = b])

-----------------------------------------------------------------------------
(* While serving.                                                          *)

\* The probe loop only remembers what it saw; it never stops the process.
RunProbeLoop ==
    /\ stage = "serving" /\ wiring.cascade # "none"
    /\ \E p \in Probes : Proceed(stage, [wiring EXCEPT !.cascade = Reachable(p)])

\* SIGHUP: a file that does not load leaves what is there.
ReloadIdentity ==
    /\ stage = "serving" /\ wiring.identity # {}
    /\ \E f \in IdentityFiles :
          /\ LoadIdentityFile(f) # {}
          /\ Proceed(stage, [wiring EXCEPT !.identity = LoadIdentityFile(f), !.identityFile = {f}])

ReloadPolicy ==
    /\ stage = "serving" /\ wiring.policyFile # {}
    /\ \E f \in PolicyFiles :
          /\ LoadFile(f) # {}
          /\ Proceed(stage, [wiring EXCEPT !.policy = LoadFile(f), !.policyFile = {f}])

Callers ==
    [authorization : [scheme : {"bearer", "other"}, token : Tokens \cup {""}],
     peer : Peers, named : BOOLEAN, groups : Claims]

\* The procurement and maintainer routes ask for the action they are named after.
PolicyRoutes == {"submit_request", "approve_request", "deny_request", "view_requests",
                 "view_maintainers", "grant_maintainer"}
Routes == {"bcr", "api", "ingest", "use_mcp_read", "use_mcp_write"} \cup PolicyRoutes

\* Every module, ingest and procurement route is registered only with a service.
Registered(w, route) ==
    CASE route = "bcr" -> w.backend # "none"
      [] route \in {"api", "ingest"} \cup PolicyRoutes -> w.db
      [] route \in {"use_mcp_read", "use_mcp_write"} -> w.db /\ w.mcpHTTP

(* The gate each handler asks. The policy getter is never nil, so without  *)
(* a policy file the procurement routes are there and refuse everyone.     *)
Passes(w, route, id) ==
    CASE route = "ingest" -> w.ingestWrite
      [] route \in PolicyRoutes \cup {"use_mcp_read"} -> Allow(w.policy, id, route)
      [] route = "use_mcp_write" ->
            Allow(w.policy, id, "use_mcp_read") /\ w.mcpWrite /\ Allow(w.policy, id, route)
      [] OTHER -> TRUE

\* What a request that passes may change: a read of a cascade may promote.
Writes(w, route) ==
    CASE route \in {"ingest", "submit_request", "approve_request", "deny_request",
                    "grant_maintainer", "use_mcp_write"} -> {TRUE}
      [] route = "bcr" -> {FALSE, w.promote}
      [] OTHER -> {FALSE}

\* An empty or absent registry leaves the token unread.
Caller(w, req) ==
    Identify(IF w.identity = {} THEN << >> ELSE CHOOSE r \in w.identity : TRUE, w.trusted, req)

\* May this request change the index, the mirror or a request row?
Changes(w, route, req) ==
    Registered(w, route) /\ Passes(w, route, Caller(w, req)) /\ TRUE \in Writes(w, route)

ServingNext ==
    \/ BuildBackend \/ Federate \/ OpenStore \/ ParseFlags \/ LoadFiles \/ StartDaemons
    \/ RunProbeLoop \/ ReloadIdentity \/ ReloadPolicy

ServingSpec == ServingInit /\ [][ServingNext]_servingVars

-----------------------------------------------------------------------------
(* What the operator's files and the request really say: the gate the file *)
(* in force gives the action, and whether the caller has earned it.        *)
Meant(f, action) ==
    IF f.overlay.kind = "null" THEN "deny"
    ELSE IF action \in DOMAIN f.overlay.map THEN f.overlay.map[action]
    ELSE Profiles[IF f.profile \in KnownProfiles THEN f.profile ELSE "strict"][action]

Vouched(w, req, groups) ==
    \/ /\ req.authorization.scheme = "bearer"
       /\ \E f \in w.identityFile : \E i \in DOMAIN f.entries :
             /\ f.entries[i].token = req.authorization.token /\ f.entries[i].named
             /\ groups \subseteq f.entries[i].groups
    \/ req.peer \in w.trusted /\ req.named /\ groups \subseteq req.groups

Earned(w, req, action) ==
    \E f \in w.policyFile :
       LET gate == Meant(f, action) IN
       \/ gate = "any"
       \/ gate = "authenticated" /\ Vouched(w, req, {})
       \/ \E g \in Groups : gate = GroupGates[g] /\ Vouched(w, req, {g})

(* Nothing a running server was given or reloaded lets a caller through a  *)
(* gate that the policy file in force does not open to the groups their    *)
(* token or a trusted proxy vouches for (bearerAuth, headerAuth, LoadFile, *)
(* deepMergeMaps, Allow).                                                  *)
GatesAreEarned ==
    stage = "serving" =>
        \A action \in ActionNames, req \in Callers :
           Allow(wiring.policy, Caller(wiring, req), action) => Earned(wiring, req, action)

(* No started configuration changes anything for a caller nobody let in:   *)
(* direct ingest needs the opt-in and a front proxy or its waiver, an MCP  *)
(* write the flag, an identity source and the policy, and a plain read     *)
(* writes only where promote-on-serve was asked for.                       *)
WritesAreGated ==
    stage = "serving" =>
        \A route \in Routes, req \in Callers :
           Changes(wiring, route, req) =>
              \/ route = "bcr" /\ wiring.promote /\ wiring.cascade # "none"
              \/ route = "ingest" /\ wiring.ingestWrite /\ (wiring.trusted # {} \/ ~wiring.frontProxy)
              \/ /\ route \in ActionNames /\ Earned(wiring, req, route)
                 /\ route = "use_mcp_write" =>
                       /\ wiring.mcpWrite /\ Earned(wiring, req, "use_mcp_read")
                       /\ wiring.identity # {} \/ wiring.trusted # {}
=============================================================================
