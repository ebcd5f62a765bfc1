----------------------------- MODULE GitHubMeta -----------------------------
(***************************************************************************)
(* Repository facts of one module, cached in module_github_meta. Every     *)
(* Bump starts a RefreshGitHubMeta in the background, so refreshes of one  *)
(* module overlap; each reads the row, fetches conditionally and writes.   *)
(* What GitHub has is a number of edits; 0 stands for no facts.            *)
(***************************************************************************)
EXTENDS Naturals, FiniteSets

CONSTANTS Refreshers,   \* background refreshes
          MaxFacts      \* bound: edits at GitHub

ASSUME GitHubMetaAssumption == IsFiniteSet(Refreshers) /\ MaxFacts \in Nat \ {0}

VARIABLES
    facts,     \* GitHub's current edit; its ETag is the edit
    visible,   \* does the repository answer, or 404?
    metaRow,   \* the row: meta (the edit in meta_json, its ETag too) and http_status, 0 for no row
    refresher, \* refresh -> pc, the row it read (prior), the answer it got
    crossed    \* history: the row had changed between the last writer's read and its write

metaVars == <<facts, visible, metaRow, refresher, crossed>>

NoRow == [meta |-> 0, status |-> 0]
NoRefresh == [pc |-> "idle", prior |-> NoRow, meta |-> 0, status |-> 0]

MetaInit ==
    /\ facts = 1 /\ visible \in BOOLEAN
    /\ metaRow = NoRow
    /\ refresher = [r \in Refreshers |-> NoRefresh]
    /\ crossed = FALSE

-----------------------------------------------------------------------------
RepoChanges ==
    /\ \/ facts < MaxFacts /\ facts' = facts + 1 /\ UNCHANGED visible
       \/ visible' = ~visible /\ UNCHANGED facts
    /\ UNCHANGED <<metaRow, refresher, crossed>>

\* RefreshGitHubMeta reads the prior row (a failed read counts as none).
ReadPrior(r) ==
    /\ refresher[r].pc = "idle"
    /\ \E read \in BOOLEAN :
          refresher' = [refresher EXCEPT ![r] = [NoRefresh EXCEPT !.pc = "fetch",
                                                  !.prior = IF read THEN metaRow ELSE NoRow]]
    /\ UNCHANGED <<facts, visible, metaRow, crossed>>

\* Mutant: a rate-limited answer is recorded as "not modified".
AnswersLimitedAs304(prior) ==
    {[meta |-> prior.meta, status |-> 304]}
        \cup (IF ~visible THEN {[meta |-> 0, status |-> 404]} ELSE {[meta |-> facts, status |-> 200]})

(* Fetch: conditional on the prior ETag, which only a row with facts has.  *)
(* The languages are a second call whose failure is not one.               *)
Answers(prior) ==
    {[meta |-> prior.meta, status |-> 429]}
        \cup (IF ~visible THEN {[meta |-> 0, status |-> 404]}
              ELSE IF prior.meta = facts THEN {[meta |-> prior.meta, status |-> 304]}
              ELSE {[meta |-> facts, status |-> 200]})

\* Any other failure ends the refresh and leaves the row.
FetchMeta(r) ==
    /\ refresher[r].pc = "fetch"
    /\ \/ \E a \in Answers(refresher[r].prior) :
             refresher' = [refresher EXCEPT ![r].pc = "upsert", ![r].meta = a.meta,
                                            ![r].status = a.status]
       \/ refresher' = [refresher EXCEPT ![r] = NoRefresh]
    /\ UNCHANGED <<facts, visible, metaRow, crossed>>

\* A 304 updates the status of the row that is there and leaves its meta_json.
UpsertGitHubMeta(old, meta, status) ==
    IF status = 304 /\ old # NoRow THEN [old EXCEPT !.status = 304]
    ELSE [meta |-> meta, status |-> status]

WriteMeta(r) ==
    /\ refresher[r].pc = "upsert"
    /\ metaRow' = UpsertGitHubMeta(metaRow, refresher[r].meta, refresher[r].status)
    /\ crossed' = (metaRow # refresher[r].prior)
    /\ refresher' = [refresher EXCEPT ![r] = NoRefresh]
    /\ UNCHANGED <<facts, visible>>

MetaNext ==
    \/ RepoChanges
    \/ \E r \in Refreshers : ReadPrior(r) \/ FetchMeta(r) \/ WriteMeta(r)

MetaSpec == MetaInit /\ [][MetaNext]_metaVars

\* Service.GetGitHubMeta: a row whose last answer was 404 or 429 is not shown.
GetGitHubMeta == IF metaRow.status \in {200, 304} THEN {metaRow.meta} ELSE {}

(* The page never shows a repository without facts as if GitHub had said   *)
(* so: an empty record is shown only after two refreshes crossed, the one  *)
(* marking as still valid (304) a row the other had just emptied.          *)
ShownMetaHasFacts == 0 \in GetGitHubMeta => crossed
=============================================================================
