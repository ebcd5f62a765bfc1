----------------------------- MODULE DriftSync ------------------------------
(***************************************************************************)
(* The registry mirror and the drift column of the index: `bzlhub sync     *)
(* bootstrap' and `sync run' move the mirror and recompute every row,      *)
(* `drift refresh' recomputes them, and a booting server fills the unknown *)
(* ones (BackfillDriftSummary); all of them on one mirror and one          *)
(* database. Upstream is a sequence of revisions 1, 2, ...; a verdict is   *)
(* known by the revision whose metadata it was computed from (0: unknown). *)
(***************************************************************************)
EXTENDS Integers, FiniteSets

CONSTANTS Rows,         \* (module, version) rows of the index
          ModuleOf,     \* row -> module
          MaxRevision,  \* bound: upstream revisions
          MaxStarts     \* bound: writer -> times it is started

ASSUME DriftAssumption ==
    /\ IsFiniteSet(Rows) /\ MaxRevision \in Nat \ {0}
    /\ DOMAIN ModuleOf = Rows
    /\ MaxStarts \in [{"sync", "refresh", "backfill"} -> Nat]

Modules == {ModuleOf[r] : r \in Rows}
Writers == {"sync", "refresh", "backfill"}
NotSeen == -1
Failed == -2

VARIABLES
    upstreamRev,   \* newest upstream revision
    mirrorHead,    \* HEAD of the mirror, 0 without a clone
    rows,          \* row -> not yet ingested, or its drift summary: sha (the label), rev
    writer,        \* writer -> pc, sha read at the start, rows left, row in hand, upstreamCache
    starts,
    syncAudit,     \* kind of the newest sync audit event
    refreshed,     \* history: revision a sync run reported refreshed without an error
    lapsed         \* history: rows a refresh passed over or a slower writer overwrote

driftVars == <<upstreamRev, mirrorHead, rows, writer, starts, syncAudit, refreshed, lapsed>>

Absent == [sha |-> -1, rev |-> -1]
Unknown == [sha |-> 0, rev |-> 0]
IdleWriter == [pc |-> "idle", sha |-> 0, to |-> 0, left |-> {}, row |-> "none",
               seen |-> [m \in Modules |-> NotSeen], ok |-> TRUE]

DriftInit ==
    /\ upstreamRev = 1 /\ mirrorHead = 0
    /\ rows \in [Rows -> {Absent, Unknown}]
    /\ writer = [w \in Writers |-> IdleWriter]
    /\ starts = [w \in Writers |-> 0]
    /\ syncAudit = "none" /\ refreshed = 0 /\ lapsed = {}

-----------------------------------------------------------------------------
UpstreamCommit ==
    /\ upstreamRev < MaxRevision
    /\ upstreamRev' = upstreamRev + 1
    /\ UNCHANGED <<mirrorHead, rows, writer, starts, syncAudit, refreshed, lapsed>>

\* An ingest adds a row with the column's default.
AddRow(r) ==
    /\ rows[r] = Absent
    /\ rows' = [rows EXCEPT ![r] = Unknown]
    /\ lapsed' = lapsed \cup {r}
    /\ UNCHANGED <<upstreamRev, mirrorHead, writer, starts, syncAudit, refreshed>>

(* SyncBootstrap: an existing clone is refused unless reinit, which wipes  *)
(* it first; a failed clone leaves none.                                   *)
Bootstrap ==
    /\ starts["sync"] < MaxStarts["sync"] /\ writer["sync"].pc = "idle"
    /\ starts' = [starts EXCEPT !["sync"] = @ + 1]
    /\ \/ mirrorHead' = upstreamRev /\ syncAudit' = "sync_bootstrap_success"
       \/ mirrorHead' = 0 /\ syncAudit' = "sync_bootstrap_failure"
    /\ UNCHANGED <<upstreamRev, rows, writer, refreshed, lapsed>>

\* SyncRun, up to the refresh: every outcome but a cancellation is audited, and
\* a mirror that is up to date is not refreshed.
SyncMirror ==
    /\ writer["sync"].pc = "idle" /\ mirrorHead > 0 /\ starts["sync"] < MaxStarts["sync"]
    /\ starts' = [starts EXCEPT !["sync"] = @ + 1]
    /\ \/ /\ syncAudit' = "sync_run_failure"
          /\ UNCHANGED <<mirrorHead, writer>>
       \/ /\ mirrorHead = upstreamRev /\ syncAudit' = "sync_run_uptodate"
          /\ UNCHANGED <<mirrorHead, writer>>
       \/ /\ mirrorHead # upstreamRev /\ mirrorHead' = upstreamRev
          /\ \/ /\ writer' = [writer EXCEPT !["sync"] = [IdleWriter EXCEPT !.pc = "snapshot",
                                                                            !.to = upstreamRev]]
                /\ UNCHANGED syncAudit
             \/ syncAudit' = "sync_run_success" /\ UNCHANGED writer   \* --no-refresh
    /\ UNCHANGED <<upstreamRev, rows, refreshed, lapsed>>

\* `drift refresh', or the backfill of a booting server.
StartWriter(w) ==
    /\ w # "sync" /\ writer[w].pc = "idle" /\ mirrorHead > 0 /\ starts[w] < MaxStarts[w]
    /\ starts' = [starts EXCEPT ![w] = @ + 1]
    /\ writer' = [writer EXCEPT ![w].pc = "snapshot"]
    /\ UNCHANGED <<upstreamRev, mirrorHead, rows, syncAudit, refreshed, lapsed>>

\* Mutant: the refresh skips populated rows, as the backfill does.
RowsUnknown(w) == {r \in Rows : rows[r] = Unknown}

\* AllVersionsWithDrift; the backfill leaves populated rows alone.
RowsOf(w) ==
    {r \in Rows : rows[r] # Absent /\ (w = "backfill" => rows[r] = Unknown)}

\* SnapshotSHA is read first, then the rows are listed.
Snapshot(w) ==
    /\ writer[w].pc = "snapshot"
    /\ writer' = [writer EXCEPT ![w].pc = "next", ![w].sha = mirrorHead, ![w].left = RowsOf(w)]
    /\ UNCHANGED <<upstreamRev, mirrorHead, rows, starts, syncAudit, refreshed, lapsed>>

\* upstreamCache.lookup: the metadata of a module at HEAD, or an error, is kept.
Look(w, m) ==
    IF writer[w].seen[m] # NotSeen THEN {writer[w].seen[m]}
    ELSE {Failed} \cup (IF mirrorHead > 0 THEN {mirrorHead} ELSE {})

PassOver(w, r) == lapsed' = IF w = "sync" THEN lapsed \cup {r} ELSE lapsed

\* The row in hand, its module's metadata or error kept.
InHand(w, r, got) ==
    [writer[w] EXCEPT !.left = @ \ {r}, !.row = r, !.seen = [@ EXCEPT ![ModuleOf[r]] = got],
                      !.pc = IF got = Failed THEN "next" ELSE "write"]

\* The next row: a failed lookup passes it over.
NextRow(w) ==
    /\ writer[w].pc = "next"
    /\ \E r \in writer[w].left : \E got \in Look(w, ModuleOf[r]) :
          /\ writer' = [writer EXCEPT ![w] = InHand(w, r, got)]
          /\ IF got = Failed THEN PassOver(w, r) ELSE UNCHANGED lapsed
    /\ UNCHANGED <<upstreamRev, mirrorHead, rows, starts, syncAudit, refreshed>>

\* SetDriftSummary; a failed write passes the row over.
WriteRow(w) ==
    LET r == writer[w].row
        rev == writer[w].seen[ModuleOf[r]]
    IN  /\ writer[w].pc = "write"
        /\ writer' = [writer EXCEPT ![w].pc = "next"]
        /\ \/ /\ rows' = [rows EXCEPT ![r] = [sha |-> writer[w].sha, rev |-> rev]]
              /\ lapsed' = IF rev < rows[r].rev THEN lapsed \cup {r}
                           ELSE IF w = "sync" THEN lapsed \ {r} ELSE lapsed
           \/ PassOver(w, r) /\ UNCHANGED rows
        /\ UNCHANGED <<upstreamRev, mirrorHead, starts, syncAudit, refreshed>>

\* The listing fails under the loop: the rest is left as it is.
ListBreaks(w) ==
    /\ writer[w].pc = "next" /\ writer[w].left # {}
    /\ writer' = [writer EXCEPT ![w].left = {}, ![w].ok = FALSE]
    /\ UNCHANGED <<upstreamRev, mirrorHead, rows, starts, syncAudit, refreshed, lapsed>>

\* The sync run reports success; a refresh that failed is only noted in it.
FinishWriter(w) ==
    /\ writer[w].pc = "next" /\ writer[w].left = {}
    /\ writer' = [writer EXCEPT ![w] = IdleWriter]
    /\ syncAudit' = IF w = "sync" THEN "sync_run_success" ELSE syncAudit
    /\ refreshed' = IF w = "sync" /\ writer[w].ok THEN writer[w].to ELSE refreshed
    /\ UNCHANGED <<upstreamRev, mirrorHead, rows, starts, lapsed>>

DriftNext ==
    \/ UpstreamCommit \/ Bootstrap \/ SyncMirror
    \/ \E r \in Rows : AddRow(r)
    \/ \E w \in Writers : \/ StartWriter(w) \/ Snapshot(w) \/ NextRow(w) \/ WriteRow(w)
                          \/ ListBreaks(w) \/ FinishWriter(w)

DriftSpec == DriftInit /\ [][DriftNext]_driftVars

-----------------------------------------------------------------------------
(* The label of a verdict never claims a newer upstream than the one it    *)
(* was computed from, though the mirror moves under a refresh; and once a  *)
(* sync run has reported its refresh, every row is at its revision unless  *)
(* its own lookup or write failed, it was ingested meanwhile, or a slower  *)
(* writer wrote it after the refresh.                                      *)
DriftRowsHonest ==
    \A r \in Rows :
        /\ rows[r].sha <= rows[r].rev
        /\ r \notin lapsed => rows[r] = Absent \/ rows[r].rev >= refreshed
=============================================================================
