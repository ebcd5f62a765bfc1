----------------------------- MODULE DriftReport -----------------------------
(***************************************************************************)
(* internal/drift: how one mirrored module compares with upstream, as the  *)
(* worker of a report finds out: it reads the mirror, looks for the latest *)
(* version it holds, asks upstream and compares. A version is the sequence *)
(* of its dot-separated segments.                                          *)
(***************************************************************************)
EXTENDS Integers, Sequences, FiniteSets, Functions

CONSTANTS
    Segments,      \* strings between the dots, the empty one among them
    SegmentLess,   \* pairs of segments in string order
    Number,        \* segment of digits only -> its value
    Versions,      \* the versions of the module, anywhere
    VersionLess,   \* pairs of versions in string order
    Listings,      \* what a metadata.json or a directory can list
    YankSets       \* what upstream can have yanked

ASSUME ReportAssumption ==
    /\ "" \in Segments
    /\ \A a, b \in Segments : a # b => (<<a, b>> \in SegmentLess <=> <<b, a>> \notin SegmentLess)
    /\ \A a \in Segments \ {""} : <<"", a>> \in SegmentLess
    /\ DOMAIN Number \subseteq Segments \ {""} /\ Number \in [DOMAIN Number -> Int]
    /\ \A v \in Versions : v \in Seq(Segments) /\ v # << >>
    /\ \A l \in Listings : l \in Seq(Versions)
    /\ YankSets \subseteq SUBSET Versions

VARIABLE report   \* pc, the two lists, the latest of each, the loop's next index, yanked, status

reportVars == <<report>>

ReportInit ==
    report = [pc |-> "read", lists |-> [local |-> << >>, upstream |-> << >>],
              latest |-> [local |-> << >>, upstream |-> << >>], next |-> 2,
              yanked |-> {}, status |-> "none"]

-----------------------------------------------------------------------------
(* Version order.                                                          *)

stringsCompare(a, b) == IF a = b THEN 0 ELSE IF <<a, b>> \in SegmentLess THEN -1 ELSE 1

\* Mutant: segments compare as strings.
cmpAsStrings(a, b) == stringsCompare(a, b)

\* versionSeg.cmp: numbers when both are, strings otherwise.
cmp(a, b) ==
    IF {a, b} \subseteq DOMAIN Number
    THEN IF Number[a] < Number[b] THEN -1 ELSE IF Number[a] > Number[b] THEN 1 ELSE 0
    ELSE stringsCompare(a, b)

\* A missing segment is the empty string.
Seg(v, i) == IF i \in DOMAIN v THEN v[i] ELSE ""

\* The first segment that differs decides.
compareVersions(a, b) ==
    LET differ == {i \in DOMAIN a \cup DOMAIN b : cmp(Seg(a, i), Seg(b, i)) # 0} IN
    IF differ = {} THEN 0
    ELSE LET i == CHOOSE i \in differ : \A j \in differ : i <= j IN cmp(Seg(a, i), Seg(b, i))

-----------------------------------------------------------------------------
(* The report of one module.                                               *)

\* pickLatest starts at the first version; the empty string without one.
First(list) == IF list = << >> THEN << >> ELSE list[1]

SortStrings(list) ==
    {[i \in DOMAIN list |-> list[p[i]]] :
        p \in {p \in Bijection(DOMAIN list, DOMAIN list) :
                 \A i, j \in DOMAIN list : i < j => <<list[p[j]], list[p[i]]>> \notin VersionLess}}

\* What metadata.json lists, or else the version directories; sorted as strings.
readMirrorModules ==
    /\ report.pc = "read"
    /\ \E listed, dirs \in Listings :
       \E local \in SortStrings(IF listed = << >> THEN dirs ELSE listed) :
          report' = [report EXCEPT !.pc = "local", !.lists.local = local,
                                   !.latest.local = First(local), !.next = 2]

\* One turn of pickLatest's loop, over either list.
pickLatest ==
    LET of == report.pc IN
    /\ of \in {"local", "upstream"} /\ report.next \in DOMAIN report.lists[of]
    /\ LET v == report.lists[of][report.next] IN
       report' = [report EXCEPT !.next = @ + 1,
                                !.latest[of] = IF compareVersions(v, @) > 0 THEN v ELSE @]

\* GetMetadata once the latest local version is known.
GetMetadata ==
    /\ report.pc = "local" /\ report.next \notin DOMAIN report.lists.local
    /\ \/ report' = [report EXCEPT !.pc = "done", !.status = "local-only"]       \* ErrNotFound
       \/ report' = [report EXCEPT !.pc = "done", !.status = "upstream-error"]
       \/ \E versions \in Listings, yanked \in YankSets :
             report' = [report EXCEPT !.pc = "upstream", !.lists.upstream = versions, !.next = 2,
                                      !.latest.upstream = First(versions), !.yanked = yanked]

Held == Range(report.lists.local)
Upstream == Range(report.lists.upstream)
MissingLocally == Upstream \ Held
YankedAtUpstream == Held \cap report.yanked
NewerUpstream == {v \in MissingLocally : compareVersions(v, report.latest.local) > 0}

compareOne ==
    /\ report.pc = "upstream" /\ report.next \notin DOMAIN report.lists.upstream
    /\ report' = [report EXCEPT !.pc = "done",
                                !.status = IF YankedAtUpstream # {} THEN "yanked-upstream"
                                           ELSE IF NewerUpstream # {} THEN "behind"
                                           ELSE "in-sync"]

ReportNext == readMirrorModules \/ pickLatest \/ GetMetadata \/ compareOne

ReportSpec == ReportInit /\ [][ReportNext]_reportVars

\* ComputeForVersion, on the same metadata: the verdict on one version's page.
ComputeForVersion(v) ==
    LET newer == {i \in DOMAIN report.lists.upstream : compareVersions(report.lists.upstream[i], v) > 0} IN
    IF report.status = "local-only" THEN [status |-> "local-only", behind |-> 0]
    ELSE IF v \in report.yanked THEN [status |-> "yanked-upstream", behind |-> 0]
    ELSE IF newer # {} THEN [status |-> "behind", behind |-> Cardinality(newer)]
    ELSE [status |-> "in-sync", behind |-> 0]

-----------------------------------------------------------------------------
(* The order the version numbers have: the first place where they differ,  *)
(* and nothing at all before any number.                                   *)
Newer(u, v) ==
    \E i \in DOMAIN u :
        /\ \A j \in 1..(i - 1) : j \in DOMAIN v /\ Number[u[j]] = Number[v[j]]
        /\ i \notin DOMAIN v \/ Number[u[i]] > Number[v[i]]
Numbered(v) == \A i \in DOMAIN v : v[i] \in DOMAIN Number

(* For numbered versions the report is exact whatever the order of the two *)
(* lists: behind means that upstream has a version newer than every one    *)
(* held and none of those was yanked; the latest it shows is one no other  *)
(* is newer than; and the page of the latest version and the module's row  *)
(* say the same. (A segment of digits and letters makes compareVersions    *)
(* cyclic: 2 < 10 < 1a < 2.)                                               *)
ReportIsExact ==
    /\ report.pc = "done" /\ report.status \in {"yanked-upstream", "behind", "in-sync"}
    /\ \A v \in Held \cup Upstream : Numbered(v)
    =>  /\ report.status = "behind" <=>
              YankedAtUpstream = {} /\ \E u \in Upstream : \A v \in Held : Newer(u, v)
        /\ \A u \in Upstream : ~Newer(u, report.latest.upstream)
        /\ Held # {} /\ report.status # "yanked-upstream" =>
              ComputeForVersion(report.latest.local).status = report.status
=============================================================================
