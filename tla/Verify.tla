------------------------------- MODULE Verify -------------------------------
(***************************************************************************)
(* bzlhub verify (internal/verify) over a mirror that an ingest may be     *)
(* writing and that disks and operators damage. The scan takes its         *)
(* snapshot version by version, lists the blobs, reads the index and only  *)
(* then hashes; every check works on that snapshot.                        *)
(***************************************************************************)
EXTENDS FiniteSets

CONSTANT Mirrored   \* versions that may be in the mirror, each with a blob of its own

ASSUME VerifyAssumption == IsFiniteSet(Mirrored)

VARIABLES
    srcFile,   \* version -> its source.json
    modFile,   \* version -> its MODULE.bazel
    blobFile,  \* version -> the file its integrity names
    indexRow,  \* version -> "none", "row", "scip" (a row with a SCIP blob)
    ingester,  \* the ingest at work: pc and version; history: what its Close found under
               \* the name of its blob (found) and left there (left)
    scan,      \* the verify run: pc, what is left, the snapshot, the hashes
    harmed,    \* history: versions damaged since they were last written whole
    everHarmed \* history: versions ever damaged; bound: once each

verifyVars == <<srcFile, modFile, blobFile, indexRow, ingester, scan, harmed, everHarmed>>

SourceFaults == {"unparsable", "type", "no_url", "no_integrity", "other_algo", "malformed"}
NoScan == [pc |-> "idle", left |-> {}, source |-> [c \in {} |-> ""], module |-> [c \in {} |-> ""],
           blobs |-> {}, index |-> [c \in {} |-> ""], hashed |-> [c \in {} |-> ""], db |-> TRUE,
           deep |-> FALSE, harmed |-> {}]

Resting == [pc |-> "idle", c |-> "none", found |-> "none", left |-> "none"]

VerifyInit ==
    /\ srcFile = [c \in Mirrored |-> "absent"] /\ modFile = srcFile /\ blobFile = srcFile
    /\ indexRow = [c \in Mirrored |-> "none"]
    /\ ingester = Resting
    /\ scan = NoScan
    /\ harmed = {} /\ everHarmed = {}

-----------------------------------------------------------------------------
(* The mirror writer: blob, source.json, MODULE.bazel, then the index. A   *)
(* crash leaves what was written.                                          *)

\* History: a version whose three files are good again is harmed no more.
Mended == harmed' = {c \in harmed : {srcFile'[c], modFile'[c], blobFile'[c]} # {"ok"}}

StartIngest(c) ==
    /\ ingester.pc = "idle" /\ ingester' = [Resting EXCEPT !.pc = "blob", !.c = c]
    /\ UNCHANGED <<srcFile, modFile, blobFile, indexRow, scan, harmed, everHarmed>>

\* Close keeps a file that is already there under the digest's name, whatever it holds.
CloseBlob ==
    /\ ingester.pc = "blob"
    /\ LET found == blobFile[ingester.c]
           left  == IF found = "absent" THEN "ok" ELSE found
       IN  /\ blobFile' = [blobFile EXCEPT ![ingester.c] = left]
           /\ ingester' = [ingester EXCEPT !.pc = "source", !.found = found, !.left = left]
    /\ UNCHANGED <<srcFile, modFile, indexRow, scan, everHarmed>> /\ Mended

WriteSourceFile ==
    /\ ingester.pc = "source" /\ ingester' = [ingester EXCEPT !.pc = "module"]
    /\ srcFile' = [srcFile EXCEPT ![ingester.c] = "ok"]
    /\ UNCHANGED <<modFile, blobFile, indexRow, scan, everHarmed>> /\ Mended

\* The versions here have a MODULE.bazel that is not empty: Bump writes no empty one.
WriteModuleFile ==
    /\ ingester.pc = "module" /\ ingester' = [ingester EXCEPT !.pc = "index"]
    /\ modFile' = [modFile EXCEPT ![ingester.c] = "ok"]
    /\ UNCHANGED <<srcFile, blobFile, indexRow, scan, everHarmed>> /\ Mended

\* SCIP generation is best effort.
WriteIndex ==
    /\ ingester.pc = "index" /\ ingester' = Resting
    /\ \E row \in {"row", "scip"} : indexRow' = [indexRow EXCEPT ![ingester.c] = row]
    /\ UNCHANGED <<srcFile, modFile, blobFile, scan, harmed, everHarmed>>

IngestDies ==
    /\ ingester.pc \in {"source", "module", "index"}
    /\ ingester' = Resting
    /\ UNCHANGED <<srcFile, modFile, blobFile, indexRow, scan, harmed, everHarmed>>

\* Damage to a version that was written whole.
Harm(c) ==
    /\ c \notin everHarmed /\ modFile[c] = "ok" /\ srcFile[c] = "ok"
    /\ \/ /\ \E f \in SourceFaults \cup {"absent"} : srcFile' = [srcFile EXCEPT ![c] = f]
          /\ UNCHANGED <<modFile, blobFile>>
       \/ /\ \E f \in {"absent", "bad"} : modFile' = [modFile EXCEPT ![c] = f]
          /\ UNCHANGED <<srcFile, blobFile>>
       \/ /\ \E f \in {"absent", "corrupt"} : blobFile' = [blobFile EXCEPT ![c] = f]
          /\ UNCHANGED <<srcFile, modFile>>
    /\ harmed' = harmed \cup {c} /\ everHarmed' = everHarmed \cup {c}
    /\ UNCHANGED <<indexRow, ingester, scan>>

-----------------------------------------------------------------------------
(* Taking the snapshot.                                                    *)

\* Verify: the database is optional, and so is the deep check.
StartScan ==
    /\ scan.pc = "idle"
    /\ \E db, deep \in BOOLEAN :
          scan' = [NoScan EXCEPT !.pc = "walk", !.left = Mirrored, !.db = db, !.deep = deep,
                                 !.harmed = harmed]
    /\ UNCHANGED <<srcFile, modFile, blobFile, indexRow, ingester, harmed, everHarmed>>

DirExists(c) == {srcFile[c], modFile[c]} # {"absent"}

Learn(f, c, value) == [d \in DOMAIN f \cup {c} |-> IF d = c THEN value ELSE f[d]]

\* walkModules and loadModuleState: a version is a directory; its two files are read.
WalkVersion(c) ==
    /\ scan.pc = "walk" /\ c \in scan.left
    /\ scan' = LET rest == [scan EXCEPT !.left = @ \ {c}] IN
               IF DirExists(c)
               THEN [rest EXCEPT !.source = Learn(@, c, srcFile[c]), !.module = Learn(@, c, modFile[c])]
               ELSE rest
    /\ UNCHANGED <<srcFile, modFile, blobFile, indexRow, ingester, harmed, everHarmed>>

ListBlobs ==
    /\ scan.pc = "walk" /\ scan.left = {}
    /\ scan' = [scan EXCEPT !.pc = "index", !.blobs = {c \in Mirrored : blobFile[c] # "absent"}]
    /\ UNCHANGED <<srcFile, modFile, blobFile, indexRow, ingester, harmed, everHarmed>>

\* The versions and the SCIP rows; without a database both stay empty.
LoadIndex ==
    /\ scan.pc = "index"
    /\ scan' = [scan EXCEPT !.pc = "hash", !.left = DOMAIN scan.source,
                            !.index = IF scan.db THEN indexRow ELSE @]
    /\ UNCHANGED <<srcFile, modFile, blobFile, indexRow, ingester, harmed, everHarmed>>

(* sriToHex: only a well-formed sha256 integrity names a blob; checking    *)
(* the type and the url does not stop it.                                  *)
ExpectsBlob(source) == source \in {"ok", "type", "no_url"}

\* checkBlobIntegrity: hashFile reads the file now; a blob the snapshot lacks is not read.
HashBlob(c) ==
    /\ scan.pc = "hash" /\ c \in scan.left
    /\ scan' = LET rest == [scan EXCEPT !.left = @ \ {c}] IN
               IF ExpectsBlob(scan.source[c]) /\ c \in scan.blobs
               THEN [rest EXCEPT !.hashed = Learn(@, c, blobFile[c])]
               ELSE rest
    /\ UNCHANGED <<srcFile, modFile, blobFile, indexRow, ingester, harmed, everHarmed>>

FinishScan ==
    /\ scan.pc = "hash" /\ scan.left = {}
    /\ scan' = [scan EXCEPT !.pc = "done"]
    /\ UNCHANGED <<srcFile, modFile, blobFile, indexRow, ingester, harmed, everHarmed>>

-----------------------------------------------------------------------------
(* The checks, on the snapshot.                                            *)

Walked == DOMAIN scan.source
Indexed == {c \in DOMAIN scan.index : scan.index[c] # "none"}

\* Mutant: a blob that is not on disk is left to the orphan check.
BlobIntegrityPresentOnly ==
    {[kind |-> "blob_integrity", severity |-> "error", c |-> c] :
        c \in {d \in DOMAIN scan.hashed : scan.hashed[d] # "ok"}}

BlobIntegrity ==
    {[kind |-> "blob_missing", severity |-> "error", c |-> c] :
        c \in {d \in Walked : ExpectsBlob(scan.source[d]) /\ d \notin scan.blobs}}
    \cup {[kind |-> "blob_integrity", severity |-> "error", c |-> c] :
        c \in {d \in DOMAIN scan.hashed : scan.hashed[d] # "ok"}}

SourceJSONSchema ==
    {[kind |-> "source_json_schema", severity |-> "error", c |-> c] :
        c \in {d \in Walked : scan.source[d] # "ok"}}

ModuleBazelPresent ==
    {[kind |-> "module_bazel_present", severity |-> "error", c |-> c] :
        c \in {d \in Walked : scan.module[d] # "ok"}}

IndexMirrorAgreement ==
    IF ~scan.db THEN {}
    ELSE {[kind |-> "index_mirror_agreement", severity |-> "warning", c |-> c] :
             c \in (Indexed \ Walked) \cup (Walked \ Indexed)}

\* A blob no parsed source.json names, said to be safe to delete.
OrphanBlobs ==
    {[kind |-> "orphan_blobs", severity |-> "info", c |-> c] :
        c \in {d \in scan.blobs : d \notin Walked \/ ~ExpectsBlob(scan.source[d])}}

ScipPresent ==
    {[kind |-> "scip_missing", severity |-> "warning", c |-> c] :
        c \in {d \in Indexed : scan.index[d] # "scip"}}

\* checkDeep re-analyzes what it can; an archive that is corrupt cannot be unpacked.
DeepReport ==
    IF ~(scan.deep /\ scan.db) THEN {}
    ELSE {[kind |-> "deep_report_mismatch", severity |-> "error", c |-> c] :
             c \in {d \in DOMAIN scan.hashed : d \in Indexed /\ scan.hashed[d] # "ok"}}

Findings == BlobIntegrity \cup SourceJSONSchema \cup ModuleBazelPresent \cup IndexMirrorAgreement
                \cup OrphanBlobs \cup ScipPresent \cup DeepReport

Errors == {f.c : f \in {g \in Findings : g.severity = "error"}}

VerifyNext ==
    \/ \E c \in Mirrored : StartIngest(c) \/ Harm(c) \/ WalkVersion(c) \/ HashBlob(c)
    \/ CloseBlob \/ WriteSourceFile \/ WriteModuleFile \/ WriteIndex \/ IngestDies
    \/ StartScan \/ ListBlobs \/ LoadIndex \/ FinishScan

VerifySpec == VerifyInit /\ [][VerifyNext]_verifyVars

-----------------------------------------------------------------------------
(* A verify beside a running ingest is exact: a version that was damaged   *)
(* before the scan and not written since gets an error, and an error is    *)
(* about a version that was damaged or had not all of its files when it    *)
(* was walked. It takes the writer's order (blob before source.json) and   *)
(* the scan's (modules before blobs) together.                             *)
VerifyIsExact ==
    scan.pc = "done" =>
        /\ scan.harmed \cap harmed \subseteq Errors
        /\ Errors \subseteq everHarmed \cup {c \in Walked : "absent" \in {scan.source[c], scan.module[c]}}

(* "re-ingest with `bzlhub ingest --from ...`": a re-ingest that found a   *)
(* damaged blob of its version, and went on to write its other files, put  *)
(* a good one in its place. (Close of the blob writer; what becomes of the *)
(* file afterwards does not count.)                                        *)
ReingestRepairs ==
    ingester.pc = "index" /\ ingester.found = "corrupt" => ingester.left = "ok"
=============================================================================
