---- MODULE Materialize ----
(***************************************************************************)
(* From a registry coordinate to an extracted source tree: internal/resolve*)
(* fetches source.json, streams the archive through a hashing reader and a *)
(* tee into internal/archive's extractors, and checks the integrity once   *)
(* the extractor has returned.  One call; what the registry serves is      *)
(* chosen in the initial state.                                            *)
(***************************************************************************)
EXTENDS Integers, Sequences, FiniteSets

CONSTANTS MaxBytes,   \* archive.MaxExtractBytes, in units of the model
          Archives    \* what an archive may hold: sequences of entries

\* Archive entries after the strip prefix is off.  "below" is the prefix
\* itself, "escape" an absolute or parent-relative path, "link" any link.
EntryKinds == {"file", "MODULE.bazel", "dir", "link", "below", "escape"}
Entry(k, n) == [kind |-> k, size |-> n]
Entries == [kind : EntryKinds, size : Nat]

ASSUME MatAssumption == MaxBytes \in Nat /\ Archives \subseteq Seq(Entries)

VARIABLES
    offer,      \* what the registry and the network serve
    caller,     \* Options.CaptureBytes, and whether a fallback was passed
    mat         \* the call: its step and what it has done so far

matVars == <<offer, caller, mat>>

Regular == {"file", "MODULE.bazel"}

MatInit ==
    /\ offer \in [type : {"", "archive", "git_repository"}, url : BOOLEAN,
                  kind : {"tgz", "zip", "tar.xz"},
                  entries : Archives,
                  compressed : {MaxBytes, MaxBytes + 1},  \* size on the wire
                  tail : BOOLEAN,      \* bytes after the tar's end marker lie in a later read
                  intact : BOOLEAN,    \* the bytes are the ones the integrity names
                  integrity : {"", "sha256", "sha512"}]
    /\ \/ offer.type # "git_repository" /\ offer.url /\ offer.kind # "tar.xz"
       \/ offer.entries = <<Entry("file", 1), Entry("dir", 0)>>   \* never looked at: one will do
    /\ caller \in [capture : BOOLEAN, fallback : BOOLEAN]
    /\ mat = [pc |-> "source", temp |-> FALSE, next |-> 1, total |-> 0, files |-> {},
              hashed |-> "none", module |-> FALSE, modBytes |-> FALSE]

\* An error return: the temporary directory is removed.
Abort == mat' = [mat EXCEPT !.pc = "failed", !.temp = FALSE, !.files = {}]

\* FromRegistryWithClient: source.json, and MODULE.bazel when bytes are kept.
GetSource ==
    /\ mat.pc = "source"
    /\ Abort \/ mat' = [mat EXCEPT !.pc = "check", !.modBytes = caller.capture]
    /\ UNCHANGED <<offer, caller>>

\* detectArchiveKind: what is declared decides, else the URL's extension with
\* tar.gz as the default; anything else that is declared is refused.
Supported == offer.type \in {"", "archive"} /\ offer.url /\ offer.kind # "tar.xz"

\* FromSource's checks, the temporary directory and the archive's response.
FetchArchive ==
    /\ mat.pc = "check"
    /\ \/ Abort
       \/ Supported /\ mat' = [mat EXCEPT !.pc = "extract", !.temp = TRUE]
    /\ UNCHANGED <<offer, caller>>

\* ExtractZip reads the whole stream before it opens the first entry.
BufferZip ==
    /\ mat.pc = "extract" /\ offer.kind = "zip" /\ mat.hashed = "none"
    /\ IF offer.compressed > MaxBytes THEN Abort ELSE mat' = [mat EXCEPT !.hashed = "all"]
    /\ UNCHANGED <<offer, caller>>

Readable == mat.pc = "extract" /\ (offer.kind = "zip" => mat.hashed = "all")

\* The budget before an entry and the bytes the LimitReader lets through.
Remaining == MaxBytes - mat.total
Copied(e) == IF e.size > Remaining + 1 THEN Remaining + 1 ELSE e.size

\* One round of the extraction loop of either format.  It fails on an unsafe
\* path, a spent budget, an entry that overflows it, or an I/O error.
ExtractEntry ==
    /\ Readable /\ mat.next <= Len(offer.entries)
    /\ LET e == offer.entries[mat.next]
           n == Copied(e)
       IN  \/ Abort
           \/ /\ e.kind \in {"dir", "link", "below"}
              /\ mat' = [mat EXCEPT !.next = @ + 1]
           \/ /\ e.kind \in Regular
              /\ Remaining > 0 /\ mat.total + n <= MaxBytes
              /\ mat' = [mat EXCEPT !.next = @ + 1, !.total = @ + n,
                                     !.files = @ \cup {<<mat.next, n>>},
                                     !.module = @ \/ e.kind = "MODULE.bazel"]
    /\ UNCHANGED <<offer, caller>>

\* The loop ends.  A tar reader stops at the end marker: what follows it on the
\* wire has been read, and hashed, only if it came with the same buffer.
EndOfArchive ==
    /\ Readable /\ mat.next > Len(offer.entries)
    /\ mat' = [mat EXCEPT !.pc = "verify",
                  !.hashed = IF offer.kind = "tgz" /\ offer.tail THEN "prefix" ELSE "all"]
    /\ UNCHANGED <<offer, caller>>

\* Mutant: the hash is compared over what was extracted, not over the stream.
MatchesIgnoringTail == offer.intact

\* VerifyingReader.Verify: an empty integrity passes, an algorithm other than
\* sha256 fails, and the digest of a prefix is not the digest.
Matches == offer.intact /\ mat.hashed = "all"

Verify ==
    /\ mat.pc = "verify"
    /\ IF offer.integrity = "" \/ (offer.integrity = "sha256" /\ Matches)
       THEN mat' = [mat EXCEPT !.pc = "module"] ELSE Abort
    /\ UNCHANGED <<offer, caller>>

\* A tree without MODULE.bazel takes the registry's copy.
ModuleFallback ==
    /\ mat.pc = "module"
    /\ LET have == mat.modBytes \/ caller.fallback IN
       \/ ~mat.module /\ have /\ Abort
       \/ mat' = [mat EXCEPT !.pc = "ok", !.module = @ \/ have]
    /\ UNCHANGED <<offer, caller>>

\* The caller is done with the tree.
Cleanup ==
    /\ mat.pc = "ok"
    /\ mat' = [mat EXCEPT !.pc = "cleaned", !.temp = FALSE]
    /\ UNCHANGED <<offer, caller>>

MatNext ==
    GetSource \/ FetchArchive \/ BufferZip \/ ExtractEntry \/ EndOfArchive
      \/ Verify \/ ModuleFallback \/ Cleanup

MatSpec == MatInit /\ [][MatNext]_matVars

\* A tree that is handed out is the whole archive the registry vouches for:
\* with an integrity the digest covered every byte of the stream the tee has
\* seen, every regular entry is there in full, within the budget, and
\* MODULE.bazel is there if anyone had it.  A failed call leaves no directory.
MaterializedIsWhole ==
    /\ mat.pc = "ok" =>
         /\ offer.integrity # "" => offer.integrity = "sha256" /\ offer.intact /\ mat.hashed = "all"
         /\ \A i \in 1..Len(offer.entries) : offer.entries[i].kind \in Regular
                => <<i, offer.entries[i].size>> \in mat.files
         /\ mat.total <= MaxBytes
         /\ mat.temp
         /\ caller.fallback => mat.module
    /\ mat.pc = "failed" => ~mat.temp
====
