------------------------------ MODULE MCIngest ------------------------------
(***************************************************************************)
(* Instances of Ingest for TLC.  The threads are more than one behaviour   *)
(* can hold, so the initial state chooses who may run: one walk whose      *)
(* workers merge several versions of a module, every kind of caller on one *)
(* version, or bumps and a refresh of a version with an empty MODULE.bazel.*)
(***************************************************************************)
EXTENDS Ingest, TLC

VARIABLE cast   \* "walk", "everyone" or "empty"

mcVars == <<cast, ingestVars>>

\* The second version is served with an empty MODULE.bazel.
SomeEmptyModule == Names \X {2}

IngestSymmetry == Permutations(Bumpers) \cup Permutations(Walkers)

OnStage ==
    CASE cast = "walk"     -> \A t \in Threads \ Walkers : At(t, "idle")
      [] cast = "everyone" -> /\ \A t \in Threads : ~At(t, "idle") => thr[t].c[2] = 1
                              /\ Cardinality({t \in Walkers : ~At(t, "idle")}) <= 1
      [] cast = "empty"    -> \A t \in Threads : ~At(t, "idle") =>
                                  t \in Bumpers \cup Refreshers /\ thr[t].c[2] = 2

MCIngestInit == cast \in {"walk", "everyone", "empty"} /\ IngestInit
MCIngestNext == UNCHANGED cast /\ IngestNext /\ OnStage'
MCIngestSpec == MCIngestInit /\ [][MCIngestNext]_mcVars

(* The per-name mutex of a Writer: what a walk has mirrored stays listed   *)
(* while the other workers merge their versions of the same module.        *)
(* Writers of several calls share no mutex, and lose listings.             *)
WalkStaysListed == cast = "walk" => MirroredStaysListed
=============================================================================
