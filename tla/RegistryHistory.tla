-------------------------- MODULE RegistryHistory --------------------------
(***************************************************************************)
(* What a registry repository promises the builds that read it, with no    *)
(* clones, pushes, branches or pull requests in sight: its base branch     *)
(* only ever gains entries, several in one commit at times, and nobody is  *)
(* told that a version landed before it did.  An entry is whole: a version *)
(* directory and its place in metadata.json arrive together.  Module       *)
(* Publish implements this specification.                                  *)
(***************************************************************************)
CONSTANT Coord       \* versions of modules

VARIABLES entries,   \* versions a build can resolve
          told       \* versions that somebody was told can be resolved

historyVars == <<entries, told>>

HistoryInit == entries = {} /\ told = {}

\* A commit reaches the base branch; its author may die before hearing so.
Land(S) ==
    /\ entries' = entries \cup S
    /\ told' = told \/ \E c \in entries' : told' = told \cup {c}

HistorySpec == HistoryInit /\ [][\E S \in SUBSET Coord : Land(S)]_historyVars
=============================================================================
