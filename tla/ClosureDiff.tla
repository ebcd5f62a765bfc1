----------------------------- MODULE ClosureDiff -----------------------------
(***************************************************************************)
(* closurediff.Compute: the modules that moved between two closures are    *)
(* handed to a pool of workers over an unbuffered channel; each analyses   *)
(* both versions of its module and adds the outcome to the shared report.  *)
(***************************************************************************)
EXTENDS Naturals, FiniteSets

CONSTANTS
    DiffModules,   \* module names
    DiffWorkers,   \* the pool
    NoJob,         \* model value: no job
    MaxFindings    \* bound: breaking findings of one module

ASSUME DiffAssumption ==
    /\ IsFiniteSet(DiffModules) /\ MaxFindings \in Nat
    /\ "exited" \notin DiffModules /\ NoJob \notin DiffModules \cup {"exited"}

VARIABLES
    fromClosure, toClosure,   \* module -> version, of the selected modules
    jobsLeft,     \* jobs the dispatcher has not handed over
    diffWorker,   \* worker -> the job it holds, NoJob, or "exited"
    diffs,        \* ModuleDiffs: module -> number of breaking findings
    failures,     \* ErrorByModule
    breaking,     \* ClosureBreakingTotal
    compute       \* "walk", "dispatch", "wait", "cancelled" or what was returned

diffVars == <<fromClosure, toClosure, jobsLeft, diffWorker, diffs, failures, breaking, compute>>

Closures == UNION {[S -> {1, 2}] : S \in SUBSET DiffModules}

\* The modules shapeClosureDeps finds on both sides at different versions; those
\* on one side only have no pair to diff.
Changed == {m \in DOMAIN fromClosure \cap DOMAIN toClosure : fromClosure[m] # toClosure[m]}

DiffInit ==
    /\ fromClosure \in Closures /\ toClosure \in Closures
    /\ jobsLeft = {}
    /\ diffWorker = [w \in DiffWorkers |-> NoJob]
    /\ diffs = [m \in {} |-> 0] /\ failures = {} /\ breaking = 0
    /\ compute = "walk"

\* walkClosure, for both sides: the resolver's registry may not answer.
WalkClosures ==
    /\ compute = "walk"
    /\ \/ /\ compute' = "dispatch" /\ jobsLeft' = Changed
       \/ /\ compute' = "failed" /\ UNCHANGED jobsLeft
    /\ UNCHANGED <<fromClosure, toClosure, diffWorker, diffs, failures, breaking>>

\* jobsCh <- j: the channel is unbuffered, an idle worker takes the job.
HandOver(w) ==
    /\ compute = "dispatch" /\ diffWorker[w] = NoJob
    /\ \E m \in jobsLeft :
         /\ jobsLeft' = jobsLeft \ {m}
         /\ diffWorker' = [diffWorker EXCEPT ![w] = m]
    /\ UNCHANGED <<fromClosure, toClosure, diffs, failures, breaking, compute>>

\* The request's context ends while a job waits for a worker.
CancelDiff ==
    /\ compute = "dispatch" /\ jobsLeft # {}
    /\ compute' = "cancelled"
    /\ UNCHANGED <<fromClosure, toClosure, jobsLeft, diffWorker, diffs, failures, breaking>>

\* All jobs are out: the channel is closed.
CloseJobsCh ==
    /\ compute = "dispatch" /\ jobsLeft = {}
    /\ compute' = "wait"
    /\ UNCHANGED <<fromClosure, toClosure, jobsLeft, diffWorker, diffs, failures, breaking>>

\* perModuleDiff, and its outcome recorded under the mutex.
PerModuleDiff(w) ==
    /\ diffWorker[w] \in DiffModules
    /\ LET m == diffWorker[w] IN
         \/ /\ failures' = failures \cup {m}
            /\ UNCHANGED <<diffs, breaking>>
         \/ \E n \in 0..MaxFindings :
              /\ diffs' = [x \in DOMAIN diffs \cup {m} |-> IF x = m THEN n ELSE diffs[x]]
              /\ breaking' = breaking + n
              /\ UNCHANGED failures
    /\ diffWorker' = [diffWorker EXCEPT ![w] = NoJob]
    /\ UNCHANGED <<fromClosure, toClosure, jobsLeft, compute>>

\* range over the closed channel ends.
WorkerExits(w) ==
    /\ compute \in {"wait", "cancelled"} /\ diffWorker[w] = NoJob
    /\ diffWorker' = [diffWorker EXCEPT ![w] = "exited"]
    /\ UNCHANGED <<fromClosure, toClosure, jobsLeft, diffs, failures, breaking, compute>>

\* Mutant: the report is returned once the channel is closed.
WaitedNot == TRUE

\* wg.Wait: every worker has returned.
Waited == \A w \in DiffWorkers : diffWorker[w] = "exited"

ReturnReport ==
    /\ compute \in {"wait", "cancelled"} /\ Waited
    /\ compute' = IF compute = "wait" THEN "report" ELSE "context error"
    /\ UNCHANGED <<fromClosure, toClosure, jobsLeft, diffWorker, diffs, failures, breaking>>

DiffNext ==
    \/ WalkClosures \/ CancelDiff \/ CloseJobsCh \/ ReturnReport
    \/ \E w \in DiffWorkers : HandOver(w) \/ PerModuleDiff(w) \/ WorkerExits(w)

DiffSpec == DiffInit /\ [][DiffNext]_diffVars

(***************************************************************************)
(* Properties                                                              *)
(***************************************************************************)

\* The findings of the modules diffed, each counted under its module.
BreakingFindings == {f \in DiffModules \X (1..MaxFindings) : f[1] \in DOMAIN diffs /\ f[2] <= diffs[f[1]]}

\* A returned report accounts for the whole difference: a module whose version
\* moved was diffed or is listed with an error, never both, nothing else is, and
\* the headline count is that of the findings.  (closurediff.go: the workers
\* share the report, and a reader gates a release on the total.)
DiffAccountsForAll ==
    compute = "report" =>
        /\ DOMAIN diffs \cup failures = Changed
        /\ DOMAIN diffs \cap failures = {}
        /\ breaking = Cardinality(BreakingFindings)

=============================================================================
