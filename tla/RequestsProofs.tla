--------------------------- MODULE RequestsProofs ---------------------------
(***************************************************************************)
(* Proofs about Requests: type correctness, exclusive ownership of rows,   *)
(* and the refinement of RequestLifecycle, for any number of handlers,     *)
(* workers, rows, retries and boots, with or without store faults and      *)
(* crashes; the bounds on racing submits, for a store that works; the      *)
(* audit of what the admit runner ends, for one uninterrupted lifetime;    *)
(* and what restarts cost: the retries a row may use and the rows that are *)
(* left in preflighting, for any number of lifetimes.                      *)
(***************************************************************************)
EXTENDS Requests, FiniteSetTheorems, TLAPS

(***************************************************************************)
(* The inductive invariant                                                 *)
(***************************************************************************)
\* What a handler or worker holds at each of its program points.
ClCarried == \A c \in Clients : cl[c].pc = "audit" => cl[c].id \in Ids
RvCarried ==
    \A r \in Reviewers : rv[r].pc # "idle" =>
        /\ rv[r].id \in Ids
        /\ rv[r].to \in {"approved", "denied"}
        /\ rv[r].seen \in AllowedFroms(rv[r].to)
PwCarried ==
    \A w \in PfWorkers :
        /\ pw[w].pc \in {"check", "audit"} => pw[w].id \in Ids
        /\ pw[w].pc = "audit" => pw[w].kind \in Kind
AwCarried ==
    \A w \in AdWorkers :
        /\ aw[w].pc \in Holding \cup {"audit", "purge"} => aw[w].id \in Ids
        /\ aw[w].pc = "audit" => aw[w].kind \in Kind
        /\ aw[w].pc = "backoff" => aw[w].attempt < MaxRetries

\* Rows above the AUTOINCREMENT counter do not exist.
FreshRows == \A i \in Ids : i >= nextId => state[i] = "none"

\* No admit worker is active before the boot sweep has run.
Phases ==
    /\ proc = "down" => phase = "off"
    /\ phase # "run" => \A w \in AdWorkers : aw[w].pc = "idle"

\* Only granted rows are on their way to the registry, and a worker that
\* reports success has published.
RowsGranted ==
    \A i \in Ids : state[i] \in {"auto_pass", "approved", "fetching"} => i \in granted
SuccessPublished == \A w \in AdWorkers : aw[w].pc = "succeed" => aw[w].id \in pub

IInv ==
    /\ TypeOK
    /\ ClCarried /\ RvCarried /\ PwCarried /\ AwCarried
    /\ FreshRows /\ Phases /\ RowsGranted /\ SuccessPublished
    /\ AdOwnership /\ PfOwnership

-----------------------------------------------------------------------------
(* A fresh database and a process that is down satisfy the invariant.      *)
LEMMA InitIInv == Init => IInv
<1> SUFFICES ASSUME Init PROVE IInv
  OBVIOUS
<1> USE BoundsAssumption DEF Init, IdleClient, IdleReviewer, IdlePf, IdleAd, Ids
<1>1. TypeOK
  BY DEF TypeOK, ClientRec, ReviewerRec, PfRec, AdRec, RequestState
<1>2. ClCarried /\ RvCarried /\ PwCarried /\ AwCarried
  BY DEF ClCarried, RvCarried, PwCarried, AwCarried, Holding
<1>3. FreshRows /\ Phases
  BY DEF FreshRows, Phases
<1>4. RowsGranted /\ SuccessPublished
  BY DEF RowsGranted, SuccessPublished
<1>5. AdOwnership /\ PfOwnership
  BY DEF AdOwnership, PfOwnership, Holding
<1> QED
  BY <1>1, <1>2, <1>3, <1>4, <1>5 DEF IInv

(* What a poll lists: existing rows in one of the wanted states.           *)
LEMMA Listed ==
    ASSUME NEW S, NEW n
    PROVE  /\ ListRequests(S, n) \in SUBSET Ids
           /\ \A i \in ListRequests(S, n) : state[i] \in S
  BY DEF ListRequests

(* A poll and a lost claim replace a worker's candidates and its program   *)
(* point and keep the rest of its record.                                  *)
LEMMA PfPolls ==
    ASSUME NEW x \in PfRec, NEW C \in SUBSET Ids, NEW p \in {"idle", "claim"}
    PROVE  [x EXCEPT !.cand = C, !.pc = p] \in PfRec
<1> DEFINE CS == SUBSET Ids
<1>1. C \in CS
  OBVIOUS
<1>2. PfRec = [pc : {"idle", "claim", "check", "audit"}, cand : CS,
               id : Ids \cup {0}, kind : Kind \cup {"none"}]
  BY DEF PfRec
<1> HIDE DEF CS
<1> QED
  BY <1>1, <1>2

(* The record of a worker that has just claimed a row.                     *)
LEMMA AdClaims ==
    ASSUME NEW i \in Ids
    PROVE  [IdleAd EXCEPT !.pc = "admit", !.id = i] \in AdRec
<1> DEFINE CS == SUBSET (Ids \X AdmitCandidates)
           ATT == 0..MaxRetries
<1>1. {} \in CS /\ 0 \in ATT
  BY BoundsAssumption
<1>2. AdRec = [pc : {"idle", "claim", "admit", "backoff", "succeed", "fail", "audit", "purge"},
               cand : CS, id : Ids \cup {0}, attempt : ATT, kind : Kind \cup {"none"}]
  BY DEF AdRec
<1> HIDE DEF CS, ATT
<1> QED
  BY <1>1, <1>2 DEF IdleAd

(* The same for an admit worker that polls or loses a claim.               *)
LEMMA AdPolls ==
    ASSUME NEW x \in AdRec, NEW C \in SUBSET (Ids \X AdmitCandidates), NEW p \in {"idle", "claim"}
    PROVE  [x EXCEPT !.cand = C, !.pc = p] \in AdRec
<1> DEFINE CS == SUBSET (Ids \X AdmitCandidates)
           ATT == 0..MaxRetries
<1>1. C \in CS
  OBVIOUS
<1>2. AdRec = [pc : {"idle", "claim", "admit", "backoff", "succeed", "fail", "audit", "purge"},
               cand : CS, id : Ids \cup {0}, attempt : ATT, kind : Kind \cup {"none"}]
  BY DEF AdRec
<1> HIDE DEF CS, ATT
<1> QED
  BY <1>1, <1>2

(* Every step of the pipeline preserves the inductive invariant.           *)
LEMMA StepIInv == IInv /\ [Next]_vars => IInv'
<1> SUFFICES ASSUME IInv, [Next]_vars PROVE IInv'
  OBVIOUS
<1> USE BoundsAssumption DEF rowVars, histVars, procVars, Live
<1>a. TypeOK /\ ClCarried /\ RvCarried /\ PwCarried /\ AwCarried /\ FreshRows
      /\ Phases /\ RowsGranted /\ SuccessPublished /\ AdOwnership /\ PfOwnership
  BY DEF IInv
<1>b. nextId \in 1..(MaxId + 1) /\ body \in [Ids -> Body \cup {NoBody}] /\ hit \in SUBSET Ids
      /\ retryCount \in [Ids -> 0..MaxRetries] /\ attempts \in [Ids -> Nat]
  BY DEF IInv, TypeOK
<1>s. state \in [Ids -> RequestState \cup {"none"}] /\ stale \in SUBSET Ids
      /\ granted \in SUBSET Ids /\ pub \in SUBSET Ids
  BY DEF IInv, TypeOK
<1>u. audit \in SUBSET (Ids \X Kind) /\ boots \in 0..MaxBoots
  BY DEF IInv, TypeOK
<1>c. cl \in [Clients -> ClientRec]
  BY DEF IInv, TypeOK
<1>r. rv \in [Reviewers -> ReviewerRec]
  BY DEF IInv, TypeOK
<1>p. pw \in [PfWorkers -> PfRec]
  BY DEF IInv, TypeOK
<1>d. aw \in [AdWorkers -> AdRec]
  BY DEF IInv, TypeOK
<1>1. ASSUME NEW c \in Clients, NEW b \in Body, SubmitArrives(c, b) PROVE IInv'
  <2>1. cl' \in [Clients -> ClientRec]
    BY <1>1, <1>c, <1>a DEF SubmitArrives, IdleClient, ClientRec, ClCarried
  <2>2. TypeOK'
    BY <1>1, <1>a, <2>1 DEF SubmitArrives, TypeOK
  <2>3. ClCarried'
    BY <1>1, <1>a, <1>c, <1>s DEF SubmitArrives, IdleClient, ClCarried, ClientRec
  <2>4. RvCarried' /\ PwCarried' /\ AwCarried' /\ FreshRows' /\ Phases' /\ RowsGranted' /\ SuccessPublished' /\ AdOwnership' /\ PfOwnership'
    BY <1>1, <1>a DEF SubmitArrives, RvCarried, PwCarried, AwCarried, FreshRows, Phases, RowsGranted, SuccessPublished, AdOwnership, PfOwnership
  <2> QED
    BY <2>2, <2>3, <2>4 DEF IInv
<1>2. ASSUME NEW c \in Clients, FindDedupTarget(c) PROVE IInv'
  <2>1. cl' \in [Clients -> ClientRec]
    BY <1>2, <1>c, <1>a DEF FindDedupTarget, IdleClient, ClientRec, ClCarried
  <2>2. TypeOK'
    BY <1>2, <1>a, <2>1 DEF FindDedupTarget, TypeOK
  <2>3. ClCarried'
    BY <1>2, <1>a, <1>c, <1>s DEF FindDedupTarget, IdleClient, ClCarried, ClientRec
  <2>4. RvCarried' /\ PwCarried' /\ AwCarried' /\ FreshRows' /\ Phases' /\ RowsGranted' /\ SuccessPublished' /\ AdOwnership' /\ PfOwnership'
    BY <1>2, <1>a DEF FindDedupTarget, RvCarried, PwCarried, AwCarried, FreshRows, Phases, RowsGranted, SuccessPublished, AdOwnership, PfOwnership
  <2> QED
    BY <2>2, <2>3, <2>4 DEF IInv
<1>3. ASSUME NEW c \in Clients, CheckPendingCap(c) PROVE IInv'
  <2>1. cl' \in [Clients -> ClientRec]
    BY <1>3, <1>c, <1>a DEF CheckPendingCap, IdleClient, ClientRec, ClCarried
  <2>2. TypeOK'
    BY <1>3, <1>a, <2>1 DEF CheckPendingCap, TypeOK
  <2>3. ClCarried'
    BY <1>3, <1>a, <1>c, <1>s DEF CheckPendingCap, IdleClient, ClCarried, ClientRec
  <2>4. RvCarried' /\ PwCarried' /\ AwCarried' /\ FreshRows' /\ Phases' /\ RowsGranted' /\ SuccessPublished' /\ AdOwnership' /\ PfOwnership'
    BY <1>3, <1>a DEF CheckPendingCap, RvCarried, PwCarried, AwCarried, FreshRows, Phases, RowsGranted, SuccessPublished, AdOwnership, PfOwnership
  <2> QED
    BY <2>2, <2>3, <2>4 DEF IInv
<1>4. ASSUME NEW c \in Clients, InsertRequest(c) PROVE IInv'
  <2>1. CASE CreateRequest(cl[c].body)
    <3>1. nextId \in Ids /\ state[nextId] = "none"
      BY <1>a, <1>b, <2>1 DEF CreateRequest, FreshRows, Ids
    <3>2. cl' = [cl EXCEPT ![c].pc = "audit", ![c].id = nextId]
          \/ cl' = [cl EXCEPT ![c] = IdleClient]
      BY <1>4 DEF InsertRequest
    <3>3. cl' \in [Clients -> ClientRec]
      BY <1>c, <3>1, <3>2 DEF ClientRec, IdleClient
    <3>4. state' = [state EXCEPT ![nextId] = "pending"]
      BY <2>1 DEF CreateRequest
    <3>5. nextId' = nextId + 1 /\ nextId' \in 1..(MaxId + 1)
      BY <1>b, <2>1 DEF CreateRequest
    <3>6. cl[c].body \in Body \cup {NoBody}
      BY <1>c DEF ClientRec
    <3>7. body' \in [Ids -> Body \cup {NoBody}]
      BY <1>b, <2>1, <3>6 DEF CreateRequest
    <3>8. TypeOK'
      BY <1>a, <1>s, <1>4, <2>1, <3>1, <3>3, <3>4, <3>5, <3>7
         DEF InsertRequest, CreateRequest, TypeOK, RequestState
    <3>9. ClCarried'
      BY <1>a, <1>c, <3>1, <3>2 DEF ClCarried, ClientRec, IdleClient
    <3>10. FreshRows'
      BY <1>a, <1>b, <1>s, <3>1, <3>4, <3>5 DEF FreshRows, Ids
    <3>11. RowsGranted'
      BY <1>a, <1>s, <1>4, <3>1, <3>4 DEF RowsGranted, InsertRequest
    <3>12. AdOwnership'
      BY <1>a, <1>s, <1>4, <3>1, <3>4 DEF AdOwnership, AwCarried, Holding, InsertRequest
    <3>13. PfOwnership'
      BY <1>a, <1>s, <1>4, <3>1, <3>4 DEF PfOwnership, PwCarried, InsertRequest
    <3>14. RvCarried' /\ PwCarried' /\ AwCarried' /\ Phases' /\ SuccessPublished'
      BY <1>4, <1>a DEF InsertRequest, RvCarried, PwCarried, AwCarried, Phases, SuccessPublished
    <3> QED
      BY <3>8, <3>9, <3>10, <3>11, <3>12, <3>13, <3>14 DEF IInv
  <2>2. CASE cl' = [cl EXCEPT ![c] = IdleClient] /\ UNCHANGED <<rowVars, state, stale>>
    <3>1. cl' \in [Clients -> ClientRec]
      BY <1>c, <2>2 DEF ClientRec, IdleClient
    <3>2. TypeOK'
      BY <1>4, <1>a, <2>2, <3>1 DEF InsertRequest, TypeOK
    <3>3. ClCarried'
      BY <1>a, <1>c, <2>2 DEF ClCarried, ClientRec, IdleClient
    <3>4. /\ RvCarried' /\ PwCarried' /\ AwCarried' /\ Phases' /\ SuccessPublished'
          /\ FreshRows' /\ RowsGranted' /\ AdOwnership' /\ PfOwnership'
      BY <1>4, <1>a, <2>2 DEF InsertRequest, RvCarried, PwCarried, AwCarried, Phases,
         SuccessPublished, FreshRows, RowsGranted, AdOwnership, PfOwnership
    <3> QED
      BY <3>2, <3>3, <3>4 DEF IInv
  <2> QED
    BY <1>4, <2>1, <2>2 DEF InsertRequest
<1>5. ASSUME NEW c \in Clients, RecordSubmitAudit(c) PROVE IInv'
  <2>1. cl' \in [Clients -> ClientRec]
    BY <1>5, <1>c, <1>a DEF RecordSubmitAudit, RecordAudit, IdleClient, ClientRec, ClCarried
  <2>2. audit' \in SUBSET (Ids \X Kind)
    BY <1>5, <1>u, <1>c, <1>a DEF RecordSubmitAudit, RecordAudit, IdleClient, ClientRec, ClCarried, Kind
  <2>3. TypeOK'
    BY <1>5, <1>a, <2>1, <2>2 DEF RecordSubmitAudit, TypeOK
  <2>4. ClCarried'
    BY <1>5, <1>a, <1>c, <1>s DEF RecordSubmitAudit, RecordAudit, IdleClient, ClCarried, ClientRec
  <2>5. RvCarried' /\ PwCarried' /\ AwCarried' /\ FreshRows' /\ Phases' /\ RowsGranted' /\ SuccessPublished' /\ AdOwnership' /\ PfOwnership'
    BY <1>5, <1>a DEF RecordSubmitAudit, RvCarried, PwCarried, AwCarried, FreshRows, Phases, RowsGranted, SuccessPublished, AdOwnership, PfOwnership
  <2> QED
    BY <2>3, <2>4, <2>5 DEF IInv
<1>6. ASSUME NEW r \in Reviewers, NEW i \in Ids, NEW to \in {"approved", "denied"}, ReviewReads(r, i, to) PROVE IInv'
  <2>1. rv' \in [Reviewers -> ReviewerRec]
    BY <1>6, <1>r, <1>a DEF ReviewReads, IdleReviewer, ReviewerRec, AllowedFroms, RequestState, RvCarried
  <2>2. TypeOK'
    BY <1>6, <1>a, <2>1 DEF ReviewReads, TypeOK
  <2>3. RvCarried'
    BY <1>6, <1>a, <1>r, <1>s DEF ReviewReads, IdleReviewer, RvCarried, ReviewerRec, AllowedFroms
  <2>4. ClCarried' /\ PwCarried' /\ AwCarried' /\ FreshRows' /\ Phases' /\ RowsGranted' /\ SuccessPublished' /\ AdOwnership' /\ PfOwnership'
    BY <1>6, <1>a DEF ReviewReads, ClCarried, PwCarried, AwCarried, FreshRows, Phases, RowsGranted, SuccessPublished, AdOwnership, PfOwnership
  <2> QED
    BY <2>2, <2>3, <2>4 DEF IInv
<1>7. ASSUME NEW r \in Reviewers, ReviewTransition(r) PROVE IInv'
  <2>1. rv' \in [Reviewers -> ReviewerRec]
    BY <1>7, <1>r, <1>a DEF ReviewTransition, TransitionRequest, TransitionLost, CanTransitionTo, legalTransitions, IdleReviewer, ReviewerRec, AllowedFroms, RequestState, RvCarried
  <2>2. state' \in [Ids -> RequestState \cup {"none"}]
    BY <1>7, <1>s, <1>r, <1>a DEF ReviewTransition, TransitionRequest, TransitionLost, CanTransitionTo, legalTransitions, IdleReviewer, RequestState, ReviewerRec, RvCarried
  <2>3. stale' \in SUBSET Ids
    BY <1>7, <1>s, <1>r, <1>a DEF ReviewTransition, TransitionRequest, TransitionLost, CanTransitionTo, legalTransitions, IdleReviewer, ReviewerRec, RvCarried
  <2>4. granted' \in SUBSET Ids
    BY <1>7, <1>s, <1>r, <1>a DEF ReviewTransition, TransitionRequest, TransitionLost, CanTransitionTo, legalTransitions, IdleReviewer, ReviewerRec, RvCarried
  <2>5. TypeOK'
    BY <1>7, <1>a, <2>1, <2>2, <2>3, <2>4 DEF ReviewTransition, TypeOK
  <2>6. RvCarried'
    BY <1>7, <1>a, <1>r, <1>s DEF ReviewTransition, TransitionRequest, TransitionLost, CanTransitionTo, legalTransitions, IdleReviewer, RvCarried, ReviewerRec, AllowedFroms
  <2>7. FreshRows'
    BY <1>7, <1>a, <1>b, <1>r, <1>s DEF ReviewTransition, TransitionRequest, TransitionLost, CanTransitionTo, legalTransitions, IdleReviewer, FreshRows, Ids
  <2>8. RowsGranted'
    BY <1>7, <1>a, <1>r, <1>s DEF ReviewTransition, TransitionRequest, TransitionLost, CanTransitionTo, legalTransitions, IdleReviewer, RowsGranted, RvCarried, PwCarried, AwCarried, AllowedFroms, AdOwnership, Holding, FreshRows
  <2>9. AdOwnership'
    BY <1>7, <1>a, <1>d, <1>r, <1>s DEF ReviewTransition, TransitionRequest, TransitionLost, CanTransitionTo, legalTransitions, IdleReviewer, AdOwnership, Holding, AdRec, RvCarried, AllowedFroms, Phases, AwCarried, PwCarried
  <2>10. PfOwnership'
    BY <1>7, <1>a, <1>p, <1>r, <1>s DEF ReviewTransition, TransitionRequest, TransitionLost, CanTransitionTo, legalTransitions, IdleReviewer, PfOwnership, PfRec, RvCarried, AllowedFroms, PwCarried, AwCarried, Holding, AdOwnership
  <2>11. ClCarried' /\ PwCarried' /\ AwCarried' /\ Phases' /\ SuccessPublished'
    BY <1>7, <1>a DEF ReviewTransition, ClCarried, PwCarried, AwCarried, Phases, SuccessPublished
  <2> QED
    BY <2>5, <2>6, <2>7, <2>8, <2>9, <2>10, <2>11 DEF IInv
<1>8. ASSUME NEW r \in Reviewers, ReviewAudit(r) PROVE IInv'
  <2>1. rv' \in [Reviewers -> ReviewerRec]
    BY <1>8, <1>r, <1>a DEF ReviewAudit, RecordAudit, IdleReviewer, ReviewerRec, AllowedFroms, RequestState, RvCarried
  <2>2. audit' \in SUBSET (Ids \X Kind)
    BY <1>8, <1>u, <1>r, <1>a DEF ReviewAudit, RecordAudit, IdleReviewer, ReviewerRec, RvCarried, Kind
  <2>3. TypeOK'
    BY <1>8, <1>a, <2>1, <2>2 DEF ReviewAudit, TypeOK
  <2>4. RvCarried'
    BY <1>8, <1>a, <1>r, <1>s DEF ReviewAudit, RecordAudit, IdleReviewer, RvCarried, ReviewerRec, AllowedFroms
  <2>5. ClCarried' /\ PwCarried' /\ AwCarried' /\ FreshRows' /\ Phases' /\ RowsGranted' /\ SuccessPublished' /\ AdOwnership' /\ PfOwnership'
    BY <1>8, <1>a DEF ReviewAudit, ClCarried, PwCarried, AwCarried, FreshRows, Phases, RowsGranted, SuccessPublished, AdOwnership, PfOwnership
  <2> QED
    BY <2>3, <2>4, <2>5 DEF IInv
<1>9. ASSUME NEW w \in PfWorkers, PfList(w) PROVE IInv'
  <2>1. pw' \in [PfWorkers -> PfRec]
    <3> DEFINE cand == ListRequests({"pending"}, PfLimit)
               point == IF cand = {} THEN "idle" ELSE "claim"
    <3>1. cand \in SUBSET Ids /\ point \in {"idle", "claim"}
      BY Listed
    <3>2. pw' = [pw EXCEPT ![w] = [pw[w] EXCEPT !.cand = cand, !.pc = point]]
      BY <1>9, <1>p DEF PfList
    <3> HIDE DEF cand, point
    <3> QED
      BY <1>p, <3>1, <3>2, PfPolls
  <2>2. TypeOK'
    BY <1>9, <1>a, <2>1 DEF PfList, TypeOK
  <2>3. PwCarried'
    BY <1>9, <1>a, <1>p, <1>s DEF PfList, ListRequests, IdlePf, PwCarried, PfRec, Kind
  <2>4. PfOwnership'
    BY <1>9, <1>a, <1>p, <1>s DEF PfList, ListRequests, IdlePf, PfOwnership, PfRec, RvCarried, AllowedFroms, PwCarried, AwCarried, Holding, AdOwnership
  <2>5. ClCarried' /\ RvCarried' /\ AwCarried' /\ FreshRows' /\ Phases' /\ RowsGranted' /\ SuccessPublished' /\ AdOwnership'
    BY <1>9, <1>a DEF PfList, ClCarried, RvCarried, AwCarried, FreshRows, Phases, RowsGranted, SuccessPublished, AdOwnership
  <2> QED
    BY <2>2, <2>3, <2>4, <2>5 DEF IInv
<1>10. ASSUME NEW w \in PfWorkers, NEW i \in pw[w].cand, PfClaim(w, i) PROVE IInv'
  <2>0. i \in Ids /\ w \in PfWorkers
    BY <1>10, <1>p DEF PfRec, PfClaim
  <2>1. CASE TransitionRequest(i, "pending", "preflighting") /\ pw' = [pw EXCEPT ![w] = [IdlePf EXCEPT !.pc = "check", !.id = i]]
    <3>1. pw' \in [PfWorkers -> PfRec]
      BY <1>p, <2>0, <2>1 DEF PfRec, IdlePf, Kind
    <3>2. state[i] = "pending" /\ state' = [state EXCEPT ![i] = "preflighting"]
      BY <2>1 DEF TransitionRequest
    <3>3. TypeOK'
      BY <1>a, <1>s, <1>10, <2>1, <3>1, <3>2 DEF PfClaim, TransitionRequest, TypeOK, RequestState
    <3>4. pw'[w].id = i /\ pw'[w].pc = "check"
          /\ \A x \in PfWorkers \ {w} : pw'[x] = pw[x]
      BY <1>p, <2>0, <2>1 DEF PfRec, IdlePf
    <3> HIDE <2>1
    <3>5. PwCarried'
      BY <1>a, <2>0, <3>4 DEF PwCarried, Holding
    <3>6. FreshRows' /\ Phases'
      BY <1>a, <1>s, <1>10, <2>0, <3>2, <3>4 DEF PfClaim, FreshRows, Phases
    <3>7. RowsGranted' /\ SuccessPublished'
      BY <1>a, <1>s, <1>10, <2>0, <3>2, <3>4 DEF PfClaim, RowsGranted, SuccessPublished
    <3>8. AdOwnership'
      BY <1>a, <1>s, <1>10, <2>0, <3>2, <3>4 DEF PfClaim, AdOwnership, AwCarried, Holding
    <3>9. PfOwnership'
      BY <1>a, <1>s, <1>10, <2>0, <3>2, <3>4 DEF PfClaim, PfOwnership, PwCarried
    <3>10. ClCarried' /\ RvCarried' /\ AwCarried'
      BY <1>10, <1>a DEF PfClaim, ClCarried, RvCarried, AwCarried
    <3> QED
      BY <3>3, <3>5, <3>6, <3>7, <3>8, <3>9, <3>10 DEF IInv
  <2>2. CASE TransitionLost(i, "pending") /\ pw' = [pw EXCEPT ![w].cand = @ \ {i},
                            ![w].pc = IF pw[w].cand = {i} THEN "idle" ELSE "claim"]
    <3>1. pw' \in [PfWorkers -> PfRec]
      <4> DEFINE cand == pw[w].cand \ {i}
                 point == IF pw[w].cand = {i} THEN "idle" ELSE "claim"
      <4>1. cand \in SUBSET Ids /\ point \in {"idle", "claim"}
        BY <1>p, <2>0 DEF PfRec
      <4>2. pw' = [pw EXCEPT ![w] = [pw[w] EXCEPT !.cand = cand, !.pc = point]]
        BY <1>p, <2>2
      <4> HIDE DEF cand, point
      <4> QED
        BY <1>p, <2>0, <4>1, <4>2, PfPolls
    <3>2. UNCHANGED <<state, stale>>
      BY <2>2 DEF TransitionLost
    <3>3. TypeOK'
      BY <1>a, <1>10, <3>1, <3>2 DEF PfClaim, TypeOK
    <3>4. pw'[w].id = pw[w].id /\ pw'[w].pc \in {"idle", "claim"}
          /\ \A x \in PfWorkers \ {w} : pw'[x] = pw[x]
      BY <1>p, <2>0, <2>2 DEF PfRec
    <3>5. PwCarried' /\ PfOwnership' /\ Phases' /\ SuccessPublished'
      BY <1>a, <1>10, <2>0, <3>2, <3>4 DEF PfClaim, PwCarried, PfOwnership, Holding, Phases, SuccessPublished
    <3>6. ClCarried' /\ RvCarried' /\ AwCarried' /\ FreshRows' /\ RowsGranted' /\ AdOwnership'
      BY <1>10, <1>a, <3>2 DEF PfClaim, ClCarried, RvCarried, AwCarried, FreshRows, RowsGranted, AdOwnership
    <3> QED
      BY <3>3, <3>5, <3>6 DEF IInv
  <2> QED
    BY <1>10, <2>1, <2>2 DEF PfClaim
<1>11. ASSUME NEW w \in PfWorkers, PfVerdict(w) PROVE IInv'
  <2>1. pw' \in [PfWorkers -> PfRec]
    BY <1>11, <1>p, <1>a DEF PfVerdict, TransitionRequest, TransitionLost, CanTransitionTo, legalTransitions, CheckVerdicts, IdlePf, PfRec, Kind, PwCarried
  <2>2. state' \in [Ids -> RequestState \cup {"none"}]
    BY <1>11, <1>s, <1>p, <1>a DEF PfVerdict, TransitionRequest, TransitionLost, CanTransitionTo, legalTransitions, CheckVerdicts, IdlePf, RequestState, PfRec, PwCarried
  <2>3. stale' \in SUBSET Ids
    BY <1>11, <1>s, <1>p, <1>a DEF PfVerdict, TransitionRequest, TransitionLost, CanTransitionTo, legalTransitions, CheckVerdicts, IdlePf, PfRec, PwCarried
  <2>4. hit' \in SUBSET Ids
    BY <1>11, <1>b, <1>p, <1>a DEF PfVerdict, TransitionRequest, TransitionLost, CanTransitionTo, legalTransitions, CheckVerdicts, IdlePf, PfRec, PwCarried
  <2>5. granted' \in SUBSET Ids
    BY <1>11, <1>s, <1>p, <1>a DEF PfVerdict, TransitionRequest, TransitionLost, CanTransitionTo, legalTransitions, CheckVerdicts, IdlePf, PfRec, PwCarried
  <2>6. TypeOK'
    BY <1>11, <1>a, <2>1, <2>2, <2>3, <2>4, <2>5 DEF PfVerdict, TypeOK
  <2>7. PwCarried'
    BY <1>11, <1>a, <1>p, <1>s DEF PfVerdict, TransitionRequest, TransitionLost, CanTransitionTo, legalTransitions, CheckVerdicts, IdlePf, PwCarried, PfRec, Kind
  <2>8. FreshRows'
    BY <1>11, <1>a, <1>b, <1>p, <1>s DEF PfVerdict, TransitionRequest, TransitionLost, CanTransitionTo, legalTransitions, CheckVerdicts, IdlePf, FreshRows, Ids
  <2>9. RowsGranted'
    BY <1>11, <1>a, <1>p, <1>s DEF PfVerdict, TransitionRequest, TransitionLost, CanTransitionTo, legalTransitions, CheckVerdicts, IdlePf, RowsGranted, RvCarried, PwCarried, AwCarried, AllowedFroms, AdOwnership, Holding, FreshRows
  <2>10. AdOwnership'
    BY <1>11, <1>a, <1>d, <1>p, <1>s DEF PfVerdict, TransitionRequest, TransitionLost, CanTransitionTo, legalTransitions, CheckVerdicts, IdlePf, AdOwnership, Holding, AdRec, RvCarried, AllowedFroms, Phases, AwCarried, PwCarried
  <2>11. PfOwnership'
    BY <1>11, <1>a, <1>p, <1>s DEF PfVerdict, TransitionRequest, TransitionLost, CanTransitionTo, legalTransitions, CheckVerdicts, IdlePf, PfOwnership, PfRec, RvCarried, AllowedFroms, PwCarried, AwCarried, Holding, AdOwnership
  <2>12. ClCarried' /\ RvCarried' /\ AwCarried' /\ Phases' /\ SuccessPublished'
    BY <1>11, <1>a DEF PfVerdict, ClCarried, RvCarried, AwCarried, Phases, SuccessPublished
  <2> QED
    BY <2>6, <2>7, <2>8, <2>9, <2>10, <2>11, <2>12 DEF IInv
<1>12. ASSUME NEW w \in PfWorkers, PfAudit(w) PROVE IInv'
  <2>1. pw' \in [PfWorkers -> PfRec]
    BY <1>12, <1>p, <1>a DEF PfAudit, RecordAudit, IdlePf, PfRec, Kind, PwCarried
  <2>2. audit' \in SUBSET (Ids \X Kind)
    BY <1>12, <1>u, <1>p, <1>a DEF PfAudit, RecordAudit, IdlePf, PfRec, PwCarried, Kind
  <2>3. TypeOK'
    BY <1>12, <1>a, <2>1, <2>2 DEF PfAudit, TypeOK
  <2>4. PwCarried'
    BY <1>12, <1>a, <1>p, <1>s DEF PfAudit, RecordAudit, IdlePf, PwCarried, PfRec, Kind
  <2>5. PfOwnership'
    BY <1>12, <1>a, <1>p, <1>s DEF PfAudit, RecordAudit, IdlePf, PfOwnership, PfRec, RvCarried, AllowedFroms, PwCarried, AwCarried, Holding, AdOwnership
  <2>6. ClCarried' /\ RvCarried' /\ AwCarried' /\ FreshRows' /\ Phases' /\ RowsGranted' /\ SuccessPublished' /\ AdOwnership'
    BY <1>12, <1>a DEF PfAudit, ClCarried, RvCarried, AwCarried, FreshRows, Phases, RowsGranted, SuccessPublished, AdOwnership
  <2> QED
    BY <2>3, <2>4, <2>5, <2>6 DEF IInv
<1>13. ASSUME NEW w \in PfWorkers, PfCancelled(w) PROVE IInv'
  <2>1. pw' \in [PfWorkers -> PfRec]
    BY <1>13, <1>p, <1>a DEF PfCancelled, IdlePf, PfRec, Kind, PwCarried
  <2>2. TypeOK'
    BY <1>13, <1>a, <2>1 DEF PfCancelled, TypeOK
  <2>3. PwCarried'
    BY <1>13, <1>a, <1>p, <1>s DEF PfCancelled, IdlePf, PwCarried, PfRec, Kind
  <2>4. PfOwnership'
    BY <1>13, <1>a, <1>p, <1>s DEF PfCancelled, IdlePf, PfOwnership, PfRec, RvCarried, AllowedFroms, PwCarried, AwCarried, Holding, AdOwnership
  <2>5. ClCarried' /\ RvCarried' /\ AwCarried' /\ FreshRows' /\ Phases' /\ RowsGranted' /\ SuccessPublished' /\ AdOwnership'
    BY <1>13, <1>a DEF PfCancelled, ClCarried, RvCarried, AwCarried, FreshRows, Phases, RowsGranted, SuccessPublished, AdOwnership
  <2> QED
    BY <2>2, <2>3, <2>4, <2>5 DEF IInv
<1>14. ASSUME NEW w \in AdWorkers, AdList(w) PROVE IInv'
  <2>1. aw' \in [AdWorkers -> AdRec]
    <3> DEFINE cand == {<<i, state[i]>> : i \in ListRequests(AdmitCandidates, AdLimit)}
    <3>1. cand \in SUBSET (Ids \X AdmitCandidates)
      BY Listed
    <3> DEFINE point == IF cand = {} THEN "idle" ELSE "claim"
    <3>2. aw' = [aw EXCEPT ![w] = [aw[w] EXCEPT !.cand = cand, !.pc = point]]
      BY <1>d, <1>14 DEF AdList
    <3>3. point \in {"idle", "claim"}
      OBVIOUS
    <3> HIDE DEF cand, point
    <3> QED
      BY <1>d, <3>1, <3>2, <3>3, AdPolls
  <2>2. TypeOK'
    BY <1>14, <1>a, <2>1 DEF AdList, TypeOK
  <2>3. AwCarried'
    BY <1>14, <1>a, <1>d, <1>s DEF AdList, ListRequests, IdleAd, AwCarried, AdRec, Kind, Holding
  <2>4. Phases'
    BY <1>14, <1>a, <1>d, <1>s DEF AdList, ListRequests, IdleAd, Phases
  <2>5. SuccessPublished'
    BY <1>14, <1>a, <1>d, <1>s DEF AdList, ListRequests, IdleAd, SuccessPublished, AdRec
  <2>6. AdOwnership'
    BY <1>14, <1>a, <1>d, <1>s DEF AdList, ListRequests, IdleAd, AdOwnership, Holding, AdRec, RvCarried, AllowedFroms, Phases, AwCarried, PwCarried
  <2>7. ClCarried' /\ RvCarried' /\ PwCarried' /\ FreshRows' /\ RowsGranted' /\ PfOwnership'
    BY <1>14, <1>a DEF AdList, ClCarried, RvCarried, PwCarried, FreshRows, RowsGranted, PfOwnership
  <2> QED
    BY <2>2, <2>3, <2>4, <2>5, <2>6, <2>7 DEF IInv
<1>15. ASSUME NEW w \in AdWorkers, NEW i \in Ids, NEW seen \in AdmitCandidates,
             AdClaim(w, i, seen) PROVE IInv'
  <2>0. i \in Ids /\ w \in AdWorkers
    BY <1>15, <1>d DEF AdRec, AdClaim
  <2>1. CASE TransitionRequest(i, seen, "fetching") /\ aw' = [aw EXCEPT ![w] = [IdleAd EXCEPT !.pc = "admit", !.id = i]]
    <3>1. aw' \in [AdWorkers -> AdRec]
      <4>1. [IdleAd EXCEPT !.pc = "admit", !.id = i] \in AdRec
        BY <2>0, AdClaims
      <4> QED
        BY <1>d, <2>0, <2>1, <4>1
    <3>2. state[i] = seen /\ state' = [state EXCEPT ![i] = "fetching"]
      BY <2>1 DEF TransitionRequest
    <3>3. TypeOK'
      BY <1>a, <1>s, <1>15, <2>1, <3>1, <3>2 DEF AdClaim, TransitionRequest, TypeOK, RequestState
    <3>4. aw'[w].id = i /\ aw'[w].pc = "admit"
          /\ \A x \in AdWorkers \ {w} : aw'[x] = aw[x]
      BY <1>d, <2>0, <2>1 DEF AdRec, IdleAd
    <3> HIDE <2>1
    <3>5. AwCarried'
      BY <1>a, <2>0, <3>4 DEF AwCarried, Holding
    <3>6. FreshRows' /\ Phases'
      BY <1>a, <1>s, <1>15, <2>0, <3>2, <3>4 DEF AdClaim, FreshRows, Phases, AdmitCandidates
    <3>7. RowsGranted' /\ SuccessPublished'
      BY <1>a, <1>s, <1>15, <2>0, <3>2, <3>4 DEF AdClaim, RowsGranted, SuccessPublished, AdmitCandidates
    <3>8. AdOwnership'
      BY <1>a, <1>s, <1>15, <2>0, <3>2, <3>4 DEF AdClaim, AdOwnership, AwCarried, Holding, AdmitCandidates
    <3>9. PfOwnership'
      BY <1>a, <1>s, <1>15, <2>0, <3>2, <3>4 DEF AdClaim, PfOwnership, PwCarried, AdmitCandidates
    <3>10. ClCarried' /\ RvCarried' /\ PwCarried'
      BY <1>15, <1>a DEF AdClaim, ClCarried, RvCarried, PwCarried
    <3> QED
      BY <3>3, <3>5, <3>6, <3>7, <3>8, <3>9, <3>10 DEF IInv
  <2>2. CASE TransitionLost(i, seen) /\ aw' = [aw EXCEPT ![w].cand = @ \ {<<i, seen>>},
                            ![w].pc = IF aw[w].cand = {<<i, seen>>} THEN "idle" ELSE "claim"]
    <3>1. aw' \in [AdWorkers -> AdRec]
      <4> DEFINE cand == aw[w].cand \ {<<i, seen>>}
                 point == IF aw[w].cand = {<<i, seen>>} THEN "idle" ELSE "claim"
      <4>1. cand \in SUBSET (Ids \X AdmitCandidates) /\ point \in {"idle", "claim"}
        <5>1. aw[w] \in AdRec
          BY <1>d, <2>0
        <5>2. aw[w].cand \in SUBSET (Ids \X AdmitCandidates)
          BY <5>1 DEF AdRec
        <5> QED
          BY <5>2
      <4>2. aw' = [aw EXCEPT ![w] = [aw[w] EXCEPT !.cand = cand, !.pc = point]]
        BY <1>d, <2>2
      <4> HIDE DEF cand, point
      <4> QED
        BY <1>d, <2>0, <4>1, <4>2, AdPolls
    <3>2. UNCHANGED <<state, stale>>
      BY <2>2 DEF TransitionLost
    <3>3. TypeOK'
      BY <1>a, <1>15, <3>1, <3>2 DEF AdClaim, TypeOK
    <3>4. aw'[w].id = aw[w].id /\ aw'[w].pc \in {"idle", "claim"}
          /\ \A x \in AdWorkers \ {w} : aw'[x] = aw[x]
      BY <1>d, <2>0, <2>2 DEF AdRec
    <3>5. AwCarried' /\ AdOwnership' /\ Phases' /\ SuccessPublished'
      BY <1>a, <1>15, <2>0, <3>2, <3>4 DEF AdClaim, AwCarried, AdOwnership, Holding, Phases, SuccessPublished
    <3>6. ClCarried' /\ RvCarried' /\ PwCarried' /\ FreshRows' /\ RowsGranted' /\ PfOwnership'
      BY <1>15, <1>a, <3>2 DEF AdClaim, ClCarried, RvCarried, PwCarried, FreshRows, RowsGranted, PfOwnership
    <3> QED
      BY <3>3, <3>5, <3>6 DEF IInv
  <2> QED
    BY <1>15, <2>1, <2>2 DEF AdClaim
<1>16. ASSUME NEW w \in AdWorkers, AdmitOne(w) PROVE IInv'
  <2>1. aw' \in [AdWorkers -> AdRec]
    BY <1>16, <1>d, <1>a DEF AdmitOne, RetriesLeft, IdleAd, AdRec, Kind, AwCarried, Holding
  <2>2. pub' \in SUBSET Ids
    BY <1>16, <1>s, <1>d, <1>a DEF AdmitOne, RetriesLeft, IdleAd, AdRec, AwCarried, Holding
  <2>3. attempts' \in [Ids -> Nat]
    BY <1>16, <1>b, <1>d, <1>a DEF AdmitOne, RetriesLeft, IdleAd, AdRec, AwCarried, Holding
  <2>4. TypeOK'
    BY <1>16, <1>a, <2>1, <2>2, <2>3 DEF AdmitOne, TypeOK
  <2>5. AwCarried'
    BY <1>16, <1>a, <1>d, <1>s DEF AdmitOne, RetriesLeft, IdleAd, AwCarried, AdRec, Kind, Holding
  <2>6. Phases'
    BY <1>16, <1>a, <1>d, <1>s DEF AdmitOne, RetriesLeft, IdleAd, Phases
  <2>7. SuccessPublished'
    BY <1>16, <1>a, <1>d, <1>s DEF AdmitOne, RetriesLeft, IdleAd, SuccessPublished, AdRec
  <2>8. AdOwnership'
    BY <1>16, <1>a, <1>d, <1>s DEF AdmitOne, RetriesLeft, IdleAd, AdOwnership, Holding, AdRec, RvCarried, AllowedFroms, Phases, AwCarried, PwCarried
  <2>9. ClCarried' /\ RvCarried' /\ PwCarried' /\ FreshRows' /\ RowsGranted' /\ PfOwnership'
    BY <1>16, <1>a DEF AdmitOne, ClCarried, RvCarried, PwCarried, FreshRows, RowsGranted, PfOwnership
  <2> QED
    BY <2>4, <2>5, <2>6, <2>7, <2>8, <2>9 DEF IInv
<1>17. ASSUME NEW w \in AdWorkers, AdBackoff(w) PROVE IInv'
  <2>1. aw' \in [AdWorkers -> AdRec]
    BY <1>17, <1>d, <1>a DEF AdBackoff, IdleAd, AdRec, Kind, AwCarried, Holding
  <2>2. TypeOK'
    BY <1>17, <1>a, <2>1 DEF AdBackoff, TypeOK
  <2>3. AwCarried'
    BY <1>17, <1>a, <1>d, <1>s DEF AdBackoff, IdleAd, AwCarried, AdRec, Kind, Holding
  <2>4. Phases'
    BY <1>17, <1>a, <1>d, <1>s DEF AdBackoff, IdleAd, Phases
  <2>5. SuccessPublished'
    BY <1>17, <1>a, <1>d, <1>s DEF AdBackoff, IdleAd, SuccessPublished, AdRec
  <2>6. AdOwnership'
    BY <1>17, <1>a, <1>d, <1>s DEF AdBackoff, IdleAd, AdOwnership, Holding, AdRec, RvCarried, AllowedFroms, Phases, AwCarried, PwCarried
  <2>7. ClCarried' /\ RvCarried' /\ PwCarried' /\ FreshRows' /\ RowsGranted' /\ PfOwnership'
    BY <1>17, <1>a DEF AdBackoff, ClCarried, RvCarried, PwCarried, FreshRows, RowsGranted, PfOwnership
  <2> QED
    BY <2>2, <2>3, <2>4, <2>5, <2>6, <2>7 DEF IInv
<1>18. ASSUME NEW w \in AdWorkers, Succeed(w) PROVE IInv'
  <2>1. aw' \in [AdWorkers -> AdRec]
    BY <1>18, <1>d, <1>a DEF Succeed, TransitionRequest, TransitionLost, CanTransitionTo, legalTransitions, AdOutcome, IdleAd, AdRec, Kind, AwCarried, Holding
  <2>2. state' \in [Ids -> RequestState \cup {"none"}]
    BY <1>18, <1>s, <1>d, <1>a DEF Succeed, TransitionRequest, TransitionLost, CanTransitionTo, legalTransitions, AdOutcome, IdleAd, RequestState, AdRec, AwCarried, Holding
  <2>3. stale' \in SUBSET Ids
    BY <1>18, <1>s, <1>d, <1>a DEF Succeed, TransitionRequest, TransitionLost, CanTransitionTo, legalTransitions, AdOutcome, IdleAd, AdRec, AwCarried, Holding
  <2>4. retryCount' \in [Ids -> 0..MaxRetries]
    BY <1>18, <1>b, <1>d, <1>a DEF Succeed, TransitionRequest, TransitionLost, CanTransitionTo, legalTransitions, AdOutcome, IdleAd, AdRec, AwCarried, Holding
  <2>5. TypeOK'
    BY <1>18, <1>a, <2>1, <2>2, <2>3, <2>4 DEF Succeed, AdOutcome, TypeOK
  <2>6. AwCarried'
    BY <1>18, <1>a, <1>d, <1>s DEF Succeed, TransitionRequest, TransitionLost, CanTransitionTo, legalTransitions, AdOutcome, IdleAd, AwCarried, AdRec, Kind, Holding
  <2>7. FreshRows'
    BY <1>18, <1>a, <1>b, <1>d, <1>s DEF Succeed, TransitionRequest, TransitionLost, CanTransitionTo, legalTransitions, AdOutcome, IdleAd, FreshRows, Ids
  <2>8. Phases'
    BY <1>18, <1>a, <1>d, <1>s DEF Succeed, TransitionRequest, TransitionLost, CanTransitionTo, legalTransitions, AdOutcome, IdleAd, Phases
  <2>9. RowsGranted'
    BY <1>18, <1>a, <1>d, <1>s DEF Succeed, TransitionRequest, TransitionLost, CanTransitionTo, legalTransitions, AdOutcome, IdleAd, RowsGranted, RvCarried, PwCarried, AwCarried, AllowedFroms, AdOwnership, Holding, FreshRows
  <2>10. SuccessPublished'
    BY <1>18, <1>a, <1>d, <1>s DEF Succeed, TransitionRequest, TransitionLost, CanTransitionTo, legalTransitions, AdOutcome, IdleAd, SuccessPublished, AdRec
  <2>11. AdOwnership'
    BY <1>18, <1>a, <1>d, <1>s DEF Succeed, TransitionRequest, TransitionLost, CanTransitionTo, legalTransitions, AdOutcome, IdleAd, AdOwnership, Holding, AdRec, RvCarried, AllowedFroms, Phases, AwCarried, PwCarried
  <2>12. PfOwnership'
    BY <1>18, <1>a, <1>d, <1>p, <1>s DEF Succeed, TransitionRequest, TransitionLost, CanTransitionTo, legalTransitions, AdOutcome, IdleAd, PfOwnership, PfRec, RvCarried, AllowedFroms, PwCarried, AwCarried, Holding, AdOwnership
  <2>13. ClCarried' /\ RvCarried' /\ PwCarried'
    BY <1>18, <1>a DEF Succeed, AdOutcome, ClCarried, RvCarried, PwCarried
  <2> QED
    BY <2>5, <2>6, <2>7, <2>8, <2>9, <2>10, <2>11, <2>12, <2>13 DEF IInv
<1>19. ASSUME NEW w \in AdWorkers, Fail(w) PROVE IInv'
  <2>1. aw' \in [AdWorkers -> AdRec]
    BY <1>19, <1>d, <1>a DEF Fail, TransitionRequest, TransitionLost, CanTransitionTo, legalTransitions, AdOutcome, IdleAd, AdRec, Kind, AwCarried, Holding
  <2>2. state' \in [Ids -> RequestState \cup {"none"}]
    BY <1>19, <1>s, <1>d, <1>a DEF Fail, TransitionRequest, TransitionLost, CanTransitionTo, legalTransitions, AdOutcome, IdleAd, RequestState, AdRec, AwCarried, Holding
  <2>3. stale' \in SUBSET Ids
    BY <1>19, <1>s, <1>d, <1>a DEF Fail, TransitionRequest, TransitionLost, CanTransitionTo, legalTransitions, AdOutcome, IdleAd, AdRec, AwCarried, Holding
  <2>4. retryCount' \in [Ids -> 0..MaxRetries]
    BY <1>19, <1>b, <1>d, <1>a DEF Fail, TransitionRequest, TransitionLost, CanTransitionTo, legalTransitions, AdOutcome, IdleAd, AdRec, AwCarried, Holding
  <2>5. TypeOK'
    BY <1>19, <1>a, <2>1, <2>2, <2>3, <2>4 DEF Fail, AdOutcome, TypeOK
  <2>6. AwCarried'
    BY <1>19, <1>a, <1>d, <1>s DEF Fail, TransitionRequest, TransitionLost, CanTransitionTo, legalTransitions, AdOutcome, IdleAd, AwCarried, AdRec, Kind, Holding
  <2>7. FreshRows'
    BY <1>19, <1>a, <1>b, <1>d, <1>s DEF Fail, TransitionRequest, TransitionLost, CanTransitionTo, legalTransitions, AdOutcome, IdleAd, FreshRows, Ids
  <2>8. Phases'
    BY <1>19, <1>a, <1>d, <1>s DEF Fail, TransitionRequest, TransitionLost, CanTransitionTo, legalTransitions, AdOutcome, IdleAd, Phases
  <2>9. RowsGranted'
    BY <1>19, <1>a, <1>d, <1>s DEF Fail, TransitionRequest, TransitionLost, CanTransitionTo, legalTransitions, AdOutcome, IdleAd, RowsGranted, RvCarried, PwCarried, AwCarried, AllowedFroms, AdOwnership, Holding, FreshRows
  <2>10. SuccessPublished'
    BY <1>19, <1>a, <1>d, <1>s DEF Fail, TransitionRequest, TransitionLost, CanTransitionTo, legalTransitions, AdOutcome, IdleAd, SuccessPublished, AdRec
  <2>11. AdOwnership'
    BY <1>19, <1>a, <1>d, <1>s DEF Fail, TransitionRequest, TransitionLost, CanTransitionTo, legalTransitions, AdOutcome, IdleAd, AdOwnership, Holding, AdRec, RvCarried, AllowedFroms, Phases, AwCarried, PwCarried
  <2>12. PfOwnership'
    BY <1>19, <1>a, <1>d, <1>p, <1>s DEF Fail, TransitionRequest, TransitionLost, CanTransitionTo, legalTransitions, AdOutcome, IdleAd, PfOwnership, PfRec, RvCarried, AllowedFroms, PwCarried, AwCarried, Holding, AdOwnership
  <2>13. ClCarried' /\ RvCarried' /\ PwCarried'
    BY <1>19, <1>a DEF Fail, AdOutcome, ClCarried, RvCarried, PwCarried
  <2> QED
    BY <2>5, <2>6, <2>7, <2>8, <2>9, <2>10, <2>11, <2>12, <2>13 DEF IInv
<1>20. ASSUME NEW w \in AdWorkers, AdAudit(w) PROVE IInv'
  <2>1. aw' \in [AdWorkers -> AdRec]
    BY <1>20, <1>d, <1>a DEF AdAudit, RecordAudit, IdleAd, AdRec, Kind, AwCarried, Holding
  <2>2. audit' \in SUBSET (Ids \X Kind)
    BY <1>20, <1>u, <1>d, <1>a DEF AdAudit, RecordAudit, IdleAd, AdRec, AwCarried, Holding, Kind
  <2>3. TypeOK'
    BY <1>20, <1>a, <2>1, <2>2 DEF AdAudit, TypeOK
  <2>4. AwCarried'
    BY <1>20, <1>a, <1>d, <1>s DEF AdAudit, RecordAudit, IdleAd, AwCarried, AdRec, Kind, Holding
  <2>5. Phases'
    BY <1>20, <1>a, <1>d, <1>s DEF AdAudit, RecordAudit, IdleAd, Phases
  <2>6. SuccessPublished'
    BY <1>20, <1>a, <1>d, <1>s DEF AdAudit, RecordAudit, IdleAd, SuccessPublished, AdRec
  <2>7. AdOwnership'
    BY <1>20, <1>a, <1>d, <1>s DEF AdAudit, RecordAudit, IdleAd, AdOwnership, Holding, AdRec, RvCarried, AllowedFroms, Phases, AwCarried, PwCarried
  <2>8. ClCarried' /\ RvCarried' /\ PwCarried' /\ FreshRows' /\ RowsGranted' /\ PfOwnership'
    BY <1>20, <1>a DEF AdAudit, ClCarried, RvCarried, PwCarried, FreshRows, RowsGranted, PfOwnership
  <2> QED
    BY <2>3, <2>4, <2>5, <2>6, <2>7, <2>8 DEF IInv
<1>21. ASSUME NEW w \in AdWorkers, AdPurge(w) PROVE IInv'
  <2>1. aw' \in [AdWorkers -> AdRec]
    BY <1>21, <1>d, <1>a DEF AdPurge, RecordAudit, IdleAd, AdRec, Kind, AwCarried, Holding
  <2>2. audit' \in SUBSET (Ids \X Kind)
    BY <1>21, <1>u, <1>d, <1>a DEF AdPurge, RecordAudit, IdleAd, AdRec, AwCarried, Holding, Kind
  <2>3. TypeOK'
    BY <1>21, <1>a, <2>1, <2>2 DEF AdPurge, TypeOK
  <2>4. AwCarried'
    BY <1>21, <1>a, <1>d, <1>s DEF AdPurge, RecordAudit, IdleAd, AwCarried, AdRec, Kind, Holding
  <2>5. Phases'
    BY <1>21, <1>a, <1>d, <1>s DEF AdPurge, RecordAudit, IdleAd, Phases
  <2>6. SuccessPublished'
    BY <1>21, <1>a, <1>d, <1>s DEF AdPurge, RecordAudit, IdleAd, SuccessPublished, AdRec
  <2>7. AdOwnership'
    BY <1>21, <1>a, <1>d, <1>s DEF AdPurge, RecordAudit, IdleAd, AdOwnership, Holding, AdRec, RvCarried, AllowedFroms, Phases, AwCarried, PwCarried
  <2>8. ClCarried' /\ RvCarried' /\ PwCarried' /\ FreshRows' /\ RowsGranted' /\ PfOwnership'
    BY <1>21, <1>a DEF AdPurge, ClCarried, RvCarried, PwCarried, FreshRows, RowsGranted, PfOwnership
  <2> QED
    BY <2>3, <2>4, <2>5, <2>6, <2>7, <2>8 DEF IInv
<1>22. ASSUME NEW w \in AdWorkers, AdCancelled(w) PROVE IInv'
  <2>1. aw' \in [AdWorkers -> AdRec]
    BY <1>22, <1>d, <1>a DEF AdCancelled, IdleAd, AdRec, Kind, AwCarried, Holding
  <2>2. TypeOK'
    BY <1>22, <1>a, <2>1 DEF AdCancelled, TypeOK
  <2>3. AwCarried'
    BY <1>22, <1>a, <1>d, <1>s DEF AdCancelled, IdleAd, AwCarried, AdRec, Kind, Holding
  <2>4. Phases'
    BY <1>22, <1>a, <1>d, <1>s DEF AdCancelled, IdleAd, Phases
  <2>5. SuccessPublished'
    BY <1>22, <1>a, <1>d, <1>s DEF AdCancelled, IdleAd, SuccessPublished, AdRec
  <2>6. AdOwnership'
    BY <1>22, <1>a, <1>d, <1>s DEF AdCancelled, IdleAd, AdOwnership, Holding, AdRec, RvCarried, AllowedFroms, Phases, AwCarried, PwCarried
  <2>7. ClCarried' /\ RvCarried' /\ PwCarried' /\ FreshRows' /\ RowsGranted' /\ PfOwnership'
    BY <1>22, <1>a DEF AdCancelled, ClCarried, RvCarried, PwCarried, FreshRows, RowsGranted, PfOwnership
  <2> QED
    BY <2>2, <2>3, <2>4, <2>5, <2>6, <2>7 DEF IInv
<1>23. ASSUME NEW i \in Ids, Age(i) PROVE IInv'
  <2>1. stale' \in SUBSET Ids
    BY <1>23, <1>s DEF Age
  <2>2. TypeOK'
    BY <1>23, <1>a, <2>1 DEF Age, TypeOK
  <2>3. ClCarried' /\ RvCarried' /\ PwCarried' /\ AwCarried' /\ FreshRows' /\ Phases' /\ RowsGranted' /\ SuccessPublished' /\ AdOwnership' /\ PfOwnership'
    BY <1>23, <1>a DEF Age, ClCarried, RvCarried, PwCarried, AwCarried, FreshRows, Phases, RowsGranted, SuccessPublished, AdOwnership, PfOwnership
  <2> QED
    BY <2>2, <2>3 DEF IInv
<1>24. ASSUME BootSweep PROVE IInv'
  <2>1. state' \in [Ids -> RequestState \cup {"none"}]
    BY <1>24, <1>s DEF BootSweep, ReclaimStuckFetching, RequestState
  <2>2. stale' \in SUBSET Ids
    BY <1>24, <1>s DEF BootSweep, ReclaimStuckFetching
  <2>3. TypeOK'
    BY <1>24, <1>a, <2>1, <2>2 DEF BootSweep, TypeOK
  <2>4. FreshRows'
    BY <1>24, <1>a, <1>b, <1>s DEF BootSweep, ReclaimStuckFetching, FreshRows, Ids
  <2>5. Phases'
    BY <1>24, <1>a, <1>d, <1>s DEF BootSweep, ReclaimStuckFetching, Phases
  <2>6. RowsGranted'
    BY <1>24, <1>a, <1>s DEF BootSweep, ReclaimStuckFetching, RowsGranted, RvCarried, PwCarried, AwCarried, AllowedFroms, AdOwnership, Holding, FreshRows
  <2>7. AdOwnership'
    BY <1>24, <1>a, <1>d, <1>s DEF BootSweep, ReclaimStuckFetching, AdOwnership, Holding, AdRec, RvCarried, AllowedFroms, Phases, AwCarried, PwCarried
  <2>8. PfOwnership'
    BY <1>24, <1>a, <1>p, <1>s DEF BootSweep, ReclaimStuckFetching, PfOwnership, PfRec, RvCarried, AllowedFroms, PwCarried, AwCarried, Holding, AdOwnership
  <2>9. ClCarried' /\ RvCarried' /\ PwCarried' /\ AwCarried' /\ SuccessPublished'
    BY <1>24, <1>a DEF BootSweep, ClCarried, RvCarried, PwCarried, AwCarried, SuccessPublished
  <2> QED
    BY <2>3, <2>4, <2>5, <2>6, <2>7, <2>8, <2>9 DEF IInv
<1>25. ASSUME Boot PROVE IInv'
  <2>1. boots' \in 0..MaxBoots
    BY <1>25, <1>u DEF Boot
  <2>2. TypeOK'
    BY <1>25, <1>a, <2>1 DEF Boot, TypeOK
  <2>3. Phases'
    BY <1>25, <1>a, <1>d, <1>s DEF Boot, Phases
  <2>4. ClCarried' /\ RvCarried' /\ PwCarried' /\ AwCarried' /\ FreshRows' /\ RowsGranted' /\ SuccessPublished' /\ AdOwnership' /\ PfOwnership'
    BY <1>25, <1>a DEF Boot, ClCarried, RvCarried, PwCarried, AwCarried, FreshRows, RowsGranted, SuccessPublished, AdOwnership, PfOwnership
  <2> QED
    BY <2>2, <2>3, <2>4 DEF IInv
<1>26. ASSUME Terminate PROVE IInv'
  <2>1. TypeOK'
    BY <1>26, <1>a DEF Terminate, TypeOK
  <2>2. Phases'
    BY <1>26, <1>a, <1>d, <1>s DEF Terminate, Phases
  <2>3. ClCarried' /\ RvCarried' /\ PwCarried' /\ AwCarried' /\ FreshRows' /\ RowsGranted' /\ SuccessPublished' /\ AdOwnership' /\ PfOwnership'
    BY <1>26, <1>a DEF Terminate, ClCarried, RvCarried, PwCarried, AwCarried, FreshRows, RowsGranted, SuccessPublished, AdOwnership, PfOwnership
  <2> QED
    BY <2>1, <2>2, <2>3 DEF IInv
<1>27. ASSUME Exit PROVE IInv'
  <2>1. cl' \in [Clients -> ClientRec]
    BY <1>27, <1>c DEF Exit, IdleClient, IdleReviewer, IdlePf, IdleAd, ClientRec
  <2>2. rv' \in [Reviewers -> ReviewerRec]
    BY <1>27, <1>r DEF Exit, IdleClient, IdleReviewer, IdlePf, IdleAd, ReviewerRec, AllowedFroms, RequestState
  <2>3. pw' \in [PfWorkers -> PfRec]
    BY <1>27, <1>p DEF Exit, IdleClient, IdleReviewer, IdlePf, IdleAd, PfRec, Kind
  <2>4. aw' \in [AdWorkers -> AdRec]
    BY <1>27, <1>d DEF Exit, IdleClient, IdleReviewer, IdlePf, IdleAd, AdRec, Kind, AwCarried, Holding
  <2>5. TypeOK'
    BY <1>27, <1>a, <2>1, <2>2, <2>3, <2>4 DEF Exit, TypeOK
  <2>6. ClCarried'
    BY <1>27, <1>a, <1>c, <1>s DEF Exit, IdleClient, IdleReviewer, IdlePf, IdleAd, ClCarried, ClientRec
  <2>7. RvCarried'
    BY <1>27, <1>a, <1>r, <1>s DEF Exit, IdleClient, IdleReviewer, IdlePf, IdleAd, RvCarried, ReviewerRec, AllowedFroms
  <2>8. PwCarried'
    BY <1>27, <1>a, <1>p, <1>s DEF Exit, IdleClient, IdleReviewer, IdlePf, IdleAd, PwCarried, PfRec, Kind
  <2>9. AwCarried'
    BY <1>27, <1>a, <1>d, <1>s DEF Exit, IdleClient, IdleReviewer, IdlePf, IdleAd, AwCarried, AdRec, Kind, Holding
  <2>10. Phases'
    BY <1>27, <1>a, <1>d, <1>s DEF Exit, IdleClient, IdleReviewer, IdlePf, IdleAd, Phases
  <2>11. SuccessPublished'
    BY <1>27, <1>a, <1>d, <1>s DEF Exit, IdleClient, IdleReviewer, IdlePf, IdleAd, SuccessPublished, AdRec
  <2>12. AdOwnership'
    BY <1>27, <1>a, <1>d, <1>s DEF Exit, IdleClient, IdleReviewer, IdlePf, IdleAd, AdOwnership, Holding, AdRec, RvCarried, AllowedFroms, Phases, AwCarried, PwCarried
  <2>13. PfOwnership'
    BY <1>27, <1>a, <1>p, <1>s DEF Exit, IdleClient, IdleReviewer, IdlePf, IdleAd, PfOwnership, PfRec, RvCarried, AllowedFroms, PwCarried, AwCarried, Holding, AdOwnership
  <2>14. FreshRows' /\ RowsGranted'
    BY <1>27, <1>a DEF Exit, FreshRows, RowsGranted
  <2> QED
    BY <2>5, <2>6, <2>7, <2>8, <2>9, <2>10, <2>11, <2>12, <2>13, <2>14 DEF IInv
<1>28. CASE UNCHANGED vars
  BY <1>a, <1>28 DEF vars, IInv, TypeOK, ClCarried, RvCarried, PwCarried, AwCarried, FreshRows,
     Phases, RowsGranted, SuccessPublished, AdOwnership, PfOwnership
<1> QED
  BY <1>1, <1>2, <1>3, <1>4, <1>5, <1>6, <1>7, <1>8, <1>9, <1>10, <1>11, <1>12, <1>13, <1>14, <1>15, <1>16, <1>17, <1>18, <1>19, <1>20, <1>21, <1>22, <1>23, <1>24, <1>25, <1>26, <1>27, <1>28
     DEF Next, ClientStep, ReviewerStep, PfStep, AdStep

-----------------------------------------------------------------------------
(* The theorems                                                            *)
(* Spec => []IInv, by InitIInv and StepIInv.                               *)
LEMMA Inductive == Spec => []IInv
<1>1. Init => IInv
  BY InitIInv
<1>2. IInv /\ [Next]_vars => IInv'
  BY StepIInv
<1> QED
  BY <1>1, <1>2, PTL DEF Spec

(* Every row, handler record and worker record keeps its type, whatever    *)
(* the interleaving of handlers, workers, faults and restarts.             *)
THEOREM TypeCorrect == Spec => []TypeOK
<1>1. IInv => TypeOK
  BY DEF IInv
<1> QED
  BY <1>1, Inductive, PTL

(* The claim compare-and-swap of TransitionRequest makes workers exclusive *)
(* owners: for any number of workers and restarts no row is held twice,    *)
(* and a fetching row is not taken from a live admit worker.               *)
THEOREM Ownership == Spec => []ExclusiveOwnership
<1>1. IInv => ExclusiveOwnership
  BY DEF IInv, ExclusiveOwnership
<1> QED
  BY <1>1, Inductive, PTL

(* A step of a request along the graph is a step of the lifecycle.         *)
LEMMA LifecycleGraph ==
    ASSUME NEW s, NEW t
    PROVE  CanTransitionTo(s, t) <=> Lifecycle!CanTransitionTo(s, t)
  BY DEF CanTransitionTo, legalTransitions, Lifecycle!CanTransitionTo, Lifecycle!legalTransitions

(* Every step of the pipeline is a step of the lifecycle, or changes none  *)
(* of state, granted and pub.                                              *)
LEMMA StepRefines == IInv /\ [Next]_vars => [Lifecycle!AbsNext]_(Lifecycle!absVars)
<1> SUFFICES ASSUME IInv, [Next]_vars
             PROVE  Lifecycle!AbsNext \/ UNCHANGED <<state, granted, pub>>
  BY DEF Lifecycle!absVars
<1> USE DEF rowVars, histVars, procVars
<1>a. TypeOK /\ RvCarried /\ PwCarried /\ AwCarried /\ FreshRows /\ RowsGranted
      /\ SuccessPublished /\ AdOwnership /\ PfOwnership
  BY DEF IInv
<1>s. state \in [Ids -> RequestState \cup {"none"}] /\ granted \in SUBSET Ids /\ pub \in SUBSET Ids
  BY <1>a DEF TypeOK
<1>1. ASSUME NEW c \in Clients, InsertRequest(c)
      PROVE  Lifecycle!AbsNext \/ UNCHANGED <<state, granted, pub>>
  <2>1. CASE CreateRequest(cl[c].body)
    <3>1. nextId \in Ids /\ state[nextId] = "none"
      BY <1>a, <2>1, BoundsAssumption DEF CreateRequest, FreshRows, Ids, TypeOK
    <3>2. Lifecycle!Submit(nextId)
      BY <1>1, <2>1, <3>1 DEF InsertRequest, CreateRequest, Lifecycle!Submit
    <3> QED
      BY <3>1, <3>2 DEF Lifecycle!AbsNext
  <2>2. CASE UNCHANGED state
    BY <1>1, <2>2 DEF InsertRequest
  <2> QED
    BY <1>1, <2>1, <2>2 DEF InsertRequest
<1>2. ASSUME NEW r \in Reviewers, ReviewTransition(r)
      PROVE  Lifecycle!AbsNext \/ UNCHANGED <<state, granted, pub>>
  <2>1. CASE /\ TransitionRequest(rv[r].id, rv[r].seen, rv[r].to)
             /\ granted' = IF rv[r].to = "approved" THEN granted \cup {rv[r].id} ELSE granted
    <3> DEFINE i == rv[r].id
               to == rv[r].to
    <3>1. i \in Ids /\ to \in {"approved", "denied"}
      BY <1>a, <1>2 DEF RvCarried, ReviewTransition
    <3>2. CanTransitionTo(state[i], to) /\ state' = [state EXCEPT ![i] = to]
      BY <2>1 DEF TransitionRequest
    <3>3. CASE to = "approved"
      <4>1. granted' = granted \cup {i} /\ pub' = pub
        BY <1>2, <2>1, <3>3 DEF ReviewTransition
      <4>2. Lifecycle!Grant(i, to)
        BY <3>2, <3>3, <4>1, LifecycleGraph DEF Lifecycle!Grant, Lifecycle!AdmitCandidates
      <4> QED
        BY <3>1, <3>3, <4>2 DEF Lifecycle!AbsNext, Lifecycle!RequestState
    <3>4. CASE to = "denied"
      <4>1. granted' = granted /\ pub' = pub
        BY <1>2, <2>1, <3>4 DEF ReviewTransition
      <4>2. Lifecycle!Refuse(i)
        BY <3>2, <3>4, <4>1, LifecycleGraph DEF Lifecycle!Refuse
      <4> QED
        BY <3>1, <4>2 DEF Lifecycle!AbsNext
    <3> QED
      BY <3>1, <3>3, <3>4
  <2>2. CASE UNCHANGED <<state, granted>>
    BY <1>2, <2>2 DEF ReviewTransition
  <2> QED
    BY <1>2, <2>1, <2>2 DEF ReviewTransition, TransitionLost
<1>3. ASSUME NEW w \in PfWorkers, NEW i \in pw[w].cand, PfClaim(w, i)
      PROVE  Lifecycle!AbsNext \/ UNCHANGED <<state, granted, pub>>
  <2>1. i \in Ids
    BY <1>a DEF TypeOK, PfRec
  <2>2. CASE TransitionRequest(i, "pending", "preflighting")
    <3>1. Lifecycle!Work(i, "preflighting")
      BY <1>3, <2>2, LifecycleGraph DEF PfClaim, TransitionRequest, Lifecycle!Work
    <3> QED
      BY <2>1, <3>1 DEF Lifecycle!AbsNext, Lifecycle!RequestState
  <2> QED
    BY <1>3, <2>2 DEF PfClaim, TransitionLost
<1>4. ASSUME NEW w \in PfWorkers, PfVerdict(w)
      PROVE  Lifecycle!AbsNext \/ UNCHANGED <<state, granted, pub>>
  <2> DEFINE i == pw[w].id
  <2>1. i \in Ids
    BY <1>a, <1>4 DEF PwCarried, PfVerdict
  <2>2. ASSUME NEW v \in CheckVerdicts(body[i]), TransitionRequest(i, "preflighting", v),
               granted' = IF v = "auto_pass" THEN granted \cup {i} ELSE granted
        PROVE  Lifecycle!AbsNext
    <3>1. v \in {"auto_pass", "needs_review", "denied"}
      BY DEF CheckVerdicts
    <3>2. CanTransitionTo(state[i], v) /\ state' = [state EXCEPT ![i] = v] /\ pub' = pub
      BY <1>4, <2>2 DEF TransitionRequest, PfVerdict
    <3>3. CASE v = "auto_pass"
      <4>1. Lifecycle!Grant(i, v)
        BY <2>2, <3>2, <3>3, LifecycleGraph DEF Lifecycle!Grant, Lifecycle!AdmitCandidates
      <4> QED
        BY <2>1, <3>3, <4>1 DEF Lifecycle!AbsNext, Lifecycle!RequestState
    <3>4. CASE v = "needs_review"
      <4>1. Lifecycle!Work(i, v)
        BY <2>2, <3>2, <3>4, LifecycleGraph DEF Lifecycle!Work
      <4> QED
        BY <2>1, <3>4, <4>1 DEF Lifecycle!AbsNext, Lifecycle!RequestState
    <3>5. CASE v = "denied"
      <4>1. Lifecycle!Refuse(i)
        BY <2>2, <3>2, <3>5, LifecycleGraph DEF Lifecycle!Refuse
      <4> QED
        BY <2>1, <4>1 DEF Lifecycle!AbsNext
    <3> QED
      BY <3>1, <3>3, <3>4, <3>5
  <2>3. CASE TransitionLost(i, "preflighting") /\ UNCHANGED <<hit, granted>>
    BY <1>4, <2>3 DEF PfVerdict, TransitionLost
  <2> QED
    BY <1>4, <2>2, <2>3 DEF PfVerdict
<1>5. ASSUME NEW w \in AdWorkers, NEW i \in Ids, NEW seen \in AdmitCandidates, AdClaim(w, i, seen)
      PROVE  Lifecycle!AbsNext \/ UNCHANGED <<state, granted, pub>>
  <2>1. CASE TransitionRequest(i, seen, "fetching")
    <3>1. i \in granted
      BY <1>a, <1>5, <2>1 DEF RowsGranted, TransitionRequest, AdmitCandidates
    <3>2. Lifecycle!BeginFetch(i)
      BY <1>5, <2>1, <3>1, LifecycleGraph DEF AdClaim, TransitionRequest, Lifecycle!BeginFetch
    <3> QED
      BY <1>5, <3>2 DEF Lifecycle!AbsNext
  <2> QED
    BY <1>5, <2>1 DEF AdClaim, TransitionLost
<1>6. ASSUME NEW w \in AdWorkers, AdmitOne(w)
      PROVE  Lifecycle!AbsNext \/ UNCHANGED <<state, granted, pub>>
  <2> DEFINE i == aw[w].id
  <2>1. i \in Ids /\ state[i] = "fetching" /\ i \in granted
    BY <1>a, <1>6 DEF AdmitOne, AwCarried, AdOwnership, Holding, RowsGranted
  <2>2. CASE pub' = pub \cup {i}
    <3>1. Lifecycle!PublishEntry(i)
      BY <1>6, <2>1, <2>2 DEF AdmitOne, Lifecycle!PublishEntry
    <3> QED
      BY <2>1, <3>1 DEF Lifecycle!AbsNext
  <2> QED
    BY <1>6, <2>2 DEF AdmitOne
<1>7. ASSUME NEW w \in AdWorkers, Succeed(w) \/ Fail(w)
      PROVE  Lifecycle!AbsNext \/ UNCHANGED <<state, granted, pub>>
  <2> DEFINE i == aw[w].id
  <2>1. i \in Ids /\ state[i] = "fetching" /\ UNCHANGED <<granted, pub>>
    BY <1>a, <1>7 DEF Succeed, Fail, AdOutcome, AwCarried, AdOwnership, Holding
  <2>2. CASE Succeed(w) /\ TransitionRequest(i, "fetching", "indexed")
    <3>1. i \in pub
      BY <1>a, <2>2 DEF Succeed, AdOutcome, SuccessPublished
    <3>2. Lifecycle!Index(i)
      BY <2>1, <2>2, <3>1 DEF TransitionRequest, Lifecycle!Index
    <3> QED
      BY <2>1, <3>2 DEF Lifecycle!AbsNext
  <2>3. CASE Fail(w) /\ TransitionRequest(i, "fetching", "denied")
    <3>1. Lifecycle!Refuse(i)
      BY <2>1, <2>3, LifecycleGraph DEF TransitionRequest, Lifecycle!Refuse
    <3> QED
      BY <2>1, <3>1 DEF Lifecycle!AbsNext
  <2>4. CASE TransitionLost(i, "fetching")
    BY <2>1, <2>4 DEF TransitionLost
  <2> QED
    BY <1>7, <2>2, <2>3, <2>4 DEF Succeed, Fail, AdOutcome
<1>8. ASSUME BootSweep
      PROVE  Lifecycle!AbsNext \/ UNCHANGED <<state, granted, pub>>
  <2>1. CASE ReclaimStuckFetching
    <3> DEFINE R == {i \in Ids : state[i] = "fetching" /\ i \in stale}
    <3>1. Lifecycle!Recover(R)
      BY <1>8, <2>1 DEF BootSweep, ReclaimStuckFetching, Lifecycle!Recover
    <3>2. R \in SUBSET Ids
      OBVIOUS
    <3> HIDE DEF R
    <3> QED
      BY <3>1, <3>2 DEF Lifecycle!AbsNext
  <2> QED
    BY <1>8, <2>1 DEF BootSweep
<1>9. CASE \/ \E c \in Clients : \/ \E b \in Body : SubmitArrives(c, b)
                               \/ FindDedupTarget(c) \/ CheckPendingCap(c) \/ RecordSubmitAudit(c)
           \/ \E r \in Reviewers : \/ \E i \in Ids, to \in {"approved", "denied"} : ReviewReads(r, i, to)
                                 \/ ReviewAudit(r)
           \/ \E w \in PfWorkers : PfList(w) \/ PfAudit(w) \/ PfCancelled(w)
           \/ \E w \in AdWorkers : AdList(w) \/ AdBackoff(w) \/ AdAudit(w) \/ AdPurge(w) \/ AdCancelled(w)
           \/ \E i \in Ids : Age(i)
           \/ Boot \/ Terminate \/ Exit
           \/ UNCHANGED vars
  BY <1>9 DEF SubmitArrives, FindDedupTarget, CheckPendingCap, RecordSubmitAudit, ReviewReads, ReviewAudit,
     PfList, PfAudit, PfCancelled, AdList, AdBackoff, AdAudit, AdPurge, AdCancelled, Age, Boot,
     Terminate, Exit, vars
<1> QED
  BY <1>1, <1>2, <1>3, <1>4, <1>5, <1>6, <1>7, <1>8, <1>9
     DEF Next, ClientStep, ReviewerStep, PfStep, AdStep

(* The pipeline implements RequestLifecycle under the identity mapping:    *)
(* with any interleaving of handlers and workers, store faults, SIGTERMs,  *)
(* crashes and boot sweeps, nothing is fetched before it is granted,       *)
(* indexed before it is published, or revived once it is terminal.         *)
THEOREM Refinement == Spec => ImplementsLifecycle
<1>1. Init => Lifecycle!AbsInit
  BY DEF Init, Lifecycle!AbsInit
<1>2. IInv /\ [Next]_vars => [Lifecycle!AbsNext]_(Lifecycle!absVars)
  BY StepRefines
<1> QED
  BY <1>1, <1>2, Inductive, PTL DEF Spec, ImplementsLifecycle, Lifecycle!AbsSpec

-----------------------------------------------------------------------------
(***************************************************************************)
(* The submit handlers: how many requests slip in together                 *)
(***************************************************************************)
\* Handlers that found no open request for the coordinate, or room in the
\* user's pool, and have not inserted yet.
Probed(c)  == {x \in Clients : cl[x].pc \in {"cap", "insert"} /\ cl[x].body.coord = c}
Counted(u) == {x \in Clients : cl[x].pc = "insert" /\ cl[x].body.user = u}

\* Every open request, and every one about to be inserted, belongs to a handler.
RoomForProbed ==
    StoreFaults \/ \A c \in Coords :
        Cardinality(OpenFor(c)) + Cardinality(Probed(c)) <= Cardinality(Clients)
RoomForCounted ==
    StoreFaults \/ PendingCap = 0 \/ \A u \in Users :
        Cardinality(OpenOf(u)) + Cardinality(Counted(u)) <= PendingCap + Cardinality(Clients) - 1

\* A handler past the probe carries what was submitted.
SubmitCarried == \A x \in Clients : cl[x].pc # "idle" => cl[x].body \in Body

\* No row opens and no handler gets past a probe.
Quiet ==
    /\ \A i \in Ids : state'[i] \in OpenStates => state[i] \in OpenStates /\ body'[i] = body[i]
    /\ \A x \in Clients : cl'[x].pc \in {"cap", "insert"} => cl'[x] = cl[x]

(* A compare-and-swap of the store never opens a row: every legal          *)
(* transition starts in an open state.                                     *)
LEMMA SwapOpensNothing ==
    ASSUME state \in [Ids -> RequestState \cup {"none"}], NEW i, NEW f, NEW t,
           TransitionRequest(i, f, t)
    PROVE  \A j \in Ids : state'[j] \in OpenStates => state[j] \in OpenStates
  BY DEF TransitionRequest, CanTransitionTo, legalTransitions, OpenStates, RequestState

(* Apart from the three steps of a submit handler, no step opens a row or  *)
(* lets a handler past a probe.                                            *)
LEMMA OnlySubmitsOpen ==
    ASSUME IInv, [Next]_vars
    PROVE  \/ \E x \in Clients : \/ InsertRequest(x) /\ CreateRequest(cl[x].body)
                                 \/ FindDedupTarget(x) \/ CheckPendingCap(x)
           \/ Quiet
<1> USE DEF rowVars, histVars, procVars
<1>s. /\ state \in [Ids -> RequestState \cup {"none"}]
      /\ cl \in [Clients -> ClientRec]
  BY DEF IInv, TypeOK
<1>1. ASSUME NEW x \in Clients, NEW b \in Body, SubmitArrives(x, b) PROVE Quiet
  BY <1>1, <1>s DEF SubmitArrives, Quiet, ClientRec
<1>2. ASSUME NEW x \in Clients, InsertRequest(x), ~CreateRequest(cl[x].body) PROVE Quiet
  BY <1>2, <1>s DEF InsertRequest, Quiet, ClientRec, IdleClient
<1>3. ASSUME NEW x \in Clients, RecordSubmitAudit(x) PROVE Quiet
  BY <1>3, <1>s DEF RecordSubmitAudit, Quiet, ClientRec, IdleClient
<1>4. ASSUME NEW r \in Reviewers, ReviewTransition(r) PROVE Quiet
  BY <1>4, <1>s, SwapOpensNothing DEF ReviewTransition, TransitionLost, Quiet
<1>5. ASSUME NEW w \in PfWorkers, NEW i \in pw[w].cand, PfClaim(w, i) PROVE Quiet
  BY <1>5, <1>s, SwapOpensNothing DEF PfClaim, TransitionLost, Quiet
<1>6. ASSUME NEW w \in PfWorkers, PfVerdict(w) PROVE Quiet
  <2>1. UNCHANGED <<body, cl>>
    BY <1>6 DEF PfVerdict
  <2>2. \/ \E v \in CheckVerdicts(body[pw[w].id]) : TransitionRequest(pw[w].id, "preflighting", v)
        \/ UNCHANGED state
    BY <1>6 DEF PfVerdict, TransitionLost
  <2> QED
    BY <1>s, <2>1, <2>2, SwapOpensNothing DEF Quiet
<1>7. ASSUME NEW w \in AdWorkers, NEW i \in Ids, NEW seen \in AdmitCandidates, AdClaim(w, i, seen)
      PROVE  Quiet
  BY <1>7, <1>s, SwapOpensNothing DEF AdClaim, TransitionLost, Quiet
<1>8. ASSUME NEW w \in AdWorkers, Succeed(w) \/ Fail(w) PROVE Quiet
  <2>1. UNCHANGED <<body, cl>>
    BY <1>8 DEF Succeed, Fail, AdOutcome
  <2>2. (\E t : TransitionRequest(aw[w].id, "fetching", t)) \/ UNCHANGED state
    BY <1>8 DEF Succeed, Fail, AdOutcome, TransitionLost
  <2> QED
    BY <1>s, <2>1, <2>2, SwapOpensNothing DEF Quiet
<1>9. ASSUME BootSweep PROVE Quiet
  BY <1>9, <1>s DEF BootSweep, ReclaimStuckFetching, Quiet, OpenStates, RequestState
<1>10. CASE Exit
  BY <1>10, <1>s DEF Exit, IdleClient, Quiet
<1>11. CASE \/ \E r \in Reviewers : \/ \E i \in Ids, to \in {"approved", "denied"} : ReviewReads(r, i, to)
                                  \/ ReviewAudit(r)
            \/ \E w \in PfWorkers : PfList(w) \/ PfAudit(w) \/ PfCancelled(w)
            \/ \E w \in AdWorkers : AdList(w) \/ AdmitOne(w) \/ AdBackoff(w) \/ AdAudit(w)
                                    \/ AdPurge(w) \/ AdCancelled(w)
            \/ \E i \in Ids : Age(i)
            \/ Boot \/ Terminate
            \/ UNCHANGED vars
  <2>1. UNCHANGED <<state, body, cl>>
    BY <1>11 DEF ReviewReads, ReviewAudit, PfList, PfAudit, PfCancelled, AdList, AdmitOne, AdBackoff,
       AdAudit, AdPurge, AdCancelled, Age, Boot, Terminate, vars
  <2> QED
    BY <2>1 DEF Quiet
<1> QED
  BY <1>1, <1>2, <1>3, <1>4, <1>5, <1>6, <1>7, <1>8, <1>9, <1>10, <1>11
     DEF Next, ClientStep, ReviewerStep, PfStep, AdStep

(* A handler keeps the submitted body until it is idle again.              *)
LEMMA StepSubmitCarried == IInv /\ SubmitCarried /\ [Next]_vars => SubmitCarried'
<1> SUFFICES ASSUME IInv, SubmitCarried, [Next]_vars PROVE SubmitCarried'
  OBVIOUS
<1>s. cl \in [Clients -> ClientRec]
  BY DEF IInv, TypeOK
<1>1. ASSUME NEW x \in Clients, NEW b \in Body, SubmitArrives(x, b) PROVE SubmitCarried'
  BY <1>1, <1>s DEF SubmitArrives, SubmitCarried, ClientRec
<1>2. ASSUME NEW x \in Clients, ClientStep(x) PROVE SubmitCarried'
  BY <1>2, <1>s DEF ClientStep, FindDedupTarget, CheckPendingCap, InsertRequest, RecordSubmitAudit,
     SubmitCarried, ClientRec, IdleClient
<1>3. CASE Exit
  BY <1>3 DEF Exit, SubmitCarried, IdleClient
<1>4. CASE UNCHANGED cl
  BY <1>4 DEF SubmitCarried
<1>5. ASSUME NEW r \in Reviewers,
             (\E i \in Ids, to \in {"approved", "denied"} : ReviewReads(r, i, to)) \/ ReviewerStep(r)
      PROVE  UNCHANGED cl
  BY <1>5 DEF ReviewReads, ReviewerStep, ReviewTransition, ReviewAudit
<1>6. ASSUME NEW w \in PfWorkers, PfStep(w) PROVE UNCHANGED cl
  BY <1>6 DEF PfStep, PfList, PfClaim, PfVerdict, PfAudit, PfCancelled
<1>7. ASSUME NEW w \in AdWorkers, AdStep(w) PROVE UNCHANGED cl
  BY <1>7 DEF AdStep, AdList, AdClaim, AdmitOne, AdBackoff, Succeed, Fail, AdOutcome, AdAudit, AdPurge, AdCancelled
<1>8. CASE (\E i \in Ids : Age(i)) \/ BootSweep \/ Boot \/ Terminate \/ UNCHANGED vars
  BY <1>4, <1>8 DEF Age, BootSweep, Boot, Terminate, vars
<1> QED
  BY <1>1, <1>2, <1>3, <1>4, <1>5, <1>6, <1>7, <1>8 DEF Next

(* Two finite sets that shrink: so does their sum.                         *)
LEMMA Shrinking ==
    ASSUME NEW S, IsFiniteSet(S), NEW T, IsFiniteSet(T), NEW A \in SUBSET S, NEW B \in SUBSET T
    PROVE  /\ Cardinality(A) \in Nat /\ Cardinality(B) \in Nat
           /\ Cardinality(S) \in Nat /\ Cardinality(T) \in Nat
           /\ Cardinality(A) + Cardinality(B) <= Cardinality(S) + Cardinality(T)
<1>1. IsFiniteSet(A) /\ IsFiniteSet(B) /\ Cardinality(A) <= Cardinality(S) /\ Cardinality(B) <= Cardinality(T)
  BY FS_Subset
<1>2. /\ Cardinality(A) \in Nat /\ Cardinality(B) \in Nat
      /\ Cardinality(S) \in Nat /\ Cardinality(T) \in Nat
  BY <1>1, FS_CardinalityType
<1> QED
  BY <1>1, <1>2

(* A set that gives up an element while another one gains one: their sum   *)
(* does not grow.                                                          *)
LEMMA HandingOver ==
    ASSUME NEW S, IsFiniteSet(S), NEW T, IsFiniteSet(T), NEW i, NEW x \in T,
           NEW A, A \subseteq S \cup {i}, NEW B, B \subseteq T \ {x}
    PROVE  /\ Cardinality(A) \in Nat /\ Cardinality(B) \in Nat
           /\ Cardinality(S) \in Nat /\ Cardinality(T) \in Nat
           /\ Cardinality(A) + Cardinality(B) <= Cardinality(S) + Cardinality(T)
<1>0. Cardinality(S) \in Nat /\ Cardinality(T) \in Nat
  BY FS_CardinalityType
<1>1. IsFiniteSet(S \cup {i}) /\ Cardinality(S \cup {i}) <= Cardinality(S) + 1
  <2>1. /\ IsFiniteSet(S \cup {i})
        /\ Cardinality(S \cup {i}) = IF i \in S THEN Cardinality(S) ELSE Cardinality(S) + 1
    BY FS_AddElement
  <2> QED
    BY <1>0, <2>1
<1>2. IsFiniteSet(T \ {x}) /\ Cardinality(T \ {x}) = Cardinality(T) - 1
  BY FS_RemoveElement
<1>3. /\ Cardinality(A) \in Nat /\ Cardinality(B) \in Nat
      /\ Cardinality(S \cup {i}) \in Nat /\ Cardinality(T \ {x}) \in Nat
      /\ Cardinality(A) + Cardinality(B) <= Cardinality(S \cup {i}) + Cardinality(T \ {x})
  BY <1>1, <1>2, Shrinking
<1> QED
  BY <1>0, <1>1, <1>2, <1>3

(* The sets that are counted are finite.                                   *)
LEMMA CountedFinite ==
    ASSUME IsFiniteSet(Clients), NEW z
    PROVE  /\ IsFiniteSet(OpenFor(z)) /\ IsFiniteSet(OpenOf(z))
           /\ IsFiniteSet(Probed(z)) /\ IsFiniteSet(Counted(z))
           /\ IsFiniteSet(Probed(z)') /\ IsFiniteSet(Counted(z)')
<1>1. IsFiniteSet(Ids)
  BY FS_Interval, BoundsAssumption DEF Ids
<1>2. OpenFor(z) \in SUBSET Ids /\ OpenOf(z) \in SUBSET Ids
  BY DEF OpenFor, OpenOf
<1>3. /\ Probed(z) \in SUBSET Clients /\ Counted(z) \in SUBSET Clients
      /\ Probed(z)' \in SUBSET Clients /\ Counted(z)' \in SUBSET Clients
  BY DEF Probed, Counted
<1> QED
  BY <1>1, <1>2, <1>3, FS_Subset

(* What an insert does to the rows and handlers that are counted.          *)
LEMMA InsertHandsOver ==
    ASSUME IInv, SubmitCarried, NEW x \in Clients, InsertRequest(x), CreateRequest(cl[x].body)
    PROVE  /\ \A c \in Coords : \/ OpenFor(c)' \subseteq OpenFor(c) /\ Probed(c)' \subseteq Probed(c)
                                \/ /\ x \in Probed(c) /\ Probed(c)' \subseteq Probed(c) \ {x}
                                   /\ OpenFor(c)' \subseteq OpenFor(c) \cup {nextId}
           /\ \A u \in Users : \/ OpenOf(u)' \subseteq OpenOf(u) /\ Counted(u)' \subseteq Counted(u)
                               \/ /\ x \in Counted(u) /\ Counted(u)' \subseteq Counted(u) \ {x}
                                  /\ OpenOf(u)' \subseteq OpenOf(u) \cup {nextId}
<1>1. cl[x].pc = "insert" /\ cl[x].body \in Body /\ cl \in [Clients -> ClientRec]
  BY DEF InsertRequest, SubmitCarried, IInv, TypeOK
<1>2. /\ state' = [state EXCEPT ![nextId] = "pending"] /\ body' = [body EXCEPT ![nextId] = cl[x].body]
      /\ state \in [Ids -> RequestState \cup {"none"}] /\ body \in [Ids -> Body \cup {NoBody}]
  BY DEF CreateRequest, IInv, TypeOK
<1>3. \A y \in Clients : cl'[y].pc \in {"cap", "insert"} => y # x /\ cl'[y] = cl[y]
  BY <1>1 DEF InsertRequest, IdleClient, ClientRec
<1>4. \A i \in Ids : i # nextId => state'[i] = state[i] /\ body'[i] = body[i]
  BY <1>2
<1>5. \A i \in Ids : i = nextId => body'[i] = cl[x].body
  BY <1>2
<1>6. ASSUME NEW c \in Coords
      PROVE  \/ OpenFor(c)' \subseteq OpenFor(c) /\ Probed(c)' \subseteq Probed(c)
             \/ /\ x \in Probed(c) /\ Probed(c)' \subseteq Probed(c) \ {x}
                /\ OpenFor(c)' \subseteq OpenFor(c) \cup {nextId}
  <2>1. Probed(c)' \subseteq Probed(c) \ {x}
    BY <1>3 DEF Probed
  <2>2. CASE cl[x].body.coord = c
    BY <1>1, <1>4, <2>1, <2>2 DEF Probed, OpenFor
  <2>3. CASE cl[x].body.coord # c
    BY <1>4, <1>5, <2>1, <2>3 DEF OpenFor
  <2> QED
    BY <2>2, <2>3
<1>7. ASSUME NEW u \in Users
      PROVE  \/ OpenOf(u)' \subseteq OpenOf(u) /\ Counted(u)' \subseteq Counted(u)
             \/ /\ x \in Counted(u) /\ Counted(u)' \subseteq Counted(u) \ {x}
                /\ OpenOf(u)' \subseteq OpenOf(u) \cup {nextId}
  <2>1. Counted(u)' \subseteq Counted(u) \ {x}
    BY <1>3 DEF Counted
  <2>2. CASE cl[x].body.user = u
    BY <1>1, <1>4, <2>1, <2>2 DEF Counted, OpenOf
  <2>3. CASE cl[x].body.user # u
    BY <1>4, <1>5, <2>1, <2>3 DEF OpenOf
  <2> QED
    BY <2>2, <2>3
<1> QED
  BY <1>6, <1>7

(* Every step keeps the sum of the open requests for a coordinate and the  *)
(* handlers that probed for it within the number of handlers, and the sum  *)
(* of a user's open requests and handlers past the cap within its bound.   *)
LEMMA StepRoom ==
    ASSUME IsFiniteSet(Clients), IInv, SubmitCarried, RoomForProbed, RoomForCounted, [Next]_vars
    PROVE  RoomForProbed' /\ RoomForCounted'
<1> USE DEF rowVars
<1> DEFINE n == Cardinality(Clients)
           m == PendingCap + Cardinality(Clients) - 1
<1>c. cl \in [Clients -> ClientRec] /\ n \in Nat /\ PendingCap \in Nat /\ m \in Int
  BY BoundsAssumption, FS_CardinalityType DEF IInv, TypeOK
<1>f. CASE StoreFaults
  BY <1>f DEF RoomForProbed, RoomForCounted
<1>k. SUFFICES ASSUME ~StoreFaults PROVE RoomForProbed' /\ RoomForCounted'
  BY <1>f
<1>r. /\ \A c \in Coords : Cardinality(OpenFor(c)) + Cardinality(Probed(c)) <= n
      /\ PendingCap # 0 => \A u \in Users : Cardinality(OpenOf(u)) + Cardinality(Counted(u)) <= m
  BY <1>k DEF RoomForProbed, RoomForCounted
<1> HIDE DEF n, m
\* What shrinking and handing over do to the two sums.
<1>a. ASSUME NEW c \in Coords,
             \/ OpenFor(c)' \subseteq OpenFor(c) /\ Probed(c)' \subseteq Probed(c)
             \/ \E x \in Probed(c) : \E i : /\ Probed(c)' \subseteq Probed(c) \ {x}
                                            /\ OpenFor(c)' \subseteq OpenFor(c) \cup {i}
      PROVE  Cardinality(OpenFor(c)') + Cardinality(Probed(c)') <= n
  <2>1. Cardinality(OpenFor(c)) + Cardinality(Probed(c)) <= n
    BY <1>r
  <2>2. IsFiniteSet(OpenFor(c)) /\ IsFiniteSet(Probed(c))
    BY CountedFinite
  <2> QED
    <3> DEFINE S == OpenFor(c)
               T == Probed(c)
               A == OpenFor(c)'
               B == Probed(c)'
    <3>1. \/ A \subseteq S /\ B \subseteq T
          \/ \E x \in T : \E i : B \subseteq T \ {x} /\ A \subseteq S \cup {i}
      BY <1>a
    <3>2. IsFiniteSet(S) /\ IsFiniteSet(T) /\ n \in Int /\ Cardinality(S) + Cardinality(T) <= n
      BY <1>c, <2>1, <2>2
    <3> HIDE DEF S, T, A, B
    <3>3. CASE A \subseteq S /\ B \subseteq T
      <4>1. /\ Cardinality(A) \in Nat /\ Cardinality(B) \in Nat
            /\ Cardinality(S) \in Nat /\ Cardinality(T) \in Nat
            /\ Cardinality(A) + Cardinality(B) <= Cardinality(S) + Cardinality(T)
        BY ONLY <3>2, <3>3, Shrinking
      <4> QED
        BY <3>2, <4>1 DEF A, B
    <3>4. ASSUME NEW x \in T, NEW i, B \subseteq T \ {x}, A \subseteq S \cup {i}
          PROVE  Cardinality(A) + Cardinality(B) <= n
      <4>1. /\ Cardinality(A) \in Nat /\ Cardinality(B) \in Nat
            /\ Cardinality(S) \in Nat /\ Cardinality(T) \in Nat
            /\ Cardinality(A) + Cardinality(B) <= Cardinality(S) + Cardinality(T)
        BY ONLY <3>2, <3>4, x \in T, HandingOver
      <4> QED
        BY <3>2, <4>1
    <3> QED
      BY <3>1, <3>3, <3>4 DEF A, B
<1>b. ASSUME NEW u \in Users, PendingCap # 0,
             \/ OpenOf(u)' \subseteq OpenOf(u) /\ Counted(u)' \subseteq Counted(u)
             \/ \E x \in Counted(u) : \E i : /\ Counted(u)' \subseteq Counted(u) \ {x}
                                             /\ OpenOf(u)' \subseteq OpenOf(u) \cup {i}
      PROVE  Cardinality(OpenOf(u)') + Cardinality(Counted(u)') <= m
  <2>1. Cardinality(OpenOf(u)) + Cardinality(Counted(u)) <= m
    BY <1>r, <1>b
  <2>2. IsFiniteSet(OpenOf(u)) /\ IsFiniteSet(Counted(u))
    BY CountedFinite
  <2> QED
    <3> DEFINE S == OpenOf(u)
               T == Counted(u)
               A == OpenOf(u)'
               B == Counted(u)'
    <3>1. \/ A \subseteq S /\ B \subseteq T
          \/ \E x \in T : \E i : B \subseteq T \ {x} /\ A \subseteq S \cup {i}
      BY <1>b
    <3>2. IsFiniteSet(S) /\ IsFiniteSet(T) /\ m \in Int /\ Cardinality(S) + Cardinality(T) <= m
      BY <1>c, <2>1, <2>2
    <3> HIDE DEF S, T, A, B
    <3>3. CASE A \subseteq S /\ B \subseteq T
      <4>1. /\ Cardinality(A) \in Nat /\ Cardinality(B) \in Nat
            /\ Cardinality(S) \in Nat /\ Cardinality(T) \in Nat
            /\ Cardinality(A) + Cardinality(B) <= Cardinality(S) + Cardinality(T)
        BY ONLY <3>2, <3>3, Shrinking
      <4> QED
        BY <3>2, <4>1 DEF A, B
    <3>4. ASSUME NEW x \in T, NEW i, B \subseteq T \ {x}, A \subseteq S \cup {i}
          PROVE  Cardinality(A) + Cardinality(B) <= m
      <4>1. /\ Cardinality(A) \in Nat /\ Cardinality(B) \in Nat
            /\ Cardinality(S) \in Nat /\ Cardinality(T) \in Nat
            /\ Cardinality(A) + Cardinality(B) <= Cardinality(S) + Cardinality(T)
        BY ONLY <3>2, <3>4, x \in T, HandingOver
      <4> QED
        BY <3>2, <4>1
    <3> QED
      BY <3>1, <3>3, <3>4 DEF A, B
<1>g. ASSUME \A c \in Coords : Cardinality(OpenFor(c)') + Cardinality(Probed(c)') <= n,
             \A u \in Users : PendingCap # 0 => Cardinality(OpenOf(u)') + Cardinality(Counted(u)') <= m
      PROVE  RoomForProbed' /\ RoomForCounted'
  BY <1>g DEF RoomForProbed, RoomForCounted, n, m
<1>1. CASE Quiet
  <2>1. \A c \in Coords : OpenFor(c)' \subseteq OpenFor(c) /\ Probed(c)' \subseteq Probed(c)
    BY <1>1 DEF Quiet, OpenFor, Probed
  <2>2. \A u \in Users : OpenOf(u)' \subseteq OpenOf(u) /\ Counted(u)' \subseteq Counted(u)
    BY <1>1 DEF Quiet, OpenOf, Counted
  <2> QED
    BY <1>a, <1>b, <1>g, <2>1, <2>2
<1>2. ASSUME NEW x \in Clients, InsertRequest(x), CreateRequest(cl[x].body)
      PROVE  RoomForProbed' /\ RoomForCounted'
  <2>1. \A c \in Coords : \/ OpenFor(c)' \subseteq OpenFor(c) /\ Probed(c)' \subseteq Probed(c)
                          \/ \E y \in Probed(c) : \E i : /\ Probed(c)' \subseteq Probed(c) \ {y}
                                                         /\ OpenFor(c)' \subseteq OpenFor(c) \cup {i}
    BY <1>2, InsertHandsOver
  <2>2. \A u \in Users : \/ OpenOf(u)' \subseteq OpenOf(u) /\ Counted(u)' \subseteq Counted(u)
                         \/ \E y \in Counted(u) : \E i : /\ Counted(u)' \subseteq Counted(u) \ {y}
                                                         /\ OpenOf(u)' \subseteq OpenOf(u) \cup {i}
    BY <1>2, InsertHandsOver
  <2> QED
    BY <1>a, <1>b, <1>g, <2>1, <2>2
<1>3. ASSUME NEW x \in Clients, FindDedupTarget(x) PROVE RoomForProbed' /\ RoomForCounted'
  <2>0. UNCHANGED <<state, body>>
    BY <1>3 DEF FindDedupTarget
  <2>1. \A u \in Users : OpenOf(u)' \subseteq OpenOf(u) /\ Counted(u)' \subseteq Counted(u)
    BY <1>c, <1>3, <1>k, <2>0 DEF FindDedupTarget, OpenOf, Counted, ClientRec, IdleClient
  <2>2. ASSUME NEW c \in Coords PROVE Cardinality(OpenFor(c)') + Cardinality(Probed(c)') <= n
    <3>1. OpenFor(c)' = OpenFor(c)
      BY <2>0 DEF OpenFor
    <3>2. CASE Probed(c)' \subseteq Probed(c)
      BY <1>a, <3>1, <3>2
    <3>3. CASE ~(Probed(c)' \subseteq Probed(c))
      <4>1. cl[x].body.coord = c /\ ~DedupHit(x)
        BY <1>c, <1>3, <1>k, <3>3 DEF FindDedupTarget, Probed, ClientRec, IdleClient
      <4>2. OpenFor(c)' = {}
        BY <3>1, <4>1 DEF DedupHit
      <4>3. Probed(c)' \in SUBSET Clients
        BY DEF Probed
      <4>4. Cardinality(OpenFor(c)') = 0
        BY <4>2, FS_EmptySet
      <4>5. Cardinality(Probed(c)') \in Nat /\ Cardinality(Probed(c)') <= Cardinality(Clients)
        BY <4>3, FS_Subset, FS_CardinalityType
      <4> QED
        BY <1>c, <4>4, <4>5 DEF n
    <3> QED
      BY <3>2, <3>3
  <2> QED
    BY <1>b, <1>g, <2>1, <2>2
<1>4. ASSUME NEW x \in Clients, CheckPendingCap(x) PROVE RoomForProbed' /\ RoomForCounted'
  <2>0. UNCHANGED <<state, body>>
    BY <1>4 DEF CheckPendingCap
  <2>1. \A c \in Coords : OpenFor(c)' \subseteq OpenFor(c) /\ Probed(c)' \subseteq Probed(c)
    BY <1>c, <1>4, <1>k, <2>0 DEF CheckPendingCap, OpenFor, Probed, ClientRec, IdleClient
  <2>2. ASSUME NEW u \in Users, PendingCap # 0
        PROVE  Cardinality(OpenOf(u)') + Cardinality(Counted(u)') <= m
    <3>1. OpenOf(u)' = OpenOf(u)
      BY <2>0 DEF OpenOf
    <3>2. CASE Counted(u)' \subseteq Counted(u)
      BY <1>b, <2>2, <3>1, <3>2
    <3>3. CASE ~(Counted(u)' \subseteq Counted(u))
      <4>1. cl[x].body.user = u /\ UnderCap(u)
        BY <1>c, <1>4, <1>k, <3>3 DEF CheckPendingCap, Counted, ClientRec, IdleClient
      <4>2. Cardinality(OpenOf(u)') < PendingCap
        BY <2>2, <3>1, <4>1 DEF UnderCap
      <4>3. Counted(u)' \in SUBSET Clients
        BY DEF Counted
      <4>4. Cardinality(OpenOf(u)') \in Nat
        BY <3>1, CountedFinite, FS_CardinalityType
      <4>5. Cardinality(Counted(u)') \in Nat /\ Cardinality(Counted(u)') <= Cardinality(Clients)
        BY <4>3, FS_Subset, FS_CardinalityType
      <4> QED
        BY <1>c, <4>2, <4>4, <4>5 DEF n, m
    <3> QED
      BY <3>2, <3>3
  <2> QED
    BY <1>a, <1>g, <2>1, <2>2
<1> QED
  BY <1>1, <1>2, <1>3, <1>4, OnlySubmitsOpen

(* The bounds of the submit handlers are invariants.                       *)
LEMMA SubmitsBounded ==
    ASSUME IsFiniteSet(Clients)
    PROVE  Spec => [](DedupBound /\ PendingCapOvershoot)
<1> DEFINE Room == IInv /\ SubmitCarried /\ RoomForProbed /\ RoomForCounted
<1>1. Init => Room
  <2> SUFFICES ASSUME Init PROVE Room
    OBVIOUS
  <2>1. IInv /\ SubmitCarried
    BY InitIInv DEF Init, SubmitCarried, IdleClient
  <2>2. \A z : OpenFor(z) = {} /\ OpenOf(z) = {} /\ Probed(z) = {} /\ Counted(z) = {}
    BY DEF Init, OpenFor, OpenOf, Probed, Counted, IdleClient, OpenStates, RequestState
  <2>3. Cardinality({}) = 0 /\ Cardinality(Clients) \in Nat /\ PendingCap \in Nat
    BY FS_EmptySet, FS_CardinalityType, BoundsAssumption
  <2>4. \A z : /\ Cardinality(OpenFor(z)) = 0 /\ Cardinality(OpenOf(z)) = 0
               /\ Cardinality(Probed(z)) = 0 /\ Cardinality(Counted(z)) = 0
    BY <2>2, <2>3
  <2>5. RoomForProbed /\ RoomForCounted
    BY <2>3, <2>4 DEF RoomForProbed, RoomForCounted
  <2> QED
    BY <2>1, <2>5
<1>2. Room /\ [Next]_vars => Room'
  BY StepIInv, StepSubmitCarried, StepRoom
<1>3. Room => DedupBound /\ PendingCapOvershoot
  <2> SUFFICES ASSUME Room, ~StoreFaults PROVE DedupBound /\ PendingCapOvershoot
    BY DEF DedupBound, PendingCapOvershoot
  <2>1. Cardinality(Clients) \in Nat /\ PendingCap \in Nat
    BY FS_CardinalityType, BoundsAssumption
  <2>2. \A z : /\ Cardinality(OpenFor(z)) \in Nat /\ Cardinality(OpenOf(z)) \in Nat
               /\ Cardinality(Probed(z)) \in Nat /\ Cardinality(Counted(z)) \in Nat
    BY CountedFinite, FS_CardinalityType
  <2> QED
    BY <2>1, <2>2 DEF RoomForProbed, RoomForCounted, DedupBound, PendingCapOvershoot
<1> QED
  BY <1>1, <1>2, <1>3, PTL DEF Spec

(* However many submit handlers race between findDedupTarget and           *)
(* CreateRequest, over any number of restarts, a working store never holds *)
(* more open requests for a coordinate than handlers run at once: a        *)
(* handler that probes after an insert finds it.                           *)
THEOREM DuplicatesStayBounded ==
    ASSUME IsFiniteSet(Clients) PROVE Spec => []DedupBound
  BY SubmitsBounded, PTL

(* checkPendingCap counts before the insert: a user gets past the cap by   *)
(* at most the handlers that counted together, less one.                   *)
THEOREM OvershootStaysBounded ==
    ASSUME IsFiniteSet(Clients) PROVE Spec => []PendingCapOvershoot
  BY SubmitsBounded, PTL

(* Both at once: what racing submit handlers can get past the checks of    *)
(* apiSubmitRequest, for any number of handlers, users and coordinates.    *)
THEOREM SubmitRacesStayBounded ==
    ASSUME IsFiniteSet(Clients) PROVE Spec => []SubmitRacesBounded
<1>1. DedupBound /\ PendingCapOvershoot => SubmitRacesBounded
  BY DEF SubmitRacesBounded
<1> QED
  BY <1>1, SubmitsBounded, PTL

-----------------------------------------------------------------------------
(***************************************************************************)
(* One uninterrupted lifetime: what the admit runner ends is audited       *)
(***************************************************************************)
EndKind == {"admit_success", "admit_failure"}

\* The process is not stopped and not started again.
OneLife == proc # "stopping" /\ (proc = "up" => boots = 1)

\* No row is left in fetching without a worker, so the boot sweep finds none.
FetchingHeld ==
    \A i \in Ids : state[i] = "fetching" => \E w \in AdWorkers : aw[w].pc \in Holding /\ aw[w].id = i

\* An attempted row is being fetched or has ended.
AttemptedRows == \A i \in Ids : attempts[i] > 0 => state[i] \in {"fetching", "indexed", "denied"}

\* The worker that published is on its way to report success.
PublishedRows ==
    /\ \A i \in pub : state[i] \in {"fetching", "indexed"}
    /\ \A w \in AdWorkers : aw[w].pc \in Holding /\ aw[w].id \in pub => aw[w].pc = "succeed"

\* A row is ended in the log after it is ended in the table, by the one
\* worker that ended it.
EndedOnce ==
    /\ \A i \in Ids : state[i] \notin {"indexed", "denied"} => Ended(i) = {}
    /\ \A w \in AdWorkers : aw[w].pc = "audit" =>
          /\ state[aw[w].id] \in {"indexed", "denied"}
          /\ Ended(aw[w].id) = {} /\ aw[w].kind \in EndKind
          /\ \A v \in AdWorkers : aw[v].pc = "audit" /\ aw[v].id = aw[w].id => v = w
EndedRows ==
    \A i \in Ids : attempts[i] > 0 /\ state[i] \in {"indexed", "denied"} =>
        \/ \E k \in EndKind : Ended(i) = {k}
        \/ \E w \in AdWorkers : aw[w].pc = "audit" /\ aw[w].id = i

\* A preflight worker never writes an event of the admit runner.
PreflightKinds ==
    \A w \in PfWorkers : pw[w].pc = "audit" => pw[w].kind \notin EndKind

LifeInv == /\ OneLife /\ FetchingHeld /\ AttemptedRows /\ PublishedRows
           /\ EndedOnce /\ EndedRows /\ PreflightKinds

(* The event that ends a row is one of the two kinds.                      *)
LEMMA EndedIs ==
    /\ \A i : Ended(i) = {k \in EndKind : <<i, k>> \in audit}
    /\ \A i : Ended(i)' = {k \in EndKind : <<i, k>> \in audit'}
  BY DEF Ended, EndKind, Kind

(* Steps that leave the admit runner alone and keep rows that it holds or  *)
(* has ended.                                                              *)
Aside ==
    /\ UNCHANGED <<aw, attempts, pub>>
    /\ \A i \in Ids : Ended(i)' = Ended(i)
    /\ \A i \in Ids : \/ state'[i] = state[i]
                      \/ state[i] \notin {"fetching", "indexed", "denied"} /\ state'[i] # "fetching"

(* Such a step keeps what is said of the rows the admit runner ended.      *)
LEMMA AsideKeeps ==
    ASSUME IInv, LifeInv, Aside
    PROVE  (FetchingHeld /\ AttemptedRows /\ PublishedRows /\ EndedOnce /\ EndedRows)'
<1>a. aw' = aw /\ attempts' = attempts /\ pub' = pub
  BY DEF Aside
<1>b. \A i \in Ids : Ended(i)' = Ended(i)
  BY DEF Aside
<1>c. \A i \in Ids : \/ state'[i] = state[i]
                     \/ state[i] \notin {"fetching", "indexed", "denied"} /\ state'[i] # "fetching"
  BY DEF Aside
<1>i. pub \in SUBSET Ids /\ \A w \in AdWorkers : aw[w].pc = "audit" => aw[w].id \in Ids
  BY DEF IInv, TypeOK, AwCarried
<1>1. FetchingHeld'
  BY <1>a, <1>c DEF LifeInv, FetchingHeld
<1>2. AttemptedRows'
  BY <1>a, <1>c DEF LifeInv, AttemptedRows
<1>3. PublishedRows'
  BY <1>a, <1>c, <1>i DEF LifeInv, PublishedRows
<1>4. EndedOnce'
  <2>1. \A i \in Ids : state'[i] \notin {"indexed", "denied"} => Ended(i)' = {}
    BY <1>b, <1>c DEF LifeInv, EndedOnce
  <2>2. ASSUME NEW w \in AdWorkers, aw'[w].pc = "audit"
        PROVE  /\ state'[aw'[w].id] \in {"indexed", "denied"}
               /\ Ended(aw[w].id)' = {} /\ aw'[w].kind \in EndKind
               /\ \A v \in AdWorkers : aw'[v].pc = "audit" /\ aw'[v].id = aw'[w].id => v = w
    <3>1. aw[w].id \in Ids /\ aw[w].pc = "audit"
      BY <1>a, <1>i, <2>2
    <3>2. /\ state[aw[w].id] \in {"indexed", "denied"}
          /\ Ended(aw[w].id) = {} /\ aw[w].kind \in EndKind
          /\ \A v \in AdWorkers : aw[v].pc = "audit" /\ aw[v].id = aw[w].id => v = w
      BY <3>1 DEF LifeInv, EndedOnce
    <3>3. PICK j \in Ids : j = aw[w].id
      BY <3>1
    <3>4. Ended(j)' = {}
      BY <1>b, <3>2, <3>3
    <3> QED
      BY <1>a, <1>c, <3>1, <3>2, <3>3, <3>4
  <2> QED
    BY <1>a, <2>1, <2>2 DEF EndedOnce
<1>5. EndedRows'
  BY <1>a, <1>b, <1>c DEF LifeInv, EndedRows, AttemptedRows
<1> QED
  BY <1>1, <1>2, <1>3, <1>4, <1>5

(* Handlers, preflight workers, time, boot and the boot sweep are such     *)
(* steps.                                                                  *)
LEMMA AsideSteps ==
    ASSUME IInv, LifeInv, ~StoreFaults, [Next]_vars
    PROVE  Aside \/ Terminate \/ Exit \/ \E w \in AdWorkers : AdStep(w)
<1> USE DEF rowVars, histVars, procVars
<1>s. state \in [Ids -> RequestState \cup {"none"}] /\ pw \in [PfWorkers -> PfRec]
  BY DEF IInv, TypeOK
\* A compare-and-swap of a handler or a preflight worker.
<1>t. ASSUME NEW i, NEW f \in {"pending", "preflighting", "needs_review"}, NEW t, t # "fetching",
             TransitionRequest(i, f, t)
      PROVE  \A j \in Ids : \/ state'[j] = state[j]
                            \/ state[j] \notin {"fetching", "indexed", "denied"} /\ state'[j] # "fetching"
  BY <1>t, <1>s DEF TransitionRequest
<1>e. ASSUME NEW i, NEW k, k \notin EndKind, audit' = audit \cup {<<i, k>>}
      PROVE  \A j \in Ids : Ended(j)' = Ended(j)
  BY <1>e, EndedIs
<1>f. ASSUME UNCHANGED audit PROVE \A j \in Ids : Ended(j)' = Ended(j)
  BY <1>f, EndedIs
<1>1. ASSUME NEW c \in Clients, (\E b \in Body : SubmitArrives(c, b)) \/ FindDedupTarget(c) \/ CheckPendingCap(c)
      PROVE  Aside
  <2>1. UNCHANGED <<state, audit, aw, attempts, pub>>
    BY <1>1 DEF SubmitArrives, FindDedupTarget, CheckPendingCap
  <2> QED
    BY <1>f, <2>1 DEF Aside
<1>2. ASSUME NEW c \in Clients, InsertRequest(c) PROVE Aside
  <2>1. UNCHANGED <<audit, aw, attempts, pub>>
    BY <1>2 DEF InsertRequest
  <2>2. \/ UNCHANGED state
        \/ state' = [state EXCEPT ![nextId] = "pending"] /\ state[nextId] = "none" /\ nextId \in Ids
    BY <1>2, BoundsAssumption DEF InsertRequest, CreateRequest, IInv, TypeOK, FreshRows, Ids
  <2> QED
    BY <1>f, <1>s, <2>1, <2>2 DEF Aside
<1>3. ASSUME NEW c \in Clients, RecordSubmitAudit(c) PROVE Aside
  <2>1. UNCHANGED <<state, aw, attempts, pub>> /\ audit' = audit \cup {<<cl[c].id, "request_submitted">>}
    BY <1>3 DEF RecordSubmitAudit, RecordAudit
  <2>2. \A j \in Ids : Ended(j)' = Ended(j)
    BY <1>e, <2>1 DEF EndKind
  <2> QED
    BY <2>1, <2>2 DEF Aside
<1>4. ASSUME NEW r \in Reviewers, \E i \in Ids, to \in {"approved", "denied"} : ReviewReads(r, i, to)
      PROVE  Aside
  <2>1. UNCHANGED <<state, audit, aw, attempts, pub>>
    BY <1>4 DEF ReviewReads
  <2> QED
    BY <1>f, <2>1 DEF Aside
<1>5. ASSUME NEW r \in Reviewers, ReviewTransition(r) PROVE Aside
  <2>1. UNCHANGED <<audit, aw, attempts, pub>>
    BY <1>5 DEF ReviewTransition
  <2>2. /\ rv[r].seen \in {"pending", "preflighting", "needs_review"} /\ rv[r].to # "fetching"
        /\ TransitionRequest(rv[r].id, rv[r].seen, rv[r].to) \/ UNCHANGED state
    BY <1>5 DEF ReviewTransition, TransitionLost, IInv, RvCarried, AllowedFroms
  <2> QED
    BY <1>f, <1>t, <2>1, <2>2 DEF Aside
<1>6. ASSUME NEW r \in Reviewers, ReviewAudit(r) PROVE Aside
  <2>1. UNCHANGED <<state, aw, attempts, pub>>
    BY <1>6 DEF ReviewAudit
  <2>2. \E k \in {"request_approved", "request_denied"} : audit' = audit \cup {<<rv[r].id, k>>}
    BY <1>6 DEF ReviewAudit, RecordAudit
  <2> QED
    BY <1>e, <2>1, <2>2 DEF Aside, EndKind
<1>7. ASSUME NEW w \in PfWorkers, PfList(w) \/ PfCancelled(w) PROVE Aside
  <2>1. UNCHANGED <<state, audit, aw, attempts, pub>>
    BY <1>7 DEF PfList, PfCancelled
  <2> QED
    BY <1>f, <2>1 DEF Aside
<1>8. ASSUME NEW w \in PfWorkers, NEW i \in pw[w].cand, PfClaim(w, i) PROVE Aside
  <2>1. UNCHANGED <<audit, aw, attempts, pub>>
    BY <1>8 DEF PfClaim
  <2>2. TransitionRequest(i, "pending", "preflighting") \/ UNCHANGED state
    BY <1>8 DEF PfClaim, TransitionLost
  <2> QED
    BY <1>f, <1>t, <2>1, <2>2 DEF Aside
<1>9. ASSUME NEW w \in PfWorkers, PfVerdict(w) PROVE Aside
  <2>1. UNCHANGED <<audit, aw, attempts, pub>>
    BY <1>9 DEF PfVerdict
  <2>2. \/ \E v \in {"auto_pass", "needs_review", "denied"} : TransitionRequest(pw[w].id, "preflighting", v)
        \/ UNCHANGED state
    BY <1>9 DEF PfVerdict, TransitionLost, CheckVerdicts
  <2> QED
    BY <1>f, <1>t, <2>1, <2>2 DEF Aside
<1>10. ASSUME NEW w \in PfWorkers, PfAudit(w) PROVE Aside
  <2>1. UNCHANGED <<state, aw, attempts, pub>> /\ audit' = audit \cup {<<pw[w].id, pw[w].kind>>}
    BY <1>10 DEF PfAudit, RecordAudit
  <2>2. pw[w].kind \notin EndKind
    BY <1>10 DEF PfAudit, LifeInv, PreflightKinds
  <2> QED
    BY <1>e, <2>1, <2>2 DEF Aside
<1>11. CASE BootSweep
  <2>1. UNCHANGED <<audit, aw, attempts, pub>>
    BY <1>11 DEF BootSweep
  <2>2. \A w \in AdWorkers : aw[w].pc = "idle"
    BY <1>11 DEF BootSweep, IInv, Phases
  <2>3. \A i \in Ids : state[i] # "fetching"
    BY <2>2 DEF LifeInv, FetchingHeld, Holding
  <2>4. \A i \in Ids : state'[i] = state[i]
    BY <1>11, <2>3 DEF BootSweep, ReclaimStuckFetching
  <2> QED
    BY <1>f, <2>1, <2>4 DEF Aside
<1>12. CASE (\E i \in Ids : Age(i)) \/ Boot \/ UNCHANGED vars
  <2>1. UNCHANGED <<state, audit, aw, attempts, pub>>
    BY <1>12 DEF Age, Boot, vars
  <2> QED
    BY <1>f, <2>1 DEF Aside
<1> QED
  BY <1>1, <1>2, <1>3, <1>4, <1>5, <1>6, <1>7, <1>8, <1>9, <1>10, <1>11, <1>12
     DEF Next, ClientStep, ReviewerStep, PfStep

(* The steps of an admit worker.                                           *)
LEMMA AdmitKeeps ==
    ASSUME IInv, LifeInv, ~StoreFaults, NEW w \in AdWorkers, AdStep(w)
    PROVE  (FetchingHeld /\ AttemptedRows /\ PublishedRows /\ EndedOnce /\ EndedRows)'
<1> USE DEF rowVars, histVars, procVars
<1> DEFINE Goal == (FetchingHeld /\ AttemptedRows /\ PublishedRows /\ EndedOnce /\ EndedRows)'
<1>s. /\ state \in [Ids -> RequestState \cup {"none"}] /\ aw \in [AdWorkers -> AdRec]
      /\ attempts \in [Ids -> Nat] /\ pub \in SUBSET Ids
  BY DEF IInv, TypeOK
<1>i. \A v \in AdWorkers : aw[v].pc \in Holding \cup {"audit", "purge"} => aw[v].id \in Ids
  BY DEF IInv, AwCarried
<1>o. AdOwnership
  BY DEF IInv
<1>l. proc # "stopping" /\ FetchingHeld /\ AttemptedRows /\ PublishedRows /\ EndedOnce /\ EndedRows
  BY DEF LifeInv, OneLife
\* A worker that moves between two points where it holds the same row, or none.
<1>m. ASSUME UNCHANGED <<state, attempts, pub>>, \A i \in Ids : Ended(i)' = Ended(i),
             \A v \in AdWorkers : v # w => aw'[v] = aw[v],
             \/ aw[w].pc \notin Holding \cup {"audit"} /\ aw'[w].pc \notin Holding \cup {"audit"}
             \/ /\ aw[w].pc \in Holding \ {"succeed"} /\ aw'[w].pc \in Holding
                /\ aw'[w].id = aw[w].id
      PROVE  Goal
  <2>1. FetchingHeld'
    BY <1>m, <1>l DEF FetchingHeld
  <2>2. AttemptedRows'
    BY <1>m, <1>l DEF AttemptedRows
  <2>3. PublishedRows'
    BY <1>m, <1>l DEF PublishedRows, Holding
  <2>4. EndedOnce'
    <3>1. \A i \in Ids : state'[i] \notin {"indexed", "denied"} => Ended(i)' = {}
      BY <1>m, <1>l DEF EndedOnce
    <3>2. \A v \in AdWorkers : aw'[v].pc = "audit" => aw[v].pc = "audit" /\ aw'[v] = aw[v]
      BY <1>m DEF Holding
    <3>3. ASSUME NEW v \in AdWorkers, aw'[v].pc = "audit"
          PROVE  /\ state'[aw'[v].id] \in {"indexed", "denied"}
                 /\ Ended(aw[v].id)' = {} /\ aw'[v].kind \in EndKind
                 /\ \A u \in AdWorkers : aw'[u].pc = "audit" /\ aw'[u].id = aw'[v].id => u = v
      <4>1. PICK j \in Ids : j = aw[v].id
        BY <1>i, <3>2, <3>3
      <4>2. Ended(j)' = {}
        BY <1>m, <1>l, <3>2, <3>3, <4>1 DEF EndedOnce
      <4>3. j = aw'[v].id
        BY <3>2, <3>3, <4>1
      <4>4. Ended(aw[v].id)' = {}
        BY <4>2, <4>3
      <4> QED
        BY <1>m, <1>l, <3>2, <3>3, <4>4 DEF EndedOnce
    <3> QED
      BY <3>1, <3>3 DEF EndedOnce
  <2>5. EndedRows'
    <3>1. \A v \in AdWorkers : aw[v].pc = "audit" => aw'[v] = aw[v]
      BY <1>m DEF Holding
    <3> QED
      BY <1>m, <1>l, <3>1 DEF EndedRows
  <2> QED
    BY <2>1, <2>2, <2>3, <2>4, <2>5
<1>e. ASSUME UNCHANGED audit PROVE \A i \in Ids : Ended(i)' = Ended(i)
  BY <1>e, EndedIs
<1>1. CASE AdList(w)
  BY <1>1, <1>e, <1>m, <1>s DEF AdList, AdRec, Holding
<1>2. ASSUME NEW i \in Ids, NEW seen \in AdmitCandidates, AdClaim(w, i, seen) PROVE Goal
  <2>0. UNCHANGED <<attempts, pub, audit>>
    BY <1>2 DEF AdClaim
  <2>1. CASE TransitionLost(i, seen) /\ aw' = [aw EXCEPT ![w].cand = @ \ {<<i, seen>>},
                     ![w].pc = IF aw[w].cand = {<<i, seen>>} THEN "idle" ELSE "claim"]
    BY <1>2, <1>e, <1>m, <1>s, <2>0, <2>1 DEF AdClaim, TransitionLost, AdRec, Holding
  <2>2. CASE TransitionRequest(i, seen, "fetching") /\ aw' = [aw EXCEPT ![w] = [IdleAd EXCEPT !.pc = "admit", !.id = i]]
    <3>1. /\ state' = [state EXCEPT ![i] = "fetching"] /\ state[i] \in {"auto_pass", "approved"}
          /\ aw'[w].pc = "admit" /\ aw'[w].id = i /\ \A v \in AdWorkers : v # w => aw'[v] = aw[v]
      BY <1>s, <2>2 DEF TransitionRequest, AdmitCandidates, IdleAd
    <3>2. aw[w].pc = "claim"
      BY <1>2 DEF AdClaim
    <3>3. FetchingHeld'
      BY <1>l, <1>s, <3>1, <3>2 DEF FetchingHeld, Holding
    <3>4. AttemptedRows'
      BY <1>l, <1>s, <2>0, <3>1 DEF AttemptedRows
    <3>5. i \notin pub
      BY <1>l, <3>1 DEF PublishedRows
    <3>6. PublishedRows'
      BY <1>l, <1>s, <2>0, <3>1, <3>5 DEF PublishedRows
    <3>7. EndedOnce'
      <4>1. \A j \in Ids : state'[j] \notin {"indexed", "denied"} => Ended(j)' = {}
        BY <1>e, <1>l, <1>s, <2>0, <3>1 DEF EndedOnce
      <4>2. \A v \in AdWorkers : aw'[v].pc = "audit" => aw[v].pc = "audit" /\ aw'[v] = aw[v]
        BY <3>1
      <4>3. ASSUME NEW v \in AdWorkers, aw'[v].pc = "audit"
            PROVE  /\ state'[aw'[v].id] \in {"indexed", "denied"}
                   /\ Ended(aw[v].id)' = {} /\ aw'[v].kind \in EndKind
                   /\ \A u \in AdWorkers : aw'[u].pc = "audit" /\ aw'[u].id = aw'[v].id => u = v
        <5>1. PICK j \in Ids : j = aw[v].id
          BY <1>i, <4>2, <4>3
        <5>2. Ended(j) = {} /\ state[j] \in {"indexed", "denied"}
          BY <1>l, <4>2, <4>3, <5>1 DEF EndedOnce
        <5>3. Ended(j)' = {} /\ j = aw'[v].id
          BY <1>e, <2>0, <4>2, <4>3, <5>1, <5>2
        <5>4. Ended(aw[v].id)' = {}
          BY <5>3
        <5>5. state'[j] \in {"indexed", "denied"}
          BY <1>s, <3>1, <5>2
        <5> QED
          BY <1>l, <4>2, <4>3, <5>3, <5>4, <5>5 DEF EndedOnce
      <4> QED
        BY <4>1, <4>3 DEF EndedOnce
    <3>8. EndedRows'
      <4>1. \A v \in AdWorkers : aw[v].pc = "audit" => aw'[v] = aw[v]
        BY <3>1, <3>2
      <4> QED
        BY <1>e, <1>l, <1>s, <2>0, <3>1, <4>1 DEF EndedRows
    <3> QED
      BY <3>3, <3>4, <3>6, <3>7, <3>8
  <2> QED
    BY <1>2, <2>1, <2>2 DEF AdClaim
<1>3. CASE AdmitOne(w)
  <2> DEFINE i == aw[w].id
  <2>0. /\ UNCHANGED <<state, audit>> /\ aw[w].pc = "admit" /\ i \in Ids
        /\ attempts' = [attempts EXCEPT ![i] = @ + 1]
    BY <1>3, <1>i DEF AdmitOne, Holding
  <2>1. /\ \A v \in AdWorkers : v # w => aw'[v] = aw[v]
        /\ aw'[w].pc \in {"succeed", "backoff", "fail"} /\ aw'[w].id = i
        /\ (pub' = pub \/ (pub' = pub \cup {i} /\ aw'[w].pc = "succeed"))
    <3>1. \/ aw' = [aw EXCEPT ![w].pc = "succeed"] /\ pub' = pub \cup {i}
          \/ aw' = [aw EXCEPT ![w].pc = "backoff"] /\ pub' = pub
          \/ aw' = [aw EXCEPT ![w].pc = "fail"] /\ pub' = pub
      <4>1. CASE RetriesLeft(w)
        BY <1>3, <4>1 DEF AdmitOne
      <4>2. CASE ~RetriesLeft(w)
        BY <1>3, <4>2 DEF AdmitOne
      <4> QED
        BY <4>1, <4>2
    <3>2. ASSUME NEW p, aw' = [aw EXCEPT ![w].pc = p]
          PROVE  aw'[w].pc = p /\ aw'[w].id = i /\ \A v \in AdWorkers : v # w => aw'[v] = aw[v]
      BY <1>s, <3>2 DEF AdRec
    <3> QED
      BY <3>1, <3>2
  <2>2. state[i] = "fetching"
    BY <1>o, <2>0 DEF AdOwnership, Holding
  <2>3. FetchingHeld'
    BY <1>l, <2>0, <2>1 DEF FetchingHeld, Holding
  <2>4. AttemptedRows'
    BY <1>l, <1>s, <2>0, <2>2 DEF AttemptedRows
  <2>5. PublishedRows'
    <3>1. \A j \in pub' : state'[j] \in {"fetching", "indexed"}
      BY <1>l, <2>0, <2>1, <2>2 DEF PublishedRows
    <3>2. i \notin pub
      BY <1>l, <2>0 DEF PublishedRows, Holding
    <3>3. ASSUME NEW v \in AdWorkers, aw'[v].pc \in Holding, aw'[v].id \in pub' PROVE aw'[v].pc = "succeed"
      <4>1. CASE v = w
        BY <2>1, <3>2, <3>3, <4>1
      <4>2. CASE v # w
        <5>1. aw[v].pc \in Holding /\ aw'[v] = aw[v]
          BY <2>1, <3>3, <4>2
        <5>2. aw[v].id # i
          BY <1>o, <2>0, <4>2, <5>1 DEF AdOwnership, Holding
        <5> QED
          BY <1>l, <2>1, <3>3, <5>1, <5>2 DEF PublishedRows
      <4> QED
        BY <4>1, <4>2
    <3> QED
      BY <3>1, <3>3 DEF PublishedRows
  <2>6. EndedOnce'
    <4>1. \A j \in Ids : state'[j] \notin {"indexed", "denied"} => Ended(j)' = {}
      BY <1>e, <1>l, <2>0 DEF EndedOnce
    <4>2. \A v \in AdWorkers : aw'[v].pc = "audit" => aw[v].pc = "audit" /\ aw'[v] = aw[v]
      BY <2>1
    <4>3. ASSUME NEW v \in AdWorkers, aw'[v].pc = "audit"
          PROVE  /\ state'[aw'[v].id] \in {"indexed", "denied"}
                 /\ Ended(aw[v].id)' = {} /\ aw'[v].kind \in EndKind
                 /\ \A u \in AdWorkers : aw'[u].pc = "audit" /\ aw'[u].id = aw'[v].id => u = v
      <5>1. PICK j \in Ids : j = aw[v].id
        BY <1>i, <4>2, <4>3
      <5>2. Ended(j) = {} /\ state[j] \in {"indexed", "denied"}
        BY <1>l, <4>2, <4>3, <5>1 DEF EndedOnce
      <5>3. Ended(j)' = {} /\ j = aw'[v].id
        BY <1>e, <2>0, <4>2, <4>3, <5>1, <5>2
      <5>4. Ended(aw[v].id)' = {}
        BY <5>3
      <5> QED
        BY <1>l, <2>0, <4>2, <4>3, <5>2, <5>3, <5>4 DEF EndedOnce
    <4> QED
      BY <4>1, <4>3 DEF EndedOnce
  <2>7. EndedRows'
    <3>1. \A v \in AdWorkers : aw[v].pc = "audit" => aw'[v] = aw[v]
      BY <2>0, <2>1
    <3> QED
      BY <1>e, <1>l, <1>s, <2>0, <2>2, <3>1 DEF EndedRows
  <2> QED
    BY <2>3, <2>4, <2>5, <2>6, <2>7
<1>4. CASE AdBackoff(w)
  BY <1>4, <1>e, <1>m, <1>s DEF AdBackoff, AdRec, Holding
<1>5. ASSUME NEW from \in {"succeed", "fail"}, NEW to \in {"indexed", "denied"}, NEW kind \in EndKind,
             AdOutcome(w, from, to, kind), from = "fail" \/ to = "indexed"
      PROVE  Goal
  <2> DEFINE i == aw[w].id
  <2>0. aw[w].pc = from /\ i \in Ids /\ UNCHANGED <<attempts, pub, audit>>
    BY <1>5, <1>i DEF AdOutcome, Holding
  <2>1. state[i] = "fetching" /\ \A v \in AdWorkers : aw[v].pc \in Holding /\ aw[v].id = i => v = w
    BY <1>o, <2>0 DEF AdOwnership, Holding
  <2>2. /\ state' = [state EXCEPT ![i] = to]
        /\ aw' = [aw EXCEPT ![w].pc = "audit", ![w].kind = kind]
    BY <1>5, <2>1 DEF AdOutcome, TransitionRequest, TransitionLost
  <2>3. /\ \A v \in AdWorkers : v # w => aw'[v] = aw[v]
        /\ aw'[w].pc = "audit" /\ aw'[w].kind = kind /\ aw'[w].id = i
    BY <1>s, <2>2 DEF AdRec
  <2>4. /\ \A j \in Ids : j # i => state'[j] = state[j]
        /\ state'[i] = to
    BY <1>s, <2>0, <2>2
  <2>5. FetchingHeld'
    <3>1. ASSUME NEW j \in Ids, state'[j] = "fetching"
          PROVE  \E v \in AdWorkers : aw'[v].pc \in Holding /\ aw'[v].id = j
      <4>1. j # i /\ state[j] = "fetching"
        BY <2>4, <3>1
      <4>2. PICK v \in AdWorkers : aw[v].pc \in Holding /\ aw[v].id = j
        BY <1>l, <4>1 DEF FetchingHeld
      <4> QED
        BY <2>3, <4>1, <4>2
    <3> QED
      BY <3>1 DEF FetchingHeld
  <2>6. AttemptedRows'
    BY <1>l, <2>0, <2>4 DEF AttemptedRows
  <2>7. PublishedRows'
    <3>1. i \in pub => to = "indexed"
      BY <1>5, <1>l, <2>0 DEF PublishedRows, Holding
    <3> QED
      BY <1>l, <1>s, <2>0, <2>3, <2>4, <3>1 DEF PublishedRows, Holding
  <2>8. EndedOnce'
    <4>1. \A j \in Ids : state'[j] \notin {"indexed", "denied"} => Ended(j)' = {}
      BY <1>e, <1>l, <2>0, <2>4 DEF EndedOnce
    <4>2. \A v \in AdWorkers : v # w /\ aw'[v].pc = "audit" =>
              aw[v].pc = "audit" /\ aw'[v] = aw[v] /\ aw[v].id \in Ids /\ aw[v].id # i
      BY <1>i, <1>l, <2>1, <2>3 DEF EndedOnce
    <4>3. ASSUME NEW v \in AdWorkers, aw'[v].pc = "audit"
          PROVE  /\ state'[aw'[v].id] \in {"indexed", "denied"}
                 /\ Ended(aw[v].id)' = {} /\ aw'[v].kind \in EndKind
                 /\ \A u \in AdWorkers : aw'[u].pc = "audit" /\ aw'[u].id = aw'[v].id => u = v
      <5>1. PICK j \in Ids : j = aw'[v].id
        BY <2>0, <2>3, <4>2, <4>3
      <5>2. Ended(j) = {}
        <6>1. CASE v = w
          BY <1>l, <2>0, <2>1, <2>3, <5>1, <6>1 DEF EndedOnce
        <6>2. CASE v # w
          BY <1>l, <4>2, <4>3, <5>1, <6>2 DEF EndedOnce
        <6> QED
          BY <6>1, <6>2
      <5>3. Ended(j)' = {}
        BY <1>e, <2>0, <5>2
      <5>4. Ended(aw[v].id)' = {}
        BY <5>1, <5>3
      <5>5. state'[j] \in {"indexed", "denied"} /\ aw'[v].kind \in EndKind
        BY <1>l, <2>3, <2>4, <4>2, <4>3, <5>1 DEF EndedOnce
      <5>6. \A u \in AdWorkers : aw'[u].pc = "audit" /\ aw'[u].id = aw'[v].id => u = v
        BY <1>l, <2>3, <4>2, <4>3 DEF EndedOnce
      <5> QED
        BY <5>1, <5>4, <5>5, <5>6
    <4> QED
      BY <4>1, <4>3 DEF EndedOnce
  <2>9. EndedRows'
    <3>1. ASSUME NEW j \in Ids, attempts'[j] > 0, state'[j] \in {"indexed", "denied"}
          PROVE  \/ \E k \in EndKind : Ended(j)' = {k}
                 \/ \E v \in AdWorkers : aw'[v].pc = "audit" /\ aw'[v].id = j
      <4>1. CASE j = i
        BY <2>3, <4>1
      <4>2. CASE j # i
        <5>1. attempts[j] > 0 /\ state[j] \in {"indexed", "denied"}
          BY <2>0, <2>4, <3>1, <4>2
        <5>2. CASE \E k \in EndKind : Ended(j) = {k}
          BY <1>e, <2>0, <5>2
        <5>3. ASSUME NEW v \in AdWorkers, aw[v].pc = "audit", aw[v].id = j
              PROVE  aw'[v].pc = "audit" /\ aw'[v].id = j
          BY <2>3, <4>2, <5>3
        <5> QED
          BY <1>l, <5>1, <5>2, <5>3 DEF EndedRows
      <4> QED
        BY <4>1, <4>2
    <3> QED
      BY <3>1 DEF EndedRows
  <2> QED
    BY <2>5, <2>6, <2>7, <2>8, <2>9
<1>6. CASE Succeed(w) \/ Fail(w)
  BY <1>5, <1>6 DEF Succeed, Fail, EndKind
<1>7. CASE AdAudit(w)
  <2> DEFINE i == aw[w].id
             k == aw[w].kind
  <2>0. /\ aw[w].pc = "audit" /\ i \in Ids /\ UNCHANGED <<state, attempts, pub>>
        /\ audit' = audit \cup {<<i, k>>}
    BY <1>7, <1>i DEF AdAudit, RecordAudit
  <2>1. /\ \A v \in AdWorkers : v # w => aw'[v] = aw[v]
        /\ aw'[w].pc \in {"purge", "idle"}
    BY <1>7, <1>s DEF AdAudit, IdleAd, AdRec
  <2>2. /\ state[i] \in {"indexed", "denied"} /\ Ended(i) = {} /\ k \in EndKind
        /\ \A v \in AdWorkers : aw[v].pc = "audit" /\ aw[v].id = i => v = w
    BY <1>l, <2>0 DEF EndedOnce
  <2>3. \A j \in Ids : j # i => Ended(j)' = Ended(j)
    BY <2>0, EndedIs
  <2>4. PICK m \in Ids, h \in EndKind : m = i /\ h = k
    BY <2>0, <2>2
  <2>5. Ended(m)' = {h}
    <3>1. {z \in EndKind : <<m, z>> \in audit} = {} /\ audit' = audit \cup {<<m, h>>}
      BY <2>0, <2>2, <2>4, EndedIs
    <3>2. {z \in EndKind : <<m, z>> \in audit'} = {h}
      BY <2>4, <3>1
    <3> QED
      BY <3>2, EndedIs
  <2>6. FetchingHeld'
    BY <1>l, <2>0, <2>1 DEF FetchingHeld, Holding
  <2>7. AttemptedRows' /\ PublishedRows'
    BY <1>l, <2>0, <2>1 DEF AttemptedRows, PublishedRows, Holding
  <2>8. EndedOnce'
    <4>1. \A j \in Ids : state'[j] \notin {"indexed", "denied"} => Ended(j)' = {}
      BY <1>l, <2>0, <2>2, <2>3 DEF EndedOnce
    <4>2. \A v \in AdWorkers : aw'[v].pc = "audit" =>
              aw[v].pc = "audit" /\ aw'[v] = aw[v] /\ aw[v].id \in Ids /\ aw[v].id # i
      BY <1>i, <2>1, <2>2
    <4>3. ASSUME NEW v \in AdWorkers, aw'[v].pc = "audit"
          PROVE  /\ state'[aw'[v].id] \in {"indexed", "denied"}
                 /\ Ended(aw[v].id)' = {} /\ aw'[v].kind \in EndKind
                 /\ \A u \in AdWorkers : aw'[u].pc = "audit" /\ aw'[u].id = aw'[v].id => u = v
      <5>1. PICK j \in Ids : j = aw'[v].id
        BY <4>2, <4>3
      <5>2. Ended(j)' = {}
        BY <1>l, <2>3, <4>2, <4>3, <5>1 DEF EndedOnce
      <5>3. Ended(aw[v].id)' = {}
        BY <5>1, <5>2
      <5> QED
        BY <1>l, <2>0, <4>2, <4>3, <5>3 DEF EndedOnce
    <4> QED
      BY <4>1, <4>3 DEF EndedOnce
  <2>9. EndedRows'
    <3>1. ASSUME NEW j \in Ids, attempts'[j] > 0, state'[j] \in {"indexed", "denied"}
          PROVE  \/ \E z \in EndKind : Ended(j)' = {z}
                 \/ \E v \in AdWorkers : aw'[v].pc = "audit" /\ aw'[v].id = j
      <4>1. CASE j = m
        BY <2>5, <4>1
      <4>2. CASE j # m
        <5>1. Ended(j)' = Ended(j)
          BY <2>3, <2>4, <4>2
        <5>2. ASSUME NEW v \in AdWorkers, aw[v].pc = "audit", aw[v].id = j
              PROVE  aw'[v].pc = "audit" /\ aw'[v].id = j
          BY <2>1, <2>4, <4>2, <5>2
        <5> QED
          BY <1>l, <2>0, <3>1, <5>1, <5>2 DEF EndedRows
      <4> QED
        BY <4>1, <4>2
    <3> QED
      BY <3>1 DEF EndedRows
  <2> QED
    BY <2>6, <2>7, <2>8, <2>9
<1>8. CASE AdPurge(w)
  <2>1. audit' = audit \cup {<<aw[w].id, "cdn_purge">>}
    BY <1>8 DEF AdPurge, RecordAudit
  <2>2. \A i \in Ids : Ended(i)' = Ended(i)
    BY <2>1, EndedIs DEF EndKind
  <2> QED
    BY <1>8, <1>m, <1>s, <2>2 DEF AdPurge, AdRec, IdleAd, Holding
<1>9. CASE AdCancelled(w)
  BY <1>9, <1>l DEF AdCancelled
<1> QED
  BY <1>1, <1>2, <1>3, <1>4, <1>6, <1>7, <1>8, <1>9 DEF AdStep

(* In one lifetime with a working store every step keeps the invariant.    *)
LEMMA StepLifeInv ==
    ASSUME ~StoreFaults, MaxBoots = 1
    PROVE  IInv /\ LifeInv /\ [Next]_vars => LifeInv'
<1> SUFFICES ASSUME IInv, LifeInv, [Next]_vars PROVE LifeInv'
  OBVIOUS
<1> USE DEF rowVars, histVars, procVars
<1>1. OneLife'
  <2>1. boots \in 0..1 /\ boots' \in 0..1
    BY StepIInv DEF IInv, TypeOK
  <2>2. ~Terminate /\ ~Exit
    BY <2>1 DEF Terminate, Exit, LifeInv, OneLife
  <2>3. CASE Boot
    BY <2>1, <2>3 DEF Boot, OneLife
  <2>4. CASE UNCHANGED <<proc, boots>>
    BY <2>4 DEF LifeInv, OneLife
  <2>5. ASSUME NEW c \in Clients, (\E b \in Body : SubmitArrives(c, b)) \/ ClientStep(c)
        PROVE  UNCHANGED <<proc, boots>>
    BY <2>5 DEF SubmitArrives, ClientStep, FindDedupTarget, CheckPendingCap, InsertRequest, RecordSubmitAudit
  <2>6. ASSUME NEW r \in Reviewers,
               (\E i \in Ids, to \in {"approved", "denied"} : ReviewReads(r, i, to)) \/ ReviewerStep(r)
        PROVE  UNCHANGED <<proc, boots>>
    BY <2>6 DEF ReviewReads, ReviewerStep, ReviewTransition, ReviewAudit
  <2>7. ASSUME NEW w \in PfWorkers, PfStep(w) PROVE UNCHANGED <<proc, boots>>
    BY <2>7 DEF PfStep, PfList, PfClaim, PfVerdict, PfAudit, PfCancelled
  <2>8. ASSUME NEW w \in AdWorkers, AdStep(w) PROVE UNCHANGED <<proc, boots>>
    BY <2>8 DEF AdStep, AdList, AdClaim, AdmitOne, AdBackoff, Succeed, Fail, AdOutcome, AdAudit, AdPurge, AdCancelled
  <2>9. CASE (\E i \in Ids : Age(i)) \/ BootSweep \/ UNCHANGED vars
    BY <2>4, <2>9 DEF Age, BootSweep, vars
  <2> QED
    BY <2>2, <2>3, <2>4, <2>5, <2>6, <2>7, <2>8, <2>9 DEF Next
<1>2. PreflightKinds'
  <2>0. pw \in [PfWorkers -> PfRec]
    BY DEF IInv, TypeOK
  <2>1. CASE UNCHANGED pw
    BY <2>1 DEF LifeInv, PreflightKinds
  <2>2. ASSUME NEW w \in PfWorkers, PfVerdict(w) PROVE PreflightKinds'
    <3>1. pw'[w].pc = "audit" => pw'[w].kind \notin EndKind
      BY <2>0, <2>2 DEF PfVerdict, IdlePf, PfRec, EndKind
    <3>2. \A v \in PfWorkers : v # w => pw'[v] = pw[v]
      BY <2>0, <2>2 DEF PfVerdict
    <3> QED
      BY <3>1, <3>2 DEF LifeInv, PreflightKinds
  <2>3. ASSUME NEW w \in PfWorkers,
               PfList(w) \/ PfAudit(w) \/ PfCancelled(w) \/ (\E i \in pw[w].cand : PfClaim(w, i))
        PROVE  PreflightKinds'
    <3>1. pw'[w].pc # "audit"
      <4>1. CASE PfList(w)
        <5> DEFINE C == ListRequests({"pending"}, PfLimit)
        <5>1. pw' = [pw EXCEPT ![w].cand = C, ![w].pc = IF C = {} THEN "idle" ELSE "claim"]
          BY <4>1 DEF PfList
        <5> HIDE DEF C
        <5> QED
          BY <2>0, <5>1 DEF PfRec
      <4>2. CASE PfAudit(w) \/ PfCancelled(w)
        BY <2>0, <4>2 DEF PfAudit, PfCancelled, IdlePf
      <4>3. ASSUME NEW i \in pw[w].cand, PfClaim(w, i) PROVE pw'[w].pc # "audit"
        <5>1. \/ pw' = [pw EXCEPT ![w] = [IdlePf EXCEPT !.pc = "check", !.id = i]]
              \/ pw' = [pw EXCEPT ![w].cand = @ \ {i},
                                  ![w].pc = IF pw[w].cand = {i} THEN "idle" ELSE "claim"]
          BY <4>3 DEF PfClaim
        <5>2. [IdlePf EXCEPT !.pc = "check", !.id = i].pc = "check"
          BY DEF IdlePf
        <5> QED
          BY <2>0, <5>1, <5>2 DEF PfRec
      <4> QED
        BY <2>3, <4>1, <4>2, <4>3
    <3>2. \A v \in PfWorkers : v # w => pw'[v] = pw[v]
      BY <2>0, <2>3 DEF PfList, PfAudit, PfCancelled, PfClaim
    <3> QED
      BY <3>1, <3>2 DEF LifeInv, PreflightKinds
  <2>4. CASE Exit
    BY <2>4 DEF Exit, PreflightKinds, IdlePf
  <2>5. ASSUME NEW c \in Clients, (\E b \in Body : SubmitArrives(c, b)) \/ ClientStep(c)
        PROVE  UNCHANGED pw
    BY <2>5 DEF SubmitArrives, ClientStep, FindDedupTarget, CheckPendingCap, InsertRequest, RecordSubmitAudit
  <2>6. ASSUME NEW r \in Reviewers,
               (\E i \in Ids, to \in {"approved", "denied"} : ReviewReads(r, i, to)) \/ ReviewerStep(r)
        PROVE  UNCHANGED pw
    BY <2>6 DEF ReviewReads, ReviewerStep, ReviewTransition, ReviewAudit
  <2>8. ASSUME NEW w \in AdWorkers, AdStep(w) PROVE UNCHANGED pw
    BY <2>8 DEF AdStep, AdList, AdClaim, AdmitOne, AdBackoff, Succeed, Fail, AdOutcome, AdAudit, AdPurge, AdCancelled
  <2>9. CASE (\E i \in Ids : Age(i)) \/ BootSweep \/ Boot \/ Terminate \/ UNCHANGED vars
    BY <2>1, <2>9 DEF Age, BootSweep, Boot, Terminate, vars
  <2> QED
    BY <2>1, <2>2, <2>3, <2>4, <2>5, <2>6, <2>8, <2>9 DEF Next, PfStep
<1>3. ~Terminate /\ ~Exit
  <2>1. boots \in 0..1
    BY DEF IInv, TypeOK
  <2> QED
    BY <2>1 DEF Terminate, Exit, LifeInv, OneLife
<1>4. (FetchingHeld /\ AttemptedRows /\ PublishedRows /\ EndedOnce /\ EndedRows)'
  BY <1>3, AsideSteps, AsideKeeps, AdmitKeeps
<1> QED
  BY <1>1, <1>2, <1>4 DEF LifeInv

(* While the process runs and the store works, for any number of workers,  *)
(* rows and retries: a row that processOwned ended has exactly one         *)
(* terminal event or the worker that ended it is about to write it, and a  *)
(* request whose entry was published is never denied.                      *)
THEOREM EndsAreAudited ==
    ASSUME ~StoreFaults, MaxBoots = 1 PROVE Spec => []AdmitAudited
<1>1. Init => IInv /\ LifeInv
  <2> SUFFICES ASSUME Init PROVE LifeInv
    BY InitIInv
  <2>1. \A i : Ended(i) = {}
    BY EndedIs DEF Init
  <2>2. OneLife /\ FetchingHeld /\ AttemptedRows /\ PublishedRows /\ PreflightKinds
    BY DEF Init, OneLife, FetchingHeld, AttemptedRows, PublishedRows, PreflightKinds, IdlePf, IdleAd
  <2>3. EndedOnce /\ EndedRows
    BY <2>1 DEF Init, EndedOnce, EndedRows, IdleAd
  <2> QED
    BY <2>2, <2>3 DEF LifeInv
<1>2. IInv /\ LifeInv /\ [Next]_vars => (IInv /\ LifeInv)'
  BY StepIInv, StepLifeInv
<1>3. IInv /\ LifeInv => AdmitAudited
  <2> SUFFICES ASSUME IInv, LifeInv PROVE AdmitAudited
    OBVIOUS
  <2>1. ASSUME NEW i \in Ids, attempts[i] > 0, IsTerminal(state[i])
        PROVE  \/ Cardinality(Ended(i)) = 1
               \/ \E w \in AdWorkers : aw[w].pc = "audit" /\ aw[w].id = i
    <3>1. state[i] \in {"fetching", "indexed", "denied"}
      BY <2>1 DEF LifeInv, AttemptedRows
    <3>2. state[i] # "fetching"
      BY <2>1 DEF IsTerminal, CanTransitionTo, legalTransitions, RequestState
    <3>3. (\E k \in EndKind : Ended(i) = {k}) \/ \E w \in AdWorkers : aw[w].pc = "audit" /\ aw[w].id = i
      BY <2>1, <3>1, <3>2 DEF LifeInv, EndedRows
    <3> QED
      BY <3>3, FS_Singleton
  <2>2. \A i \in pub : state[i] # "denied"
    BY DEF LifeInv, PublishedRows
  <2> QED
    BY <2>1, <2>2 DEF AdmitAudited
<1> QED
  BY <1>1, <1>2, <1>3, PTL DEF Spec

-----------------------------------------------------------------------------
(***************************************************************************)
(* Any number of lifetimes: retries per lifetime                           *)
(***************************************************************************)
\* Calls of admitOne for one row: what earlier lifetimes may have made, and all.
Earlier == (MaxRetries + 1) * (boots - 1)
Budget  == (MaxRetries + 1) * boots

(* One lifetime adds MaxRetries + 1 to the budget.                         *)
LEMMA BudgetGrows ==
    ASSUME NEW n \in Nat
    PROVE  /\ (MaxRetries + 1) * n \in Nat
           /\ (MaxRetries + 1) * n = (MaxRetries + 1) * (n - 1) + (MaxRetries + 1)
           /\ (MaxRetries + 1) * (n - 1) \in Int
           /\ n > 0 => (MaxRetries + 1) * (n - 1) \in Nat
<1>1. MaxRetries + 1 \in Nat /\ n - 1 \in Int
  BY BoundsAssumption
<1>2. \A k \in Nat : \A m \in Int : k * (m + 1) = k * m + k /\ k * m \in Int /\ (m >= 0 => k * m >= 0)
  BY Z3
<1>3. (n - 1) + 1 = n
  OBVIOUS
<1> DEFINE k == MaxRetries + 1
           m == n - 1
<1>4. k * (m + 1) = k * m + k /\ k * m \in Int /\ (m >= 0 => k * m >= 0) /\ k * n \in Int /\ k * n >= 0
  BY <1>1, <1>2
<1> HIDE DEF k
<1>5. k * n = k * (n - 1) + k /\ k * n \in Nat /\ k * (n - 1) \in Int /\ (n > 0 => k * (n - 1) \in Nat)
  BY <1>1, <1>3, <1>4
<1> QED
  BY <1>5 DEF k

\* A row that waits has no call of this lifetime, and a row in hand has those
\* its worker remembers.
BudgetInv ==
    /\ proc # "down" => boots > 0
    /\ \A i \in Ids : attempts[i] <= Budget
    /\ boots > 0 => \A i \in Ids :
          state[i] \notin {"fetching", "indexed", "denied"} \/ (phase = "sweep" /\ proc # "down")
             => attempts[i] <= Earlier
    /\ \A w \in AdWorkers :
          /\ aw[w].pc = "admit" => attempts[aw[w].id] <= Earlier + aw[w].attempt
          /\ aw[w].pc \in {"backoff", "succeed", "fail"} =>
                attempts[aw[w].id] <= Earlier + aw[w].attempt + 1

\* Steps of the others: they only move rows that wait.
Apart ==
    /\ UNCHANGED <<aw, attempts, proc, phase, boots>>
    /\ \A i \in Ids : state'[i] \in {"fetching", "indexed", "denied"}
                      \/ state[i] \notin {"fetching", "indexed", "denied"}

(* They leave the calls of every row within what was counted.              *)
LEMMA ApartKeeps == IInv /\ BudgetInv /\ Apart => BudgetInv'
<1> SUFFICES ASSUME IInv, BudgetInv, Apart PROVE BudgetInv'
  OBVIOUS
<1>1. Budget' = Budget /\ Earlier' = Earlier
  BY DEF Apart, Budget, Earlier
<1>2. \A w \in AdWorkers : aw[w].pc \in Holding => aw[w].id \in Ids
  BY DEF IInv, AwCarried
<1> QED
  BY <1>1, <1>2 DEF Apart, BudgetInv

(* Handlers, preflight workers, time and SIGTERM are such steps.           *)
LEMMA ApartSteps ==
    ASSUME IInv, [Next]_vars
    PROVE  Apart \/ BootSweep \/ Boot \/ Terminate \/ Exit \/ \E w \in AdWorkers : AdStep(w)
<1> USE DEF rowVars, histVars, procVars
<1>s. state \in [Ids -> RequestState \cup {"none"}]
  BY DEF IInv, TypeOK
<1>t. ASSUME NEW i, NEW f \in {"pending", "preflighting", "needs_review"}, NEW t, TransitionRequest(i, f, t)
      PROVE  \A j \in Ids : state'[j] = state[j] \/ state[j] \notin {"fetching", "indexed", "denied"}
  BY <1>t, <1>s DEF TransitionRequest
<1>1. ASSUME NEW c \in Clients,
             \/ \E b \in Body : SubmitArrives(c, b)
             \/ FindDedupTarget(c) \/ CheckPendingCap(c) \/ RecordSubmitAudit(c)
      PROVE  Apart
  <2>1. UNCHANGED <<state, aw, attempts, proc, phase, boots>>
    BY <1>1 DEF SubmitArrives, FindDedupTarget, CheckPendingCap, RecordSubmitAudit
  <2> QED
    BY <2>1 DEF Apart
<1>2. ASSUME NEW c \in Clients, InsertRequest(c) PROVE Apart
  <2>1. UNCHANGED <<aw, attempts, proc, phase, boots>>
    BY <1>2 DEF InsertRequest
  <2>2. \/ UNCHANGED state
        \/ state' = [state EXCEPT ![nextId] = "pending"] /\ state[nextId] = "none" /\ nextId \in Ids
    BY <1>2, BoundsAssumption DEF InsertRequest, CreateRequest, IInv, TypeOK, FreshRows, Ids
  <2> QED
    BY <1>s, <2>1, <2>2 DEF Apart
<1>3. ASSUME NEW r \in Reviewers,
             ReviewAudit(r) \/ \E i \in Ids, to \in {"approved", "denied"} : ReviewReads(r, i, to)
      PROVE  Apart
  <2>1. UNCHANGED <<state, aw, attempts, proc, phase, boots>>
    BY <1>3 DEF ReviewReads, ReviewAudit
  <2> QED
    BY <2>1 DEF Apart
<1>4. ASSUME NEW r \in Reviewers, ReviewTransition(r) PROVE Apart
  <2>1. UNCHANGED <<aw, attempts, proc, phase, boots>>
    BY <1>4 DEF ReviewTransition
  <2>2. /\ rv[r].seen \in {"pending", "preflighting", "needs_review"}
        /\ TransitionRequest(rv[r].id, rv[r].seen, rv[r].to) \/ UNCHANGED state
    BY <1>4 DEF ReviewTransition, TransitionLost, IInv, RvCarried, AllowedFroms
  <2> QED
    BY <1>t, <2>1, <2>2 DEF Apart
<1>5. ASSUME NEW w \in PfWorkers, PfList(w) \/ PfAudit(w) \/ PfCancelled(w) PROVE Apart
  <2>1. UNCHANGED <<state, aw, attempts, proc, phase, boots>>
    BY <1>5 DEF PfList, PfAudit, PfCancelled
  <2> QED
    BY <2>1 DEF Apart
<1>6. ASSUME NEW w \in PfWorkers, NEW i \in pw[w].cand, PfClaim(w, i) PROVE Apart
  <2>1. UNCHANGED <<aw, attempts, proc, phase, boots>>
    BY <1>6 DEF PfClaim
  <2>2. TransitionRequest(i, "pending", "preflighting") \/ UNCHANGED state
    BY <1>6 DEF PfClaim, TransitionLost
  <2> QED
    BY <1>t, <2>1, <2>2 DEF Apart
<1>7. ASSUME NEW w \in PfWorkers, PfVerdict(w) PROVE Apart
  <2>1. UNCHANGED <<aw, attempts, proc, phase, boots>>
    BY <1>7 DEF PfVerdict
  <2>2. (\E v : TransitionRequest(pw[w].id, "preflighting", v)) \/ UNCHANGED state
    BY <1>7 DEF PfVerdict, TransitionLost
  <2> QED
    BY <1>t, <2>1, <2>2 DEF Apart
<1>8. CASE (\E i \in Ids : Age(i)) \/ UNCHANGED vars
  <2>1. UNCHANGED <<state, aw, attempts, proc, phase, boots>>
    BY <1>8 DEF Age, vars
  <2> QED
    BY <2>1 DEF Apart
<1> QED
  BY <1>1, <1>2, <1>3, <1>4, <1>5, <1>6, <1>7, <1>8 DEF Next, ClientStep, ReviewerStep, PfStep

(* An admit worker counts its own calls: its row waited when it claimed    *)
(* it, and no other worker calls admitOne for it.                          *)
LEMMA AdmitStaysWithin ==
    ASSUME IInv, BudgetInv, NEW w \in AdWorkers, AdStep(w)
    PROVE  BudgetInv'
<1> USE DEF rowVars, histVars, procVars
<1>s. /\ state \in [Ids -> RequestState \cup {"none"}] /\ aw \in [AdWorkers -> AdRec]
      /\ attempts \in [Ids -> Nat] /\ boots \in Nat
  BY DEF IInv, TypeOK
<1>a. \A v \in AdWorkers : aw[v].attempt \in 0..MaxRetries
  BY <1>s DEF AdRec
<1>i. \A v \in AdWorkers : aw[v].pc \in Holding => aw[v].id \in Ids /\ state[aw[v].id] = "fetching"
  BY DEF IInv, AwCarried, AdOwnership
<1>o. \A v \in AdWorkers : aw[v].pc \in Holding /\ aw[w].pc \in Holding /\ aw[v].id = aw[w].id => v = w
  BY DEF IInv, AdOwnership
<1>b. Budget \in Nat /\ Earlier \in Int /\ Budget = Earlier + MaxRetries + 1 /\ MaxRetries \in Nat
  BY <1>s, BudgetGrows, BoundsAssumption DEF Budget, Earlier
<1>u. ASSUME UNCHANGED <<proc, phase, boots>> PROVE Budget' = Budget /\ Earlier' = Earlier
  BY <1>u DEF Budget, Earlier
\* A worker that is in no row afterwards, or moves on with the one it has.
<1>m. ASSUME UNCHANGED <<attempts, proc, phase, boots>>,
             \A i \in Ids : state'[i] \in {"fetching", "indexed", "denied"} \/ state'[i] = state[i],
             \A v \in AdWorkers : v # w => aw'[v] = aw[v],
             \/ aw'[w].pc \notin Holding
             \/ aw[w].pc = "backoff" /\ aw'[w].pc = "admit" /\ aw'[w].id = aw[w].id
                /\ aw'[w].attempt = aw[w].attempt + 1
             \/ aw'[w].pc = "admit" /\ aw'[w].attempt = 0 /\ attempts[aw'[w].id] <= Earlier
      PROVE  BudgetInv'
  <2>1. Budget' = Budget /\ Earlier' = Earlier
    BY <1>m, <1>u
  <2>2. aw'[w].pc = "admit" => attempts'[aw'[w].id] <= Earlier' + aw'[w].attempt
    BY <1>a, <1>b, <1>i, <1>m, <1>s, <2>1 DEF BudgetInv, Holding
  <2>3. aw'[w].pc \notin {"backoff", "succeed", "fail"}
    BY <1>m DEF Holding
  <2> QED
    BY <1>m, <2>1, <2>2, <2>3 DEF BudgetInv
<1>1. CASE AdList(w)
  <2> DEFINE C == {<<i, state[i]>> : i \in ListRequests(AdmitCandidates, AdLimit)}
  <2>1. /\ UNCHANGED <<state, attempts, proc, phase, boots>>
        /\ aw' = [aw EXCEPT ![w].cand = C, ![w].pc = IF C = {} THEN "idle" ELSE "claim"]
    BY <1>1 DEF AdList
  <2> HIDE DEF C
  <2>2. aw'[w].pc \notin Holding /\ \A v \in AdWorkers : v # w => aw'[v] = aw[v]
    BY <1>s, <2>1 DEF Holding, AdRec
  <2> QED
    BY <1>m, <2>1, <2>2
<1>2. ASSUME NEW i \in Ids, NEW seen \in AdmitCandidates, AdClaim(w, i, seen) PROVE BudgetInv'
  <2>1. UNCHANGED <<attempts, proc, phase, boots>> /\ proc = "up"
    BY <1>2 DEF AdClaim
  <2>2. CASE TransitionRequest(i, seen, "fetching") /\ aw' = [aw EXCEPT ![w] = [IdleAd EXCEPT !.pc = "admit", !.id = i]]
    <3>1. aw'[w].pc = "admit" /\ aw'[w].id = i /\ aw'[w].attempt = 0 /\ \A v \in AdWorkers : v # w => aw'[v] = aw[v]
      BY <1>s, <2>2 DEF IdleAd
    <3>2. /\ state[i] = seen
          /\ \A j \in Ids : state'[j] \in {"fetching", "indexed", "denied"} \/ state'[j] = state[j]
      BY <1>s, <2>2 DEF TransitionRequest
    <3>3. attempts[i] <= Earlier
      BY <2>1, <3>2 DEF BudgetInv, AdmitCandidates
    <3> QED
      BY <1>m, <2>1, <3>1, <3>2, <3>3
  <2>3. CASE /\ TransitionLost(i, seen)
             /\ aw' = [aw EXCEPT ![w].cand = @ \ {<<i, seen>>},
                                 ![w].pc = IF aw[w].cand = {<<i, seen>>} THEN "idle" ELSE "claim"]
    <3>1. aw'[w].pc \notin Holding /\ \A v \in AdWorkers : v # w => aw'[v] = aw[v]
      BY <1>s, <2>3 DEF Holding, AdRec
    <3> QED
      BY <1>m, <2>1, <2>3, <3>1 DEF TransitionLost
  <2> QED
    BY <1>2, <2>2, <2>3 DEF AdClaim
<1>3. CASE AdmitOne(w)
  <2>1. /\ UNCHANGED <<state, proc, phase, boots>> /\ aw[w].pc = "admit" /\ proc = "up"
        /\ attempts' = [attempts EXCEPT ![aw[w].id] = @ + 1]
    BY <1>3 DEF AdmitOne
  <2>2. PICK p \in {"succeed", "backoff", "fail"} : aw' = [aw EXCEPT ![w].pc = p]
    BY <1>3 DEF AdmitOne
  <2>3. /\ aw'[w].pc = p /\ aw'[w].id = aw[w].id /\ aw'[w].attempt = aw[w].attempt
        /\ \A v \in AdWorkers : v # w => aw'[v] = aw[v]
    BY <1>s, <2>2 DEF AdRec
  <2>4. Budget' = Budget /\ Earlier' = Earlier
    BY <1>u, <2>1
  <2>5. /\ aw[w].id \in Ids /\ state[aw[w].id] = "fetching" /\ aw[w].pc \in Holding
        /\ attempts[aw[w].id] <= Earlier + aw[w].attempt
    BY <1>i, <2>1 DEF BudgetInv, Holding
  <2>6. /\ attempts'[aw[w].id] = attempts[aw[w].id] + 1
        /\ \A i \in Ids : i # aw[w].id => attempts'[i] = attempts[i]
    BY <1>s, <2>1, <2>5
  <2>7. attempts'[aw[w].id] <= Earlier + aw[w].attempt + 1 /\ attempts'[aw[w].id] <= Budget
    BY <1>a, <1>b, <1>s, <2>5, <2>6
  <2>8. \A i \in Ids : attempts'[i] <= Budget
    BY <2>6, <2>7 DEF BudgetInv
  <2>9. phase # "sweep"
    BY <2>1 DEF IInv, Phases
  <2>10. ASSUME NEW i \in Ids, boots > 0, state[i] \notin {"fetching", "indexed", "denied"}
         PROVE  attempts'[i] <= Earlier
    BY <2>5, <2>6, <2>10 DEF BudgetInv
  <2>11. ASSUME NEW v \in AdWorkers
         PROVE  /\ aw'[v].pc = "admit" => attempts'[aw'[v].id] <= Earlier + aw'[v].attempt
                /\ aw'[v].pc \in {"backoff", "succeed", "fail"} =>
                      attempts'[aw'[v].id] <= Earlier + aw'[v].attempt + 1
    <3>1. CASE v = w
      BY <2>3, <2>7, <3>1
    <3>2. CASE v # w
      <4>1. aw'[v] = aw[v] /\ (aw[v].pc \in Holding => aw[v].id \in Ids /\ aw[v].id # aw[w].id)
        BY <1>i, <1>o, <2>3, <2>5, <3>2
      <4> QED
        BY <2>6, <4>1 DEF BudgetInv, Holding
    <3> QED
      BY <3>1, <3>2
  <2> QED
    BY <2>1, <2>4, <2>8, <2>9, <2>10, <2>11 DEF BudgetInv
<1>4. CASE AdBackoff(w)
  <2>1. /\ UNCHANGED <<state, attempts, proc, phase, boots>> /\ aw[w].pc = "backoff"
        /\ aw' = [aw EXCEPT ![w].pc = "admit", ![w].attempt = @ + 1]
    BY <1>4 DEF AdBackoff
  <2>2. /\ aw'[w].pc = "admit" /\ aw'[w].id = aw[w].id /\ aw'[w].attempt = aw[w].attempt + 1
        /\ \A v \in AdWorkers : v # w => aw'[v] = aw[v]
    BY <1>s, <2>1 DEF AdRec
  <2> QED
    BY <1>m, <2>1, <2>2
<1>5. CASE Succeed(w) \/ Fail(w)
  <2>1. /\ UNCHANGED <<attempts, proc, phase, boots>>
        /\ \A v \in AdWorkers : v # w => aw'[v] = aw[v]
        /\ aw'[w].pc \in {"audit", "idle"}
    BY <1>5, <1>s DEF Succeed, Fail, AdOutcome, IdleAd, AdRec
  <2>2. \A i \in Ids : state'[i] \in {"fetching", "indexed", "denied"} \/ state'[i] = state[i]
    BY <1>5, <1>s DEF Succeed, Fail, AdOutcome, TransitionRequest, TransitionLost
  <2> QED
    BY <1>m, <2>1, <2>2 DEF Holding
<1>6. CASE AdAudit(w) \/ AdPurge(w) \/ AdCancelled(w)
  <2>1. /\ UNCHANGED <<state, attempts, proc, phase, boots>>
        /\ \A v \in AdWorkers : v # w => aw'[v] = aw[v]
        /\ aw'[w].pc \in {"purge", "idle"}
    BY <1>6, <1>s DEF AdAudit, AdPurge, AdCancelled, IdleAd, AdRec
  <2> QED
    BY <1>m, <2>1 DEF Holding
<1> QED
  BY <1>1, <1>2, <1>3, <1>4, <1>5, <1>6 DEF AdStep

(* A restart turns this lifetime's calls into earlier ones.                *)
LEMMA StepBudget == IInv /\ BudgetInv /\ [Next]_vars => BudgetInv'
<1> SUFFICES ASSUME IInv, BudgetInv, [Next]_vars PROVE BudgetInv'
  OBVIOUS
<1> USE DEF rowVars, histVars, procVars
<1>s. /\ boots \in Nat /\ attempts \in [Ids -> Nat] /\ state \in [Ids -> RequestState \cup {"none"}]
      /\ stale \in SUBSET Ids
  BY DEF IInv, TypeOK
<1>i. \A w \in AdWorkers : aw[w].pc \in Holding => aw[w].id \in Ids
  BY DEF IInv, AwCarried
<1>1. CASE BootSweep
  <2>1. UNCHANGED <<aw, attempts, proc, boots>> /\ phase' = "run" /\ phase = "sweep" /\ proc = "up"
    BY <1>1 DEF BootSweep
  <2>2. Budget' = Budget /\ Earlier' = Earlier
    BY <2>1 DEF Budget, Earlier
  <2> QED
    BY <1>i, <2>1, <2>2 DEF BudgetInv, Holding
<1>2. CASE Boot
  <2>1. /\ UNCHANGED <<aw, attempts, state>> /\ proc' = "up" /\ phase' = "sweep" /\ boots' = boots + 1
        /\ proc = "down"
    BY <1>2 DEF Boot
  <2>2. Earlier' = Budget /\ Budget' = Budget + MaxRetries + 1 /\ Budget \in Nat /\ MaxRetries \in Nat
    <3>1. (boots + 1) - 1 = boots /\ boots + 1 \in Nat
      BY <1>s
    <3> QED
      BY <1>s, <2>1, <3>1, BudgetGrows, BoundsAssumption DEF Budget, Earlier
  <2>3. \A w \in AdWorkers : aw[w].pc = "idle"
    BY <2>1 DEF IInv, Phases
  <2>4. \A i \in Ids : attempts'[i] <= Earlier' /\ attempts'[i] <= Budget'
    BY <1>s, <2>1, <2>2 DEF BudgetInv
  <2> QED
    BY <1>s, <2>1, <2>3, <2>4 DEF BudgetInv
<1>3. CASE Terminate
  <2>1. UNCHANGED <<aw, attempts, state, phase, boots>> /\ proc' = "stopping" /\ proc = "up"
    BY <1>3 DEF Terminate
  <2>2. Budget' = Budget /\ Earlier' = Earlier
    BY <2>1 DEF Budget, Earlier
  <2> QED
    BY <1>i, <2>1, <2>2 DEF BudgetInv, Holding
<1>4. CASE Exit
  <2>1. UNCHANGED <<attempts, state, boots>> /\ proc' = "down" /\ \A w \in AdWorkers : aw'[w].pc = "idle"
    BY <1>4 DEF Exit, IdleAd
  <2>2. Budget' = Budget /\ Earlier' = Earlier
    BY <2>1 DEF Budget, Earlier
  <2> QED
    BY <2>1, <2>2 DEF BudgetInv
<1> QED
  BY <1>1, <1>2, <1>3, <1>4, ApartSteps, ApartKeeps, AdmitStaysWithin

(* For any number of restarts, workers and rows, with or without store     *)
(* faults and crashes: only a restart gives a row its retries again        *)
(* (processOwned, sweepStuckFetching, the claim in pollOnce).              *)
THEOREM RetriesStayPerBoot == Spec => []RetriesPerBoot
<1>1. Init => IInv /\ BudgetInv
  <2> SUFFICES ASSUME Init PROVE BudgetInv
    BY InitIInv
  <2>1. Budget \in Nat
    BY BudgetGrows DEF Budget, Init
  <2> QED
    BY <2>1 DEF Init, BudgetInv, IdleAd
<1>2. IInv /\ BudgetInv /\ [Next]_vars => (IInv /\ BudgetInv)'
  BY StepIInv, StepBudget
<1>3. BudgetInv => RetriesPerBoot
  BY DEF BudgetInv, Budget, RetriesPerBoot
<1> QED
  BY <1>1, <1>2, <1>3, PTL DEF Spec

-----------------------------------------------------------------------------
(***************************************************************************)
(* Any number of lifetimes: rows left in preflighting                      *)
(***************************************************************************)
Checking  == {w \in PfWorkers : pw[w].pc = "check"}
PerBoot   == Cardinality(PfWorkers) * boots
PerEnded  == Cardinality(PfWorkers) * (boots - 1)

\* A running process strands nothing, and one that ends strands at most what
\* its workers are checking.
StrandedInv ==
    /\ proc = "up" => Cardinality(Stranded) <= PerEnded
    /\ proc # "up" => Cardinality(Stranded) + Cardinality(Checking) <= PerBoot

(* A preflight worker checks one row.                                      *)
LEMMA CheckingFinite ==
    /\ IsFiniteSet(Checking) /\ Cardinality(Checking) \in Nat
    /\ Cardinality(Checking) <= Cardinality(PfWorkers)
    /\ Cardinality(PfWorkers) \in Nat
<1>1. Checking \in SUBSET PfWorkers
  BY DEF Checking
<1> QED
  BY <1>1, FS_Subset, FS_CardinalityType, BoundsAssumption

(* The table is finite.                                                    *)
LEMMA StrandedFinite == IsFiniteSet(Stranded) /\ Cardinality(Stranded) \in Nat
<1>1. Stranded \in SUBSET (1..MaxId)
  BY DEF Stranded, Ids
<1>2. IsFiniteSet(1..MaxId)
  BY FS_Interval, BoundsAssumption
<1> QED
  BY <1>1, <1>2, FS_Subset, FS_CardinalityType

(* One lifetime adds one row per preflight worker.                         *)
LEMMA PerBootGrows ==
    ASSUME boots \in Nat
    PROVE  /\ PerBoot \in Int /\ PerEnded \in Int
           /\ PerBoot = PerEnded + Cardinality(PfWorkers)
           /\ boots = 0 => PerBoot = 0
<1>1. Cardinality(PfWorkers) \in Nat /\ boots - 1 \in Int /\ (boots - 1) + 1 = boots
  BY CheckingFinite
<1>2. \A k \in Nat : \A m \in Int : k * (m + 1) = k * m + k /\ k * m \in Int /\ k * 0 = 0
  BY Z3
<1> DEFINE k == Cardinality(PfWorkers)
           m == boots - 1
<1>3. k \in Nat /\ m \in Int /\ m + 1 = boots
  BY <1>1
<1> HIDE DEF k, m
<1>4. k * (m + 1) = k * m + k /\ k * m \in Int /\ k * (m + 1) \in Int /\ k * 0 = 0
  BY <1>2, <1>3
<1>5. k * boots = k * m + k /\ k * m \in Int /\ k * boots \in Int /\ k * 0 = 0
  BY <1>3, <1>4
<1> QED
  BY <1>5 DEF PerBoot, PerEnded, k, m

\* A step that neither takes a row to preflighting without holding it nor
\* lets go of one that stays there.
StrandsNone ==
    /\ UNCHANGED <<proc, boots>>
    /\ \A i \in Ids : state'[i] = "preflighting" =>
          \/ state[i] = "preflighting"
          \/ \E w \in PfWorkers : pw'[w].pc = "check" /\ pw'[w].id = i
    /\ \A w \in PfWorkers : pw[w].pc = "check" =>
          \/ pw'[w].pc = "check" /\ pw'[w].id = pw[w].id
          \/ state'[pw[w].id] # "preflighting"
    /\ proc = "up" \/ UNCHANGED pw

(* Such a step keeps the bound.                                            *)
LEMMA StrandsNoneKeeps ==
    ASSUME boots \in Nat, StrandedInv, StrandsNone PROVE StrandedInv'
<1>1. Stranded' \subseteq Stranded
  <2> SUFFICES ASSUME NEW i \in Stranded' PROVE i \in Stranded
    OBVIOUS
  <2>1. i \in Ids /\ state'[i] = "preflighting" /\ \A w \in PfWorkers : pw'[w].pc = "check" => pw'[w].id # i
    BY DEF Stranded
  <2>2. state[i] = "preflighting"
    BY <2>1 DEF StrandsNone
  <2>3. \A w \in PfWorkers : pw[w].pc = "check" => pw[w].id # i
    BY <2>1 DEF StrandsNone
  <2> QED
    BY <2>1, <2>2, <2>3 DEF Stranded
<1>2. Cardinality(Stranded') <= Cardinality(Stranded) /\ Cardinality(Stranded') \in Nat
  BY <1>1, StrandedFinite, FS_Subset, FS_CardinalityType
<1>3. PerBoot' = PerBoot /\ PerEnded' = PerEnded /\ proc' = proc
  BY DEF StrandsNone, PerBoot, PerEnded
<1>4. proc # "up" => Checking' = Checking
  BY DEF StrandsNone, Checking
<1> HIDE DEF Checking, Stranded, PerBoot, PerEnded
<1>5. CASE proc = "up"
  BY <1>2, <1>3, <1>5, StrandedFinite, PerBootGrows DEF StrandedInv
<1>6. CASE proc # "up"
  BY <1>2, <1>3, <1>4, <1>6, StrandedFinite, CheckingFinite, PerBootGrows DEF StrandedInv
<1> QED
  BY <1>5, <1>6

(* Over a store that works, only a cancelled preflight worker and the end  *)
(* of a lifetime strand a row: a lost transition means that the row was    *)
(* denied meanwhile.                                                       *)
LEMMA StrandingSteps ==
    ASSUME ~StoreFaults, IInv, [Next]_vars
    PROVE  StrandsNone \/ Boot \/ Terminate \/ Exit \/ \E w \in PfWorkers : PfCancelled(w)
<1> USE DEF rowVars, histVars, procVars
<1>s. /\ state \in [Ids -> RequestState \cup {"none"}] /\ pw \in [PfWorkers -> PfRec]
      /\ nextId \in 1..(MaxId + 1)
  BY DEF IInv, TypeOK
<1>i. \A w \in PfWorkers : pw[w].pc = "check" => pw[w].id \in Ids
  BY DEF IInv, PwCarried
\* A step of the others, and a step of a worker.
<1>o. ASSUME UNCHANGED <<pw, proc, boots>>,
             \A i \in Ids : state'[i] = "preflighting" => state[i] = "preflighting"
      PROVE  StrandsNone
  BY <1>o DEF StrandsNone
<1>t. ASSUME NEW i, NEW f, NEW t \in RequestState \ {"preflighting"}, TransitionRequest(i, f, t)
      PROVE  \A j \in Ids : state'[j] = "preflighting" => state[j] = "preflighting"
  BY <1>t, <1>s DEF TransitionRequest
<1>1. ASSUME NEW c \in Clients,
             \/ \E b \in Body : SubmitArrives(c, b)
             \/ FindDedupTarget(c) \/ CheckPendingCap(c) \/ RecordSubmitAudit(c)
      PROVE  StrandsNone
  <2>1. UNCHANGED <<state, pw, proc, boots>>
    BY <1>1 DEF SubmitArrives, FindDedupTarget, CheckPendingCap, RecordSubmitAudit
  <2> QED
    BY <1>o, <2>1
<1>2. ASSUME NEW c \in Clients, InsertRequest(c) PROVE StrandsNone
  <2>1. UNCHANGED <<pw, proc, boots>>
    BY <1>2 DEF InsertRequest
  <2>2. UNCHANGED state \/ state' = [state EXCEPT ![nextId] = "pending"]
    BY <1>2 DEF InsertRequest, CreateRequest
  <2>3. \A i \in Ids : state'[i] = "preflighting" => state[i] = "preflighting"
    BY <1>s, <2>2
  <2> QED
    BY <1>o, <2>1, <2>3
<1>3. ASSUME NEW r \in Reviewers,
             ReviewAudit(r) \/ \E i \in Ids, to \in {"approved", "denied"} : ReviewReads(r, i, to)
      PROVE  StrandsNone
  <2>1. UNCHANGED <<state, pw, proc, boots>>
    BY <1>3 DEF ReviewReads, ReviewAudit
  <2> QED
    BY <1>o, <2>1
<1>4. ASSUME NEW r \in Reviewers, ReviewTransition(r) PROVE StrandsNone
  <2>1. UNCHANGED <<pw, proc, boots>>
    BY <1>4 DEF ReviewTransition
  <2>2. /\ rv[r].to \in RequestState \ {"preflighting"}
        /\ TransitionRequest(rv[r].id, rv[r].seen, rv[r].to) \/ UNCHANGED state
    BY <1>4 DEF ReviewTransition, TransitionLost, IInv, RvCarried, RequestState
  <2>3. CASE TransitionRequest(rv[r].id, rv[r].seen, rv[r].to)
    BY <1>o, <1>t, <2>1, <2>2, <2>3
  <2> QED
    BY <1>o, <2>1, <2>2, <2>3
<1>5. ASSUME NEW w \in PfWorkers, PfList(w) \/ PfAudit(w) PROVE StrandsNone
  <2>1. UNCHANGED <<state, proc, boots>> /\ proc = "up" /\ pw[w].pc \in {"idle", "audit"}
    BY <1>5 DEF PfList, PfAudit
  <2>2. \A v \in PfWorkers : v # w => pw'[v] = pw[v]
    BY <1>5, <1>s DEF PfList, PfAudit
  <2> QED
    BY <2>1, <2>2 DEF StrandsNone
<1>6. ASSUME NEW w \in PfWorkers, NEW i \in pw[w].cand, PfClaim(w, i) PROVE StrandsNone
  <2>1. UNCHANGED <<proc, boots>> /\ proc = "up" /\ pw[w].pc = "claim"
    BY <1>6 DEF PfClaim
  <2>2. \A v \in PfWorkers : v # w => pw'[v] = pw[v]
    BY <1>6, <1>s DEF PfClaim
  <2>3. CASE /\ TransitionRequest(i, "pending", "preflighting")
             /\ pw' = [pw EXCEPT ![w] = [IdlePf EXCEPT !.pc = "check", !.id = i]]
    <3>1. pw'[w].pc = "check" /\ pw'[w].id = i
      BY <1>s, <2>3 DEF IdlePf
    <3>2. \A j \in Ids : state'[j] = "preflighting" => state[j] = "preflighting" \/ j = i
      BY <1>s, <2>3 DEF TransitionRequest
    <3> QED
      BY <2>1, <2>2, <3>1, <3>2 DEF StrandsNone
  <2>4. CASE TransitionLost(i, "pending")
    BY <2>1, <2>2, <2>4 DEF StrandsNone, TransitionLost
  <2> QED
    BY <1>6, <2>3, <2>4 DEF PfClaim
<1>7. ASSUME NEW w \in PfWorkers, PfVerdict(w) PROVE StrandsNone
  <2>1. UNCHANGED <<proc, boots>> /\ proc = "up" /\ pw[w].pc = "check"
    BY <1>7 DEF PfVerdict
  <2>2. \A v \in PfWorkers : v # w => pw'[v] = pw[v]
    BY <1>7, <1>s DEF PfVerdict
  <2>3. ASSUME NEW v \in {"auto_pass", "needs_review", "denied"}, TransitionRequest(pw[w].id, "preflighting", v)
        PROVE  StrandsNone
    <3>1. state'[pw[w].id] # "preflighting" /\ \A j \in Ids : state'[j] = "preflighting" => state[j] = "preflighting"
      BY <1>i, <1>s, <2>1, <2>3 DEF TransitionRequest
    <3> QED
      BY <2>1, <2>2, <3>1 DEF StrandsNone
  <2>4. CASE TransitionLost(pw[w].id, "preflighting")
    <3>1. UNCHANGED state /\ state[pw[w].id] # "preflighting"
      BY <2>4 DEF TransitionLost
    <3> QED
      BY <2>1, <2>2, <3>1 DEF StrandsNone
  <2> QED
    BY <1>7, <2>3, <2>4 DEF PfVerdict, CheckVerdicts
<1>8. ASSUME NEW w \in AdWorkers, AdStep(w) PROVE StrandsNone
  <2>1. UNCHANGED <<pw, proc, boots>>
    BY <1>8 DEF AdStep, AdList, AdClaim, AdmitOne, AdBackoff, Succeed, Fail, AdOutcome, AdAudit, AdPurge, AdCancelled
  <2>2. \/ UNCHANGED state
        \/ \E i, f : \E t \in {"fetching", "indexed", "denied"} : TransitionRequest(i, f, t)
    BY <1>8 DEF AdStep, AdList, AdClaim, AdmitOne, AdBackoff, Succeed, Fail, AdOutcome, AdAudit, AdPurge,
                AdCancelled, TransitionLost
  <2>3. \A i \in Ids : state'[i] = "preflighting" => state[i] = "preflighting"
    BY <1>t, <2>2 DEF RequestState
  <2> QED
    BY <1>o, <2>1, <2>3
<1>9. CASE (\E i \in Ids : Age(i)) \/ UNCHANGED vars
  <2>1. UNCHANGED <<state, pw, proc, boots>>
    BY <1>9 DEF Age, vars
  <2> QED
    BY <1>o, <2>1
<1>10. CASE BootSweep
  <2>1. UNCHANGED <<pw, proc, boots>>
    BY <1>10 DEF BootSweep
  <2>2. \A i \in Ids : state'[i] = "preflighting" => state[i] = "preflighting"
    BY <1>10, <1>s DEF BootSweep, ReclaimStuckFetching
  <2> QED
    BY <1>o, <2>1, <2>2
<1> QED
  BY <1>1, <1>2, <1>3, <1>4, <1>5, <1>6, <1>7, <1>8, <1>9, <1>10 DEF Next, ClientStep, ReviewerStep, PfStep

(* A lifetime that ends hands over at most one row per worker.             *)
LEMMA StepStranded ==
    ASSUME ~StoreFaults PROVE IInv /\ StrandedInv /\ [Next]_vars => StrandedInv'
<1> SUFFICES ASSUME IInv, StrandedInv, [Next]_vars PROVE StrandedInv'
  OBVIOUS
<1> USE DEF rowVars, histVars, procVars
<1>s. boots \in Nat /\ boots' \in Nat /\ pw \in [PfWorkers -> PfRec]
  BY StepIInv DEF IInv, TypeOK
<1>b. /\ PerBoot \in Int /\ PerEnded \in Int /\ PerBoot = PerEnded + Cardinality(PfWorkers)
      /\ Cardinality(PfWorkers) \in Nat /\ Cardinality(Stranded) \in Nat
      /\ Cardinality(Checking) \in Nat /\ Cardinality(Checking) <= Cardinality(PfWorkers)
      /\ IsFiniteSet(Stranded) /\ IsFiniteSet(Checking)
  BY <1>s, PerBootGrows, StrandedFinite, CheckingFinite
<1>1. CASE StrandsNone
  BY <1>1, <1>s, StrandsNoneKeeps
<1>2. CASE Boot
  <2>1. /\ UNCHANGED <<state, pw>> /\ proc = "down" /\ proc' = "up" /\ boots' = boots + 1
    BY <1>2 DEF Boot
  <2>2. Stranded' = Stranded
    BY <2>1 DEF Stranded
  <2>3. PerEnded' = PerBoot
    <3>1. (boots + 1) - 1 = boots
      BY <1>s
    <3> QED
      BY <2>1, <3>1 DEF PerEnded, PerBoot
  <2>4. Cardinality(Stranded) + Cardinality(Checking) <= PerBoot
    BY <2>1 DEF StrandedInv
  <2> QED
    BY <1>b, <2>1, <2>2, <2>3, <2>4 DEF StrandedInv
<1>3. CASE Terminate
  <2>1. /\ UNCHANGED <<state, pw, boots>> /\ proc = "up" /\ proc' = "stopping"
    BY <1>3 DEF Terminate
  <2>2. Stranded' = Stranded /\ Checking' = Checking /\ PerBoot' = PerBoot
    BY <2>1 DEF Stranded, Checking, PerBoot
  <2>3. Cardinality(Stranded) <= PerEnded
    BY <2>1 DEF StrandedInv
  <2> QED
    BY <1>b, <2>1, <2>2, <2>3 DEF StrandedInv
<1>4. CASE Exit
  <2>1. /\ UNCHANGED <<state, boots>> /\ proc' = "down" /\ \A w \in PfWorkers : pw'[w].pc = "idle"
    BY <1>4 DEF Exit, IdlePf
  <2> DEFINE held == [w \in Checking |-> pw[w].id]
             Held == {pw[w].id : w \in Checking}
  <2>2. held \in Surjection(Checking, Held)
    BY DEF Surjection
  <2>3. IsFiniteSet(Held) /\ Cardinality(Held) <= Cardinality(Checking) /\ Cardinality(Held) \in Nat
    BY <1>b, <2>2, FS_Surjection, FS_CardinalityType
  <2>4. Stranded' \subseteq Stranded \cup Held
    BY <2>1 DEF Stranded, Checking
  <2> HIDE DEF held, Held
  <2>5. /\ IsFiniteSet(Stranded \cup Held)
        /\ Cardinality(Stranded \cup Held) <= Cardinality(Stranded) + Cardinality(Held)
        /\ Cardinality(Stranded \cup Held) \in Nat
    <3>1. /\ IsFiniteSet(Stranded \cup Held)
          /\ Cardinality(Stranded \cup Held) =
                Cardinality(Stranded) + Cardinality(Held) - Cardinality(Stranded \cap Held)
      BY <1>b, <2>3, FS_Union
    <3>2. IsFiniteSet(Stranded \cap Held)
      BY <1>b, FS_Subset
    <3>3. Cardinality(Stranded \cap Held) \in Nat /\ Cardinality(Stranded \cup Held) \in Nat
      BY <3>1, <3>2, FS_CardinalityType
    <3> QED
      BY <1>b, <2>3, <3>1, <3>3
  <2>6. Cardinality(Stranded') <= Cardinality(Stranded \cup Held) /\ Cardinality(Stranded') \in Nat
    BY <2>4, <2>5, FS_Subset, FS_CardinalityType
  <2>7. Cardinality(Checking') = 0
    <3>1. Checking' = {}
      BY <2>1 DEF Checking
    <3> QED
      BY <3>1, FS_EmptySet
  <2>8. PerBoot' = PerBoot
    BY <2>1 DEF PerBoot
  <2>9. Cardinality(Stranded) + Cardinality(Checking) <= PerBoot
    BY <1>b DEF StrandedInv
  <2> QED
    BY <1>b, <2>1, <2>3, <2>5, <2>6, <2>7, <2>8, <2>9 DEF StrandedInv
<1>5. ASSUME NEW w \in PfWorkers, PfCancelled(w) PROVE StrandedInv'
  <2>1. /\ UNCHANGED <<state, proc, boots>> /\ proc = "stopping"
        /\ pw' = [pw EXCEPT ![w] = IdlePf]
    BY <1>5 DEF PfCancelled
  <2>2. pw'[w].pc = "idle" /\ \A v \in PfWorkers : v # w => pw'[v] = pw[v]
    BY <1>s, <2>1 DEF IdlePf
  <2>3. PerBoot' = PerBoot
    BY <2>1 DEF PerBoot
  <2>4. CASE w \notin Checking
    <3>1. Checking' = Checking /\ Stranded' = Stranded
      BY <2>1, <2>2, <2>4 DEF Checking, Stranded
    <3> QED
      BY <2>1, <2>3, <3>1 DEF StrandedInv
  <2>5. CASE w \in Checking
    <3>1. Checking' \subseteq Checking \ {w} /\ Stranded' \subseteq Stranded \cup {pw[w].id}
      BY <2>1, <2>2 DEF Checking, Stranded
    <3>2. /\ Cardinality(Stranded') \in Nat /\ Cardinality(Checking') \in Nat
          /\ Cardinality(Stranded') + Cardinality(Checking') <= Cardinality(Stranded) + Cardinality(Checking)
      <4> DEFINE S == Stranded
                 T == Checking
                 A == Stranded'
                 B == Checking'
      <4>0. IsFiniteSet(S) /\ IsFiniteSet(T)
        BY <1>b
      <4>1. \E x \in T : \E i : A \subseteq S \cup {i} /\ B \subseteq T \ {x}
        BY <2>5, <3>1
      <4> HIDE DEF S, T, A, B
      <4>2. ASSUME NEW x \in T, NEW i, A \subseteq S \cup {i}, B \subseteq T \ {x}
            PROVE  /\ Cardinality(A) \in Nat /\ Cardinality(B) \in Nat
                   /\ Cardinality(S) \in Nat /\ Cardinality(T) \in Nat
                   /\ Cardinality(A) + Cardinality(B) <= Cardinality(S) + Cardinality(T)
        BY ONLY <4>0, <4>2, x \in T, HandingOver
      <4> QED
        BY <4>1, <4>2 DEF S, T, A, B
    <3>3. Cardinality(Stranded) + Cardinality(Checking) <= PerBoot
      BY <2>1 DEF StrandedInv
    <3> QED
      BY <1>b, <2>1, <2>3, <3>2, <3>3 DEF StrandedInv
  <2> QED
    BY <2>4, <2>5
<1> QED
  BY <1>1, <1>2, <1>3, <1>4, <1>5, StrandingSteps

(* Over a store that works, for any number of workers, rows, crashes and   *)
(* restarts: no sweep resets preflighting, and yet what waits there        *)
(* undecided is at most one row per preflight worker and ended lifetime    *)
(* (pollOnce hands a claimed row straight to processOne).                  *)
THEOREM StrandedStaysBounded == Spec => []StrandedBounded
<1>0. CASE StoreFaults
  <2>1. StrandedBounded
    BY <1>0 DEF StrandedBounded
  <2> QED
    BY <2>1, PTL
<1>a. CASE ~StoreFaults
  <2>1. Init => IInv /\ StrandedInv
    <3> SUFFICES ASSUME Init PROVE StrandedInv
      BY InitIInv
    <3>1. boots = 0 /\ PerBoot = 0 /\ proc = "down"
      BY PerBootGrows DEF Init
    <3>2. Stranded = {} /\ Checking = {}
      BY DEF Init, Stranded, Checking, IdlePf
    <3>3. Cardinality(Stranded) = 0 /\ Cardinality(Checking) = 0
      BY <3>2, FS_EmptySet
    <3> QED
      BY <3>1, <3>3 DEF StrandedInv
  <2>2. IInv /\ StrandedInv /\ [Next]_vars => (IInv /\ StrandedInv)'
    BY <1>a, StepIInv, StepStranded
  <2>3. IInv /\ StrandedInv => StrandedBounded
    <3> SUFFICES ASSUME IInv, StrandedInv PROVE StrandedBounded
      OBVIOUS
    <3>1. /\ Cardinality(Stranded) \in Nat /\ Cardinality(Checking) \in Nat
          /\ PerBoot \in Int
      BY StrandedFinite, CheckingFinite, PerBootGrows DEF IInv, TypeOK
    <3>2. CASE proc = "up"
      BY <3>2 DEF StrandedInv, StrandedBounded, EndedBoots, PerEnded
    <3>3. CASE proc # "up"
      <4>1. Cardinality(Stranded) + Cardinality(Checking) <= PerBoot
        BY <3>3 DEF StrandedInv
      <4>2. Cardinality(Stranded) <= PerBoot
        BY <3>1, <4>1
      <4> QED
        BY <3>3, <4>2 DEF StrandedBounded, EndedBoots, PerBoot
    <3> QED
      BY <3>2, <3>3
  <2> QED
    BY <2>1, <2>2, <2>3, PTL DEF Spec
<1> QED
  BY <1>0, <1>a

(* What restarts cost, in attempts (processOwned, sweepStuckFetching) and  *)
(* in rows left in preflighting (pollOnce), for any number of lifetimes.   *)
THEOREM RestartsStayBounded == Spec => []RestartsBounded
<1>1. RetriesPerBoot /\ StrandedBounded => RestartsBounded
  BY DEF RestartsBounded
<1> QED
  BY <1>1, RetriesStayPerBoot, StrandedStaysBounded, PTL
=============================================================================
