-------------------------- MODULE SidecarQueueProofs --------------------------
(***************************************************************************)
(* Proofs about SidecarQueue for every finite set of jobs, every set of     *)
(* processes and every backlog, batch size and attempt limit.               *)
(***************************************************************************)
EXTENDS SidecarQueue, FiniteSetTheorems, TLAPS

(* A process past its claim holds a job and an attempt number in range.     *)
Holding ==
  \A w \in Worker :
    pc[w] \in {"resolve", "complete", "absent", "fail"}
      => held[w] \in Job /\ attempt[w] \in 1..AttemptLimit

(* A job the index has not listed has no history.                           *)
UnlistedIsFresh == \A j \in Job : status[j] = "unlisted" => attempts[j] = 0

Inv == TypeOK /\ Holding /\ UnlistedIsFresh /\ ReceiptsMatchOutcomes

LEMMA InvInit == Init => Inv
BY SidecarAssumption
   DEF Init, Inv, TypeOK, Holding, UnlistedIsFresh, ReceiptsMatchOutcomes,
       Statuses, Stages, OpenStatus, TerminalStatus

(* The capacity discover computes is an integer, perhaps a negative one.    *)
LEMMA CapacityIsInteger == MaxBacklog - Cardinality(Backlog) \in Int
<1>1. IsFiniteSet(Backlog)
  BY SidecarAssumption, FS_Subset DEF Backlog
<1>2. Cardinality(Backlog) \in Nat
  BY <1>1, FS_CardinalityType
<1> QED
  BY <1>2, SidecarAssumption

-----------------------------------------------------------------------------
(* The inductive step *)

USE SidecarAssumption DEF Statuses, Stages, OpenStatus, TerminalStatus

(* Recovery moves processing rows with attempts left to retry_wait.         *)
LEMMA RecoveryPreserves ==
  ASSUME Inv, RecoverStale, UNCHANGED <<attempts, pair>>
  PROVE  /\ status' \in [Job -> Statuses] /\ due' \in [Job -> BOOLEAN]
         /\ stale' \in [Job -> BOOLEAN]
         /\ UnlistedIsFresh' /\ ReceiptsMatchOutcomes'
BY DEF Inv, TypeOK, RecoverStale, Recoverable, UnlistedIsFresh, ReceiptsMatchOutcomes

(* An outcome with its attempt closes a processing row of the claim.        *)
LEMMA ClosePreserves ==
  ASSUME Inv, NEW w \in Worker, pc[w] \in {"complete", "absent", "fail"},
         Current(w), NEW outcome \in {"completed", "absent_intelligence", "failed", "retry_wait"},
         Close(w, outcome),
         outcome = "failed" => attempt[w] = AttemptLimit,
         outcome = "retry_wait" => attempt[w] < AttemptLimit,
         outcome = "completed" => pair' = [pair EXCEPT ![held[w]] = TRUE],
         outcome # "completed" => UNCHANGED pair
  PROVE  /\ status' \in [Job -> Statuses] /\ attempts' \in [Job -> 0..AttemptLimit]
         /\ stale' \in [Job -> BOOLEAN] /\ pair' \in [Job -> BOOLEAN]
         /\ UnlistedIsFresh' /\ ReceiptsMatchOutcomes'
<1>1. held[w] \in Job /\ attempt[w] \in 1..AttemptLimit
  BY DEF Inv, Holding
<1>2. status[held[w]] = "processing" /\ ~pair[held[w]]
  BY <1>1 DEF Current, Inv, ReceiptsMatchOutcomes
<1>3. status' = [status EXCEPT ![held[w]] = outcome]
      /\ attempts' = [attempts EXCEPT ![held[w]] = attempt[w]]
      /\ stale' = [stale EXCEPT ![held[w]] = FALSE]
  BY DEF Close
<1>4. status' \in [Job -> Statuses] /\ attempts' \in [Job -> 0..AttemptLimit]
      /\ stale' \in [Job -> BOOLEAN] /\ pair' \in [Job -> BOOLEAN]
  BY <1>1, <1>3 DEF Inv, TypeOK
<1>5. UnlistedIsFresh'
  BY <1>1, <1>3 DEF UnlistedIsFresh, Inv, TypeOK
<1>6. ASSUME NEW j \in Job
      PROVE  /\ pair'[j] <=> status'[j] = "completed"
             /\ status'[j] = "failed" => attempts'[j] = AttemptLimit
             /\ status'[j] \in OpenStatus => attempts'[j] < AttemptLimit
  <2>1. CASE j = held[w]
    <3>1. status'[j] = outcome /\ attempts'[j] = attempt[w]
      BY <1>1, <1>3, <2>1 DEF Inv, TypeOK
    <3>2. pair'[j] <=> outcome = "completed"
      <4>1. CASE outcome = "completed"
        BY <1>1, <2>1, <4>1 DEF Inv, TypeOK
      <4>2. CASE outcome # "completed"
        BY <1>2, <2>1, <4>2
      <4> QED
        BY <4>1, <4>2
    <3> QED
      BY <3>1, <3>2
  <2>2. CASE j # held[w]
    <3>1. status'[j] = status[j] /\ attempts'[j] = attempts[j] /\ pair'[j] = pair[j]
      <4>1. status'[j] = status[j] /\ attempts'[j] = attempts[j]
        BY <1>3, <2>2 DEF Inv, TypeOK
      <4>2. pair'[j] = pair[j]
        BY <2>2 DEF Inv, TypeOK
      <4> QED
        BY <4>1, <4>2
    <3> QED
      BY <3>1 DEF Inv, ReceiptsMatchOutcomes
  <2> QED
    BY <2>1, <2>2
<1> QED
  BY <1>4, <1>5, <1>6 DEF ReceiptsMatchOutcomes

(* The worker keeps its claim in range or lets it go.                       *)
LEMMA ReleasePreserves ==
  ASSUME Inv, NEW w \in Worker, NEW stage \in {"claim", "down"}, Release(w, stage)
  PROVE  /\ pc' \in [Worker -> Stages] /\ held' \in [Worker -> Job \cup {NoJob}]
         /\ attempt' \in [Worker -> 0..AttemptLimit] /\ Holding'
BY DEF Inv, TypeOK, Release, Goto, Holding

LEMMA GotoPreserves ==
  ASSUME Inv, NEW w \in Worker, NEW stage \in Stages, Goto(w, stage),
         UNCHANGED <<held, attempt>>,
         stage \in {"resolve", "complete", "absent", "fail"}
           => pc[w] \in {"resolve", "complete", "absent", "fail"}
  PROVE  pc' \in [Worker -> Stages] /\ Holding'
BY DEF Inv, TypeOK, Goto, Holding

(* Every step of every process keeps the invariant.                         *)
LEMMA InvStep == Inv /\ [Next]_vars => Inv'
<1> SUFFICES ASSUME Inv, [Next]_vars PROVE Inv'
  OBVIOUS
<1>t. TypeOK
  BY DEF Inv
<1>1. ASSUME NEW w \in Worker, WorkerStep(w) PROVE Inv'
  <2>1. CASE Start(w)
    <3>1. pc' \in [Worker -> Stages] /\ Holding'
      BY <2>1, GotoPreserves DEF Start
    <3> QED
      BY <2>1, <3>1 DEF Start, Inv, TypeOK, UnlistedIsFresh, ReceiptsMatchOutcomes,
                       rowVars, faultVars
  <2>2. CASE PollFails(w)
    <3>1. /\ status' \in [Job -> Statuses] /\ due' \in [Job -> BOOLEAN]
          /\ stale' \in [Job -> BOOLEAN] /\ UnlistedIsFresh' /\ ReceiptsMatchOutcomes'
      BY <2>2, RecoveryPreserves DEF PollFails
    <3> QED
      BY <2>2, <3>1 DEF PollFails, Inv, TypeOK, Holding, workerVars, faultVars
  <2>3. CASE Poll(w)
    <3>1. /\ status' \in [Job -> Statuses] /\ due' \in [Job -> BOOLEAN]
          /\ stale' \in [Job -> BOOLEAN] /\ UnlistedIsFresh' /\ ReceiptsMatchOutcomes'
      BY <2>3, RecoveryPreserves DEF Poll
    <3>2. pc' \in [Worker -> Stages] /\ Holding'
      BY <2>3, GotoPreserves DEF Poll
    <3> QED
      BY <2>3, <3>1, <3>2 DEF Poll, Inv, TypeOK, faultVars
  <2>4. CASE CountBacklog(w)
    <3>1. pc' \in [Worker -> Stages] /\ Holding'
      BY <2>4, GotoPreserves DEF CountBacklog
    <3>2. room' \in [Worker -> Int]
      BY <2>4, <1>t, CapacityIsInteger DEF CountBacklog, TypeOK
    <3> QED
      BY <2>4, <3>1, <3>2 DEF CountBacklog, Inv, TypeOK, UnlistedIsFresh,
                             ReceiptsMatchOutcomes, rowVars, faultVars
  <2>5. CASE Insert(w)
    <3>1. PICK listed \in SUBSET Job :
            LET taken == Examined(w, listed) \cap New(listed) IN
            /\ status' = [j \in Job |-> IF j \in taken THEN "pending" ELSE status[j]]
            /\ due' = [j \in Job |-> due[j] \/ j \in taken]
      BY <2>5 DEF Insert
    <3>2. ASSUME NEW j \in Job
          PROVE  \/ status'[j] = status[j]
                 \/ status[j] = "unlisted" /\ status'[j] = "pending"
      BY <3>1 DEF New
    <3>3. status' \in [Job -> Statuses] /\ due' \in [Job -> BOOLEAN]
      BY <3>1, <1>t DEF TypeOK
    <3>4. pc' \in [Worker -> Stages] /\ Holding'
      BY <2>5, GotoPreserves DEF Insert
    <3>5. UnlistedIsFresh' /\ ReceiptsMatchOutcomes'
      <4>1. attempts' = attempts /\ pair' = pair
        BY <2>5 DEF Insert
      <4>2. UnlistedIsFresh'
        BY <3>2, <4>1 DEF Inv, UnlistedIsFresh
      <4>3. ASSUME NEW j \in Job, status[j] = "unlisted", status'[j] = "pending"
            PROVE  ~pair[j] /\ attempts[j] < AttemptLimit
        BY <4>3 DEF Inv, TypeOK, UnlistedIsFresh, ReceiptsMatchOutcomes
      <4>4. ASSUME NEW j \in Job
            PROVE  /\ pair'[j] <=> status'[j] = "completed"
                   /\ status'[j] = "failed" => attempts'[j] = AttemptLimit
                   /\ status'[j] \in OpenStatus => attempts'[j] < AttemptLimit
        <5>1. CASE status'[j] = status[j]
          BY <4>1, <5>1 DEF Inv, ReceiptsMatchOutcomes
        <5>2. CASE status[j] = "unlisted" /\ status'[j] = "pending"
          BY <4>1, <4>3, <5>2
        <5> QED
          BY <3>2, <5>1, <5>2
      <4> QED
        BY <4>2, <4>4 DEF ReceiptsMatchOutcomes
    <3>6. claims' \in [Worker -> 0..BatchSize]
      BY <2>5, <1>t DEF Insert, TypeOK
    <3> QED
      BY <2>5, <3>3, <3>4, <3>5, <3>6 DEF Insert, Inv, TypeOK, faultVars
  <2>6. CASE InsertConflicts(w)
    <3>1. pc' \in [Worker -> Stages] /\ Holding'
      BY <2>6, GotoPreserves DEF InsertConflicts
    <3> QED
      BY <2>6, <3>1 DEF InsertConflicts, Inv, TypeOK, UnlistedIsFresh,
                       ReceiptsMatchOutcomes, rowVars
  <2>7. ASSUME NEW j \in Job, Claim(w, j) PROVE Inv'
    <3>1. /\ attempts[j] + 1 \in 1..AttemptLimit /\ claims[w] + 1 \in 0..BatchSize
          /\ status[j] \in {"pending", "retry_wait"}
      BY <2>7, <1>t DEF Claim, Claimable, BatchOpen, TypeOK
    <3>2. TypeOK'
      BY <2>7, <3>1, <1>t DEF Claim, ClaimLeavesAttempts, Goto, TypeOK, faultVars
    <3>3. Holding'
      BY <2>7, <3>1 DEF Claim, Goto, Inv, Holding, TypeOK
    <3>4. UnlistedIsFresh' /\ ReceiptsMatchOutcomes'
      BY <2>7, <3>1 DEF Claim, ClaimLeavesAttempts, Inv, TypeOK, UnlistedIsFresh,
                       ReceiptsMatchOutcomes
    <3> QED
      BY <3>2, <3>3, <3>4 DEF Inv
  <2>8. CASE EndBatch(w)
    <3>1. pc' \in [Worker -> Stages] /\ Holding'
      BY <2>8, GotoPreserves DEF EndBatch
    <3> QED
      BY <2>8, <3>1 DEF EndBatch, Inv, TypeOK, UnlistedIsFresh, ReceiptsMatchOutcomes,
                       rowVars, faultVars
  <2>9. CASE Resolve(w)
    <3>1. pc' \in [Worker -> Stages] /\ Holding'
      BY <2>9, GotoPreserves DEF Resolve
    <3> QED
      BY <2>9, <3>1 DEF Resolve, Inv, TypeOK, UnlistedIsFresh, ReceiptsMatchOutcomes,
                       rowVars, faultVars
  <2>10. CASE Complete(w)
    <3>1. /\ status' \in [Job -> Statuses] /\ attempts' \in [Job -> 0..AttemptLimit]
          /\ stale' \in [Job -> BOOLEAN] /\ pair' \in [Job -> BOOLEAN]
          /\ UnlistedIsFresh' /\ ReceiptsMatchOutcomes'
      BY <2>10, ClosePreserves DEF Complete
    <3>2. /\ pc' \in [Worker -> Stages] /\ held' \in [Worker -> Job \cup {NoJob}]
          /\ attempt' \in [Worker -> 0..AttemptLimit] /\ Holding'
      BY <2>10, ReleasePreserves DEF Complete
    <3> QED
      BY <2>10, <3>1, <3>2 DEF Complete, Inv, TypeOK, faultVars
  <2>11. CASE CompleteFails(w)
    <3>1. pc' \in [Worker -> Stages] /\ Holding'
      BY <2>11, GotoPreserves DEF CompleteFails
    <3> QED
      BY <2>11, <3>1 DEF CompleteFails, RollBack, Inv, TypeOK, UnlistedIsFresh,
                        ReceiptsMatchOutcomes, faultVars
  <2>12. CASE CompleteAbsent(w)
    <3>1. /\ status' \in [Job -> Statuses] /\ attempts' \in [Job -> 0..AttemptLimit]
          /\ stale' \in [Job -> BOOLEAN] /\ pair' \in [Job -> BOOLEAN]
          /\ UnlistedIsFresh' /\ ReceiptsMatchOutcomes'
      BY <2>12, ClosePreserves DEF CompleteAbsent
    <3>2. /\ pc' \in [Worker -> Stages] /\ held' \in [Worker -> Job \cup {NoJob}]
          /\ attempt' \in [Worker -> 0..AttemptLimit] /\ Holding'
      BY <2>12, ReleasePreserves DEF CompleteAbsent
    <3> QED
      BY <2>12, <3>1, <3>2 DEF CompleteAbsent, Inv, TypeOK, faultVars
  <2>13. CASE Fail(w)
    <3> DEFINE outcome == IF Exhausted(w) THEN "failed" ELSE "retry_wait"
    <3>1. held[w] \in Job /\ attempt[w] \in 1..AttemptLimit
      BY <2>13 DEF Fail, Inv, Holding
    <3>2. /\ outcome = "failed" => attempt[w] = AttemptLimit
          /\ outcome = "retry_wait" => attempt[w] < AttemptLimit
          /\ outcome \in {"failed", "retry_wait"}
      BY <3>1 DEF Exhausted
    <3>3. Close(w, outcome) /\ UNCHANGED pair /\ Current(w) /\ pc[w] = "fail"
      BY <2>13 DEF Fail
    <3> HIDE DEF outcome
    <3>4. /\ status' \in [Job -> Statuses] /\ attempts' \in [Job -> 0..AttemptLimit]
          /\ stale' \in [Job -> BOOLEAN] /\ pair' \in [Job -> BOOLEAN]
          /\ UnlistedIsFresh' /\ ReceiptsMatchOutcomes'
      BY <3>2, <3>3, ClosePreserves
    <3>5. /\ pc' \in [Worker -> Stages] /\ held' \in [Worker -> Job \cup {NoJob}]
          /\ attempt' \in [Worker -> 0..AttemptLimit] /\ Holding'
      BY <2>13, ReleasePreserves DEF Fail
    <3> QED
      BY <2>13, <3>4, <3>5 DEF Fail, Inv, TypeOK, faultVars
  <2>14. CASE Dies(w)
    <3>1. /\ pc' \in [Worker -> Stages] /\ held' \in [Worker -> Job \cup {NoJob}]
          /\ attempt' \in [Worker -> 0..AttemptLimit] /\ Holding'
      BY <2>14, ReleasePreserves DEF Dies
    <3> QED
      BY <2>14, <3>1 DEF Dies, Inv, TypeOK, UnlistedIsFresh, ReceiptsMatchOutcomes,
                        rowVars, faultVars
  <2> QED
    BY <1>1, <2>1, <2>2, <2>3, <2>4, <2>5, <2>6, <2>7, <2>8, <2>9, <2>10, <2>11,
       <2>12, <2>13, <2>14 DEF WorkerStep
<1>2. ASSUME NEW w \in Worker, Crash(w) PROVE Inv'
  <2>1. /\ pc' \in [Worker -> Stages] /\ held' \in [Worker -> Job \cup {NoJob}]
        /\ attempt' \in [Worker -> 0..AttemptLimit] /\ Holding'
    BY <1>2, ReleasePreserves DEF Crash
  <2> QED
    BY <1>2, <2>1 DEF Crash, Inv, TypeOK, UnlistedIsFresh, ReceiptsMatchOutcomes, rowVars
<1>3. ASSUME NEW j \in Job, LeaseExpires(j) PROVE Inv'
  BY <1>3 DEF LeaseExpires, Inv, TypeOK, Holding, UnlistedIsFresh, ReceiptsMatchOutcomes,
              workerVars, faultVars
<1>4. ASSUME NEW j \in Job, RetryFallsDue(j) PROVE Inv'
  BY <1>4 DEF RetryFallsDue, Inv, TypeOK, Holding, UnlistedIsFresh, ReceiptsMatchOutcomes,
              workerVars, faultVars
<1>5. CASE UNCHANGED vars
  BY <1>5 DEF vars, rowVars, workerVars, faultVars, Inv, TypeOK, Holding, UnlistedIsFresh,
              ReceiptsMatchOutcomes
<1> QED
  BY <1>1, <1>2, <1>3, <1>4, <1>5 DEF Next

LEMMA InvAlways == Spec => []Inv
<1> QED
  BY InvInit, InvStep, PTL DEF Spec

-----------------------------------------------------------------------------
(* The theorems *)

(* Every variable keeps its type for every number of jobs and processes: in *)
(* particular attempts never leaves the range of the CHECK of migration 0017 *)
(* (attempts BETWEEN 0 AND 8).                                              *)
THEOREM TypeCorrect == Spec => []TypeOK
<1>1. Inv => TypeOK
  BY DEF Inv
<1> QED
  BY <1>1, InvAlways, PTL

(* Whatever the processes do, crash or conclude late, a receipt pair exists *)
(* exactly for the completed jobs, and only a job out of attempts is given  *)
(* up (complete and fail of the three stores).                              *)
THEOREM ReceiptsSafe == Spec => []ReceiptsMatchOutcomes
<1>1. Inv => ReceiptsMatchOutcomes
  BY DEF Inv
<1> QED
  BY <1>1, InvAlways, PTL

(* An outcome of a current claim is a legal step of its row.                *)
LEMMA CloseIsLegal ==
  ASSUME Inv, NEW w \in Worker, pc[w] \in {"complete", "absent", "fail"}, Current(w),
         NEW outcome \in TerminalStatus \cup {"retry_wait"}, Close(w, outcome),
         NEW j \in Job
  PROVE  LegalRowStep(j)
<1>1. held[w] \in Job /\ attempt[w] \in 1..AttemptLimit
  BY DEF Inv, Holding
<1>2. CASE j = held[w]
  <2>1. status[j] = "processing" /\ attempts[j] = attempt[w] - 1
    BY <1>2 DEF Current
  <2>2. status'[j] = outcome /\ attempts'[j] = attempts[j] + 1
    BY <1>1, <1>2, <2>1 DEF Close, Inv, TypeOK
  <2> QED
    BY <2>1, <2>2 DEF LegalRowStep
<1>3. CASE j # held[w]
  <2>1. status'[j] = status[j] /\ attempts'[j] = attempts[j]
    BY <1>3 DEF Close, Inv, TypeOK
  <2> QED
    BY <2>1 DEF LegalRowStep
<1> QED
  BY <1>2, <1>3

(* The only other steps that move a row are recovery, listing and claims.   *)
LEMMA StepIsLegal == ASSUME Inv, [Next]_vars, NEW j \in Job PROVE LegalRowStep(j)
<1>1. CASE UNCHANGED <<status, attempts>>
  BY <1>1 DEF LegalRowStep
<1>2. CASE RecoverStale /\ UNCHANGED attempts
  BY <1>2 DEF RecoverStale, Recoverable, LegalRowStep, Inv, TypeOK
<1>3. ASSUME NEW w \in Worker, WorkerStep(w) PROVE LegalRowStep(j)
  <2>1. CASE PollFails(w) \/ Poll(w)
    BY <1>2, <2>1 DEF PollFails, Poll
  <2>2. CASE Insert(w)
    BY <2>2 DEF Insert, New, LegalRowStep, Inv, TypeOK
  <2>3. ASSUME NEW k \in Job, Claim(w, k) PROVE LegalRowStep(j)
    BY <2>3 DEF Claim, Claimable, ClaimLeavesAttempts, LegalRowStep, Inv, TypeOK
  <2>4. CASE Complete(w)
    BY <2>4, CloseIsLegal DEF Complete
  <2>5. CASE CompleteAbsent(w)
    BY <2>5, CloseIsLegal DEF CompleteAbsent
  <2>6. CASE Fail(w)
    BY <2>6, CloseIsLegal DEF Fail
  <2>7. CASE \/ Start(w) \/ CountBacklog(w) \/ InsertConflicts(w) \/ EndBatch(w)
             \/ Resolve(w) \/ CompleteFails(w) \/ Dies(w)
    BY <1>1, <2>7 DEF Start, CountBacklog, InsertConflicts, EndBatch, Resolve,
                      CompleteFails, Dies, rowVars
  <2> QED
    BY <1>3, <2>1, <2>2, <2>3, <2>4, <2>5, <2>6, <2>7 DEF WorkerStep
<1>4. ASSUME NEW w \in Worker, Crash(w) PROVE LegalRowStep(j)
  BY <1>1, <1>4 DEF Crash, rowVars
<1>5. ASSUME NEW k \in Job, LeaseExpires(k) \/ RetryFallsDue(k) PROVE LegalRowStep(j)
  BY <1>1, <1>5 DEF LeaseExpires, RetryFallsDue
<1> QED
  BY <1>1, <1>3, <1>4, <1>5 DEF Next, vars, rowVars

(* No interleaving of stale and current claims makes a row take a step that *)
(* the lifecycle trigger of the table refuses, although a claim leaves the  *)
(* attempts it is identified by unchanged (claim, complete, fail).          *)
THEOREM RowsAreLegal == Spec => TriggerAdmits
<1>1. Inv /\ [Next]_vars => [\A j \in Job : LegalRowStep(j)]_vars
  BY StepIsLegal
<1> QED
  BY <1>1, InvAlways, PTL DEF Spec, TriggerAdmits
-----------------------------------------------------------------------------
(* The queue implements bounded retries *)

JobResult == [j \in Job |-> IF status[j] \in TerminalStatus THEN status[j] ELSE "none"]
JobRecord == [j \in Job |-> IF pair[j] THEN "completed" ELSE "none"]

LEMMA RetriesMapping ==
  ASSUME NEW j \in Job, NEW r
  PROVE  /\ Retries!Spend(j) <=>
              /\ JobResult[j] = "none"
              /\ attempts[j] < AttemptLimit
              /\ attempts' = [attempts EXCEPT ![j] = @ + 1]
         /\ Retries!Retry(j) <=>
              /\ Retries!Spend(j)
              /\ attempts'[j] < AttemptLimit
              /\ JobResult' = JobResult /\ JobRecord' = JobRecord
         /\ Retries!End(j, r) <=>
              /\ Retries!Spend(j)
              /\ r \in {"failed"} => attempts'[j] = AttemptLimit
              /\ JobResult' = [JobResult EXCEPT ![j] = r]
              /\ JobRecord' = IF r \in {"completed"} THEN [JobRecord EXCEPT ![j] = r]
                             ELSE JobRecord
BY DEF Retries!Spend, Retries!Retry, Retries!End, JobResult, JobRecord

(* An outcome of a current claim spends the next attempt, and ends the job   *)
(* unless it is a retry.                                                     *)
LEMMA OutcomeImplements ==
  ASSUME Inv, NEW w \in Worker, pc[w] \in {"complete", "absent", "fail"}, Current(w),
         NEW outcome \in {"completed", "absent_intelligence", "failed", "retry_wait"},
         Close(w, outcome),
         outcome = "failed" => attempt[w] = AttemptLimit,
         outcome = "retry_wait" => attempt[w] < AttemptLimit,
         outcome = "completed" => pair' = [pair EXCEPT ![held[w]] = TRUE],
         outcome # "completed" => UNCHANGED pair
  PROVE  Retries!Next
<1> DEFINE k == held[w]
<1>1. /\ k \in Job /\ attempt[w] \in 1..AttemptLimit
      /\ status[k] = "processing" /\ attempts[k] = attempt[w] - 1 /\ attempts[k] \in Nat
  BY DEF Inv, TypeOK, Holding, Current
<1>2. /\ status' = [status EXCEPT ![k] = outcome]
      /\ attempts' = [attempts EXCEPT ![k] = attempt[w]]
      /\ status \in [Job -> Statuses] /\ attempts \in [Job -> 0..AttemptLimit]
      /\ pair \in [Job -> BOOLEAN]
  BY DEF Close, Inv, TypeOK
<1> HIDE DEF k
<1>3. attempts'[k] = attempt[w] /\ attempts' = [attempts EXCEPT ![k] = @ + 1]
  <2>1. attempt[w] = attempts[k] + 1
    BY <1>1
  <2> QED
    BY ONLY <1>1, <1>2, <2>1
<1>4. Retries!Spend(k)
  <2>1. JobResult[k] = "none"
    BY <1>1 DEF JobResult
  <2>2. attempts[k] < AttemptLimit
    BY <1>1
  <2> QED
    BY ONLY <1>1, <1>3, <2>1, <2>2, RetriesMapping
<1>5. CASE outcome = "retry_wait"
  <2>1. JobResult' = JobResult
    BY <1>1, <1>2, <1>5 DEF JobResult
  <2>2. JobRecord' = JobRecord
    BY <1>5 DEF JobRecord
  <2>3. Retries!Retry(k)
    BY <1>1, <1>3, <1>4, <1>5, <2>1, <2>2, RetriesMapping
  <2> QED
    BY <1>1, <2>3 DEF Retries!Next
<1>6. CASE outcome \in TerminalStatus
  <2>1. JobResult' = [JobResult EXCEPT ![k] = outcome]
    BY <1>1, <1>2, <1>6 DEF JobResult
  <2>2. outcome = "completed" => JobRecord' = [JobRecord EXCEPT ![k] = outcome]
    <3> SUFFICES ASSUME outcome = "completed"
                 PROVE  JobRecord' = [JobRecord EXCEPT ![k] = "completed"]
      OBVIOUS
    <3>1. pair' = [pair EXCEPT ![k] = TRUE]
      BY DEF k
    <3>2. ASSUME NEW j \in Job
          PROVE  JobRecord'[j] = [JobRecord EXCEPT ![k] = "completed"][j]
      BY <1>1, <1>2, <3>1 DEF JobRecord
    <3> QED
      BY <3>2 DEF JobRecord
  <2>3. outcome # "completed" => JobRecord' = JobRecord
    BY DEF JobRecord
  <2>4. Retries!End(k, outcome)
    BY <1>1, <1>3, <1>4, <2>1, <2>2, <2>3, RetriesMapping
  <2> QED
    BY <1>1, <1>6, <2>4 DEF Retries!Next
<1> QED
  BY <1>5, <1>6

(* A step that leaves attempts and pairs alone and ends no job is a stutter. *)
LEMMA OtherStepsStutter ==
  ASSUME UNCHANGED <<attempts, pair>>,
         \A j \in Job : status'[j] # status[j] =>
           status[j] \notin TerminalStatus /\ status'[j] \notin TerminalStatus
  PROVE  UNCHANGED <<attempts, JobResult, JobRecord>>
<1>1. JobRecord' = JobRecord
  BY DEF JobRecord
<1>2. \A j \in Job : (IF status'[j] \in TerminalStatus THEN status'[j] ELSE "none")
                     = (IF status[j] \in TerminalStatus THEN status[j] ELSE "none")
  OBVIOUS
<1>3. JobResult' = JobResult
  BY <1>2 DEF JobResult
<1> QED
  BY <1>1, <1>3

LEMMA RetriesStep ==
  ASSUME Inv, [Next]_vars
  PROVE  Retries!Next \/ UNCHANGED <<attempts, JobResult, JobRecord>>
<1>t. TypeOK
  BY DEF Inv
<1>1. CASE UNCHANGED <<status, attempts, pair>>
  BY <1>1, OtherStepsStutter
<1>2. CASE RecoverStale /\ UNCHANGED <<attempts, pair>>
  BY <1>2, OtherStepsStutter DEF RecoverStale, Recoverable
<1>3. ASSUME NEW w \in Worker, WorkerStep(w)
      PROVE  Retries!Next \/ UNCHANGED <<attempts, JobResult, JobRecord>>
  <2>1. CASE PollFails(w) \/ Poll(w)
    BY <1>2, <2>1 DEF PollFails, Poll
  <2>2. CASE Insert(w)
    <3>1. \A j \in Job : status'[j] # status[j] =>
            status[j] = "unlisted" /\ status'[j] = "pending"
      BY <2>2 DEF Insert, New
    <3>2. UNCHANGED <<attempts, pair>>
      BY <2>2 DEF Insert
    <3> QED
      BY <3>1, <3>2, OtherStepsStutter
  <2>3. ASSUME NEW k \in Job, Claim(w, k)
        PROVE  Retries!Next \/ UNCHANGED <<attempts, JobResult, JobRecord>>
    <3>1. \A j \in Job : status'[j] # status[j] =>
            status[j] \in {"pending", "retry_wait"} /\ status'[j] = "processing"
      BY <2>3, <1>t DEF Claim, Claimable, TypeOK
    <3>2. UNCHANGED <<attempts, pair>>
      BY <2>3 DEF Claim, ClaimLeavesAttempts
    <3> QED
      BY <3>1, <3>2, OtherStepsStutter
  <2>4. CASE Complete(w)
    BY <2>4, OutcomeImplements DEF Complete
  <2>5. CASE CompleteAbsent(w)
    BY <2>5, OutcomeImplements DEF CompleteAbsent
  <2>6. CASE Fail(w)
    <3> DEFINE outcome == IF Exhausted(w) THEN "failed" ELSE "retry_wait"
    <3>1. attempt[w] \in 1..AttemptLimit
      BY <2>6 DEF Fail, Inv, Holding
    <3>2. /\ outcome = "failed" => attempt[w] = AttemptLimit
          /\ outcome = "retry_wait" => attempt[w] < AttemptLimit
          /\ outcome \in {"failed", "retry_wait"}
      BY <3>1 DEF Exhausted
    <3>3. Close(w, outcome) /\ UNCHANGED pair /\ Current(w) /\ pc[w] = "fail"
      BY <2>6 DEF Fail
    <3> HIDE DEF outcome
    <3> QED
      BY <3>2, <3>3, OutcomeImplements
  <2>7. CASE \/ Start(w) \/ CountBacklog(w) \/ InsertConflicts(w) \/ EndBatch(w)
             \/ Resolve(w) \/ CompleteFails(w) \/ Dies(w)
    BY <1>1, <2>7 DEF Start, CountBacklog, InsertConflicts, EndBatch, Resolve,
                      CompleteFails, RollBack, Dies, rowVars
  <2> QED
    BY <1>3, <2>1, <2>2, <2>3, <2>4, <2>5, <2>6, <2>7 DEF WorkerStep
<1>4. ASSUME NEW w \in Worker, Crash(w) PROVE UNCHANGED <<status, attempts, pair>>
  BY <1>4 DEF Crash, rowVars
<1>5. ASSUME NEW k \in Job, LeaseExpires(k) \/ RetryFallsDue(k)
      PROVE  UNCHANGED <<status, attempts, pair>>
  BY <1>5 DEF LeaseExpires, RetryFallsDue
<1> QED
  BY <1>1, <1>3, <1>4, <1>5 DEF Next, vars, rowVars

(* However many processes claim a job, lose it, recover it or conclude it    *)
(* late, seen from its row it is one series of at most AttemptLimit attempts *)
(* that ends once: the queue implements BoundedRetries (claim, complete,     *)
(* fail, recover_stale of the three stores).                                 *)
THEOREM ImplementsRetries == Spec => JobsEndOnce
<1>1. Init => Retries!Init
  BY DEF Init, Retries!Init
<1>2. Inv /\ [Next]_vars =>
        [Retries!Next]_<<attempts,
          [j \in Job |-> IF status[j] \in TerminalStatus THEN status[j] ELSE "none"],
          [j \in Job |-> IF pair[j] THEN "completed" ELSE "none"]>>
  BY RetriesStep DEF JobResult, JobRecord
<1> QED
  BY <1>1, <1>2, InvAlways, PTL DEF Spec, JobsEndOnce, Retries!Spec
=============================================================================
