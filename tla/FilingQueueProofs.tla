-------------------------- MODULE FilingQueueProofs --------------------------
(***************************************************************************)
(* Proofs about FilingQueue for every set of filings and workers, every    *)
(* batch size and every pair of attempt limits.                            *)
(***************************************************************************)
EXTENDS FilingQueue, TLAPS

(* The outcomes the worker code can hand to the terminal transaction.       *)
OutcomePlans ==
  {SkipPlan, DeterministicPublication, Approval(TRUE), Approval(FALSE),
   RetryScreenedOut, RetryIncomplete, Disagreement}

(* Every outcome has the type of a plan: a lemma about the constants only.  *)
LEMMA OutcomesArePlans == OutcomePlans \subseteq Plans
BY DEF OutcomePlans, Plans, SkipPlan, DeterministicPublication, Approval,
       RetryScreenedOut, RetryIncomplete, Disagreement, Plan, TerminalStatus,
       Decisions, Dispositions

LEMMA NoJobTyped == NoJob \in Jobs
BY QueueAssumption, OutcomesArePlans DEF NoJob, Jobs, OutcomePlans

(* The updates the worker code makes to a job keep it a job.                *)
LEMMA JobUpdates ==
  ASSUME NEW j \in Jobs, NEW p \in Plans, NEW v \in {"approve", "challenge"},
         NEW e \in {"ordinary", "verifier"}
  PROVE  /\ [j EXCEPT !.error = e] \in Jobs
         /\ [j EXCEPT !.plan = p] \in Jobs
         /\ [j EXCEPT !.verdict = v] \in Jobs
         /\ [j EXCEPT !.plan = p, !.verdict = v] \in Jobs
BY DEF Jobs

(* The four ways the worker code updates its job in place.                 *)
LEMMA RaiseTyped ==
  ASSUME job \in [Worker -> Jobs], NEW w \in Worker, NEW e \in {"ordinary", "verifier"},
         Raise(w, e)
  PROVE  job' \in [Worker -> Jobs]
<1>1. [job[w] EXCEPT !.error = e] \in Jobs
  BY JobUpdates, OutcomesArePlans DEF OutcomePlans
<1>2. job' = [job EXCEPT ![w] = [job[w] EXCEPT !.error = e]]
  BY DEF Raise
<1> QED
  BY <1>1, <1>2

LEMMA ConcludeTyped ==
  ASSUME job \in [Worker -> Jobs], NEW w \in Worker, NEW p \in Plans, Conclude(w, p)
  PROVE  job' \in [Worker -> Jobs]
<1>1. [job[w] EXCEPT !.plan = p] \in Jobs
  BY JobUpdates
<1>2. job' = [job EXCEPT ![w] = [job[w] EXCEPT !.plan = p]]
  BY DEF Conclude
<1> QED
  BY <1>1, <1>2

LEMMA ReviewTyped ==
  ASSUME job \in [Worker -> Jobs], NEW w \in Worker, NEW p \in Plans,
         NEW v \in {"approve", "challenge"},
         \/ job' = [job EXCEPT ![w].plan = p, ![w].verdict = v]
         \/ job' = [job EXCEPT ![w].verdict = v]
  PROVE  job' \in [Worker -> Jobs]
<1>1. [job[w] EXCEPT !.plan = p, !.verdict = v] \in Jobs /\ [job[w] EXCEPT !.verdict = v] \in Jobs
  BY JobUpdates
<1>2. \/ job' = [job EXCEPT ![w] = [job[w] EXCEPT !.plan = p, !.verdict = v]]
      \/ job' = [job EXCEPT ![w] = [job[w] EXCEPT !.verdict = v]]
  OBVIOUS
<1> QED
  BY <1>1, <1>2

(* Variables keep their types through every step of every worker: in        *)
(* particular attempts never leaves the range of its CHECK constraint.      *)
LEMMA TypeInit == Init => TypeOK
BY QueueAssumption, NoJobTyped DEF Init, TypeOK, Stages

LEMMA TypeStep == TypeOK /\ [Next]_vars => TypeOK'
<1> SUFFICES ASSUME TypeOK, [Next]_vars PROVE TypeOK'
  OBVIOUS
<1> USE QueueAssumption DEF TypeOK, Stages
<1>n. NoJob \in Jobs
  BY NoJobTyped
<1>p. SkipPlan \in Plans /\ DeterministicPublication \in Plans
      /\ Approval(TRUE) \in Plans /\ Approval(FALSE) \in Plans
      /\ RetryScreenedOut \in Plans /\ RetryIncomplete \in Plans /\ Disagreement \in Plans
  BY OutcomesArePlans DEF OutcomePlans
<1>1. ASSUME NEW w \in Worker, Step(w) PROVE TypeOK'
  <2>1. CASE Start(w)
    BY <2>1 DEF Start, RequeueExpired, Goto, ledgerVars, faultVars, OpenStatus
  <2>2. CASE Discover(w)
    BY <2>2 DEF Discover, Goto, ledgerVars, faultVars, OpenStatus
  <2>3. CASE Requeue(w)
    BY <2>3 DEF Requeue, RequeueExpired, Goto, ledgerVars, faultVars, OpenStatus
  <2>4. ASSUME NEW f \in Filing, Claim(w, f) PROVE TypeOK'
    <3>1. attempts[f] + 1 \in 0..AttemptLimit /\ claims[w] + 1 \in 0..BatchSize
      BY <2>4 DEF Claim, CheckAllows
    <3>2. [NoJob EXCEPT !.filing = f, !.attempt = attempts[f] + 1, !.recon = Resumes(f)]
            \in Jobs
      BY <3>1, NoJobTyped DEF Jobs, Resumes
    <3> QED
      BY <2>4, <3>1, <3>2 DEF Claim, Goto, ledgerVars, faultVars, OpenStatus
  <2>5. ASSUME NEW f \in Filing, ClaimFails(w, f) PROVE TypeOK'
    BY <2>5, <1>n DEF ClaimFails, EndCycle, Goto, queueVars, ledgerVars, faultVars
  <2>6. CASE NothingToClaim(w)
    BY <2>6, <1>n DEF NothingToClaim, EndCycle, Goto, queueVars, ledgerVars, faultVars
  <2>7. CASE StepFails(w)
    <3>1. job' \in [Worker -> Jobs]
      BY <2>7, <1>p, RaiseTyped DEF StepFails
    <3> QED
      BY <2>7, <3>1 DEF StepFails, Raise, Goto, queueVars, ledgerVars, faultVars
  <2>8. CASE Screen(w)
    <3>1. job' \in [Worker -> Jobs]
      BY <2>8, <1>p, ConcludeTyped DEF Screen
    <3>2. pc' \in [Worker -> Stages]
      BY <2>8 DEF Screen, Conclude, Goto
    <3>3. escalated' \in [Filing -> BOOLEAN]
      BY <2>8 DEF Screen
    <3> QED
      BY <2>8, <3>1, <3>2, <3>3 DEF Screen, ledgerVars, faultVars
  <2>9. CASE Analyze(w)
    <3>1. job' \in [Worker -> Jobs]
      BY <2>9, <1>p, ConcludeTyped DEF Analyze
    <3> QED
      BY <2>9, <3>1 DEF Analyze, Conclude, Goto, queueVars, ledgerVars, faultVars
  <2>10. CASE FirstReview(w)
    <3>1. job' \in [Worker -> Jobs]
      <4>1. PICK r \in Reports :
              \/ job' = [job EXCEPT ![w].plan = Approval(FALSE), ![w].verdict = r.verdict]
              \/ job' = [job EXCEPT ![w].verdict = r.verdict]
        BY <2>10 DEF FirstReview
      <4>2. r.verdict \in {"approve", "challenge"}
        BY DEF Reports
      <4> QED
        BY <4>1, <4>2, <1>p, ReviewTyped
    <3> QED
      BY <2>10, <3>1 DEF FirstReview, Goto, queueVars, ledgerVars, faultVars
  <2>11. CASE ReserveRetry(w)
    <3>1. job' \in [Worker -> Jobs]
      BY <2>11, <1>p, RaiseTyped DEF ReserveRetry
    <3>2. pc' \in [Worker -> Stages]
      BY <2>11 DEF ReserveRetry, Raise, Goto
    <3>3. \/ reserved' = [reserved EXCEPT ![job[w].filing] = TRUE]
          \/ reserved' = reserved
      BY <2>11 DEF ReserveRetry
    <3>4. reserved' \in [Filing -> BOOLEAN]
      BY <3>3
    <3> QED
      BY <2>11, <3>1, <3>2, <3>4 DEF ReserveRetry, queueVars, faultVars
  <2>12. CASE Reanalyze(w)
    <3>1. job' \in [Worker -> Jobs]
      BY <2>12, <1>p, RaiseTyped, ConcludeTyped DEF Reanalyze
    <3> QED
      BY <2>12, <3>1 DEF Reanalyze, Raise, Conclude, Goto, queueVars, ledgerVars, faultVars
  <2>13. CASE SecondReview(w)
    <3>1. job' \in [Worker -> Jobs]
      <4>1. PICK r \in Reports :
              job' = [job EXCEPT ![w].plan = IF r.approved THEN Approval(TRUE) ELSE Disagreement,
                                 ![w].verdict = r.verdict]
        BY <2>13 DEF SecondReview
      <4>2. r.verdict \in {"approve", "challenge"}
        BY DEF Reports
      <4>3. (IF r.approved THEN Approval(TRUE) ELSE Disagreement) \in Plans
        BY <1>p
      <4> QED
        BY <4>1, <4>2, <4>3, ReviewTyped
    <3> QED
      BY <2>13, <3>1 DEF SecondReview, Goto, queueVars, ledgerVars, faultVars
  <2>14. CASE Write(w)
    <3>1. job[w].plan \in Plans
      BY DEF Jobs
    <3>2. \/ pc' = [pc EXCEPT ![w] = "count"] /\ job' = job
          \/ pc' = [pc EXCEPT ![w] = "claim"] /\ job' = [job EXCEPT ![w] = NoJob]
      BY <2>14 DEF Write, NextCandidate, Goto
    <3>3. job' \in [Worker -> Jobs]
      BY <3>2, <1>n
    <3>4. pc' \in [Worker -> Stages]
      BY <3>2
    <3> QED
      BY <2>14, <3>1, <3>3, <3>4 DEF Write, Plans, faultVars
  <2>15. CASE WriteRefused(w)
    <3>1. job' \in [Worker -> Jobs]
      BY <2>15, <1>p, RaiseTyped DEF WriteRefused
    <3> QED
      BY <2>15, <3>1 DEF WriteRefused, Raise, Goto, queueVars, ledgerVars, faultVars
  <2>16. CASE Count(w)
    BY <2>16, <1>n DEF Count, NextCandidate, Goto, queueVars, ledgerVars, faultVars
  <2>17. CASE CountFails(w)
    <3>1. job' \in [Worker -> Jobs]
      BY <2>17, <1>p, RaiseTyped DEF CountFails
    <3> QED
      BY <2>17, <3>1 DEF CountFails, Raise, Goto, queueVars, ledgerVars
  <2>18. CASE HandleRetry(w)
    BY <2>18, <1>n DEF HandleRetry, NextCandidate, Goto, ledgerVars, faultVars, OpenStatus
  <2>19. CASE HandleExhausted(w)
    BY <2>19, <1>n DEF HandleExhausted, NextCandidate, Goto, faultVars, TerminalStatus,
                       Decisions
  <2>20. CASE HandleRefused(w)
    BY <2>20, <1>n DEF HandleRefused, EndCycle, Goto, queueVars, ledgerVars, faultVars
  <2> QED
    BY <1>1, <2>1, <2>2, <2>3, <2>4, <2>5, <2>6, <2>7, <2>8, <2>9, <2>10, <2>11, <2>12,
       <2>13, <2>14, <2>15, <2>16, <2>17, <2>18, <2>19, <2>20 DEF Step
<1>2. ASSUME NEW f \in Filing, LeaseExpires(f) \/ RetryFallsDue(f) \/ Ages(f) PROVE TypeOK'
  <2>1. CASE LeaseExpires(f)
    BY <2>1 DEF LeaseExpires, ledgerVars, faultVars
  <2>2. CASE RetryFallsDue(f)
    BY <2>2 DEF RetryFallsDue, ledgerVars, faultVars
  <2>3. CASE Ages(f)
    BY <2>3 DEF Ages, ledgerVars, faultVars
  <2> QED
    BY <1>2, <2>1, <2>2, <2>3
<1>3. ASSUME NEW w \in Worker, Crash(w) \/ HandlerAborts(w) PROVE TypeOK'
  BY <1>3, <1>n DEF Crash, HandlerAborts, EndCycle, Goto, queueVars, ledgerVars
<1>4. CASE UNCHANGED vars
  BY <1>4 DEF vars, queueVars, ledgerVars, faultVars
<1> QED
  BY <1>1, <1>2, <1>3, <1>4 DEF Next, Fault, Time

(* Whatever the workers do, every variable keeps its type; in particular the *)
(* attempts stay within the CHECK of migration 0004, because claim's         *)
(* increment past it is refused.                                            *)
THEOREM TypeCorrect == Spec => []TypeOK
BY TypeInit, TypeStep, PTL DEF Spec

-----------------------------------------------------------------------------
(* The ledgers *)

(* Strengthening of LedgersAgree: a worker only ever plans one of the seven  *)
(* outcomes, and a worker past its claim has a filing in hand.               *)
PlansAreOutcomes == \A w \in Worker : job[w].plan \in OutcomePlans

AtWork == Stages \ {"down", "poll", "requeue", "claim"}

WorkHasFiling == \A w \in Worker : pc[w] \in AtWork => job[w].filing \in Filing

LedgerInv == LedgersAgree /\ PlansAreOutcomes /\ WorkHasFiling

(* What every outcome has in common.                                        *)
LEMMA OutcomeShape ==
  ASSUME NEW p \in OutcomePlans
  PROVE  /\ p.decision \in Decisions
         /\ p.brief \in {"none", "v2", "v3"}
         /\ p.decision = "QUALIFIED" <=> p.brief # "none"
         /\ p.disposition = "APPROVED" <=> p.brief = "v2"
         /\ p.disposition \in {"VERIFICATION_DISAGREEMENT", "ANALYST_RETRY_REJECTED"}
              => p.retry
BY DEF OutcomePlans, SkipPlan, DeterministicPublication, Approval, RetryScreenedOut,
       RetryIncomplete, Disagreement, Plan, Decisions

(* Only the terminal transactions touch the decision ledgers, and a          *)
(* reservation is never withdrawn.                                           *)
LEMMA LedgerWriters ==
  ASSUME TypeOK, [Next]_vars
  PROVE  \/ \E w \in Worker : Write(w) \/ HandleExhausted(w)
         \/ /\ UNCHANGED <<decision, disposition, brief>>
            /\ \A f \in Filing : reserved[f] => reserved'[f]
<1> USE DEF ledgerVars
<1>1. ASSUME NEW w \in Worker, Step(w), ~Write(w), ~HandleExhausted(w)
      PROVE  /\ UNCHANGED <<decision, disposition, brief>>
             /\ \A f \in Filing : reserved[f] => reserved'[f]
  <2>1. CASE ReserveRetry(w)
    BY <2>1 DEF ReserveRetry, TypeOK
  <2>2. ASSUME ~ReserveRetry(w) PROVE UNCHANGED ledgerVars
    BY <1>1, <2>2 DEF Step, Start, Discover, Requeue, Claim, ClaimFails, NothingToClaim,
       StepFails, Screen, Analyze, FirstReview, Reanalyze, SecondReview, WriteRefused,
       Count, CountFails, HandleRetry, HandleRefused
  <2> QED
    BY <2>1, <2>2
<1>2. CASE Time
  BY <1>2 DEF Time, LeaseExpires, RetryFallsDue, Ages
<1>3. CASE Fault
  BY <1>3 DEF Fault, Crash, HandlerAborts
<1>4. CASE UNCHANGED vars
  BY <1>4 DEF vars
<1> QED
  BY <1>1, <1>2, <1>3, <1>4 DEF Next

(* What a step may do to a job: forget it, take a filing with no outcome     *)
(* planned, or keep the filing and plan one of the outcomes.                 *)
JobChange(w) ==
  \/ job'[w].filing = NoFiling /\ job'[w].plan = SkipPlan /\ pc'[w] \notin AtWork
  \/ job'[w].filing \in Filing /\ job'[w].plan = SkipPlan
  \/ /\ job'[w].filing = job[w].filing
     /\ job'[w].plan \in OutcomePlans \cup {job[w].plan}
     /\ pc'[w] \in AtWork => pc[w] \in AtWork

LEMMA JobsChange ==
  ASSUME TypeOK, [Next]_vars, NEW v \in Worker
  PROVE  JobChange(v)
<1> USE DEF AtWork, Stages, JobChange
<1>t. pc \in [Worker -> Stages] /\ job \in [Worker -> Jobs]
  BY DEF TypeOK
<1>s. \A w \in Worker : job[w].plan \in OutcomePlans \cup {job[w].plan}
  OBVIOUS
<1>1. ASSUME NEW w \in Worker, Step(w) PROVE JobChange(v)
  <2>1. CASE v # w
    <3>1. pc'[v] = pc[v] /\ job'[v] = job[v]
      BY <1>1, <2>1, <1>t DEF Step, Start, Discover, Requeue, Claim, ClaimFails, NothingToClaim,
         StepFails, Screen, Analyze, FirstReview, ReserveRetry, Reanalyze, SecondReview,
         Write, WriteRefused, Count, CountFails, HandleRetry, HandleExhausted,
         HandleRefused, Goto, Raise, Conclude, NextCandidate, EndCycle
    <3> QED
      BY <3>1
  <2>2. CASE v = w
    <3>1. CASE Start(w) \/ Discover(w) \/ Requeue(w)
      BY <3>1, <2>2, <1>t DEF Start, Discover, Requeue, Goto
    <3>2. ASSUME NEW f \in Filing, Claim(w, f) PROVE JobChange(v)
      BY <3>2, <2>2, <1>t DEF Claim, NoJob
    <3>3. CASE \/ NothingToClaim(w) \/ Write(w) \/ Count(w) \/ HandleRetry(w)
               \/ HandleExhausted(w) \/ HandleRefused(w)
               \/ \E f \in Filing : ClaimFails(w, f)
      BY <3>3, <2>2, <1>t DEF NothingToClaim, Write, Count, HandleRetry, HandleExhausted,
         HandleRefused, ClaimFails, NextCandidate, EndCycle, Goto, NoJob
    <3>4. CASE StepFails(w) \/ WriteRefused(w) \/ CountFails(w) \/ ReserveRetry(w)
      BY <3>4, <2>2, <1>t DEF StepFails, WriteRefused, CountFails, ReserveRetry, Raise, Goto, Jobs
    <3>a. ASSUME NEW p, Conclude(w, p), p \in OutcomePlans, pc[w] \in AtWork
          PROVE  JobChange(v)
      BY <3>a, <2>2, <1>t DEF Conclude, Goto, Jobs
    <3>b. ASSUME NEW s \in Stages, Goto(w, s), UNCHANGED job, pc[w] \in AtWork
          PROVE  JobChange(v)
      BY <3>b, <2>2, <1>t DEF Goto
    <3>5. CASE Screen(w)
      <4>1. pc[w] \in AtWork
        BY <3>5 DEF Screen
      <4>2. \/ (Goto(w, "analyze") \/ Goto(w, "reanalyze")) /\ UNCHANGED job
            \/ Conclude(w, RetryScreenedOut) \/ Conclude(w, SkipPlan)
        <5>1. CASE job[w].recon
          BY <3>5, <5>1, Zenon DEF Screen
        <5>2. CASE ~job[w].recon
          BY <3>5, <5>2, Zenon DEF Screen
        <5> QED
          BY <5>1, <5>2
      <4> QED
        BY <4>1, <4>2, <3>a, <3>b DEF OutcomePlans
    <3>6. CASE Analyze(w)
      BY <3>6, <3>a, <3>b DEF Analyze, OutcomePlans
    <3>7. CASE Reanalyze(w)
      <4>1. CASE Raise(w, "verifier")
        BY <4>1, <3>7, <2>2, <1>t DEF Raise, Goto, Jobs, Reanalyze
      <4>2. CASE ~Raise(w, "verifier")
        BY <4>2, <3>7, <3>a, <3>b DEF Reanalyze, OutcomePlans
      <4> QED
        BY <4>1, <4>2
    <3>8. CASE FirstReview(w) \/ SecondReview(w)
      <4>r. ASSUME NEW p, NEW x,
                   \/ job' = [job EXCEPT ![w].plan = p, ![w].verdict = x]
                   \/ job' = [job EXCEPT ![w].verdict = x]
            PROVE  job'[w].filing = job[w].filing /\ job'[w].plan \in {p, job[w].plan}
        <5>1. \/ job' = [job EXCEPT ![w] = [job[w] EXCEPT !.plan = p, !.verdict = x]]
              \/ job' = [job EXCEPT ![w] = [job[w] EXCEPT !.verdict = x]]
          BY <4>r
        <5>2. \/ job'[w] = [job[w] EXCEPT !.plan = p, !.verdict = x]
              \/ job'[w] = [job[w] EXCEPT !.verdict = x]
          BY <5>1, <1>t
        <5>3. job[w] \in Jobs
          BY <1>t
        <5> QED
          BY <5>2, <5>3 DEF Jobs
      <4>p. Approval(FALSE) \in OutcomePlans /\ Approval(TRUE) \in OutcomePlans
            /\ Disagreement \in OutcomePlans
        BY DEF OutcomePlans
      <4>1. job'[w].filing = job[w].filing
        BY <3>8, <4>r DEF FirstReview, SecondReview
      <4>2. job'[w].plan \in OutcomePlans \cup {job[w].plan}
        <5>1. CASE FirstReview(w)
          BY <5>1, <4>r, <4>p DEF FirstReview
        <5>2. CASE SecondReview(w)
          <6>1. PICK r \in Reports :
                  job' = [job EXCEPT
                            ![w].plan = IF r.approved THEN Approval(TRUE) ELSE Disagreement,
                            ![w].verdict = r.verdict]
            BY <5>2 DEF SecondReview
          <6> QED
            BY <6>1, <4>r, <4>p
        <5> QED
          BY <3>8, <5>1, <5>2
      <4>3. pc[w] \in AtWork
        BY <3>8 DEF FirstReview, SecondReview
      <4> QED
        BY <4>1, <4>2, <4>3, <2>2
    <3> QED
      BY <1>1, <3>1, <3>2, <3>3, <3>4, <3>5, <3>6, <3>7, <3>8 DEF Step
  <2> QED
    BY <2>1, <2>2
<1>2. CASE Time \/ UNCHANGED vars
  BY <1>2 DEF Time, LeaseExpires, RetryFallsDue, Ages, vars
<1>3. ASSUME NEW w \in Worker, Crash(w) \/ HandlerAborts(w) PROVE JobChange(v)
  BY <1>3, <1>t DEF Crash, HandlerAborts, EndCycle, Goto, NoJob
<1> QED
  BY <1>1, <1>2, <1>3 DEF Next, Fault

LEMMA LedgerInit == Init => LedgerInv
<1> SUFFICES ASSUME Init PROVE LedgerInv
  OBVIOUS
<1>1. LedgersAgree
  BY DEF Init, LedgersAgree
<1>2. PlansAreOutcomes
  BY DEF Init, PlansAreOutcomes, NoJob, OutcomePlans
<1>3. WorkHasFiling
  BY DEF Init, WorkHasFiling, AtWork
<1> QED
  BY <1>1, <1>2, <1>3 DEF LedgerInv

LEMMA LedgerStep == TypeOK /\ TypeOK' /\ LedgerInv /\ [Next]_vars => LedgerInv'
<1> SUFFICES ASSUME TypeOK, TypeOK', LedgerInv, [Next]_vars PROVE LedgerInv'
  OBVIOUS
<1>1. PlansAreOutcomes'
  BY JobsChange DEF JobChange, LedgerInv, PlansAreOutcomes, OutcomePlans
<1>2. WorkHasFiling'
  BY JobsChange DEF JobChange, LedgerInv, WorkHasFiling
<1>3. LedgersAgree'
  <2>1. ASSUME NEW w \in Worker, Write(w) PROVE LedgersAgree'
    <3> DEFINE f == job[w].filing
               p == job[w].plan
    <3>1. f \in Filing /\ p \in OutcomePlans
      BY <2>1 DEF LedgerInv, PlansAreOutcomes, WorkHasFiling, Write, AtWork, Stages
    <3>2. p.retry => reserved[f]
      BY <2>1 DEF Write, LedgersAccept
    <3>3. SUFFICES ASSUME NEW g \in Filing PROVE LedgersAgree!(g)'
      BY DEF LedgersAgree
    <3>4. CASE g = f
      <4>1. decision'[g] = p.decision /\ disposition'[g] = p.disposition
            /\ brief'[g] = p.brief /\ reserved'[g] = reserved[f]
        BY <3>1, <3>4, <2>1 DEF Write, TypeOK
      <4> QED
        BY <4>1, <3>1, <3>2, OutcomeShape DEF Decisions
    <3>5. CASE g # f
      <4>1. decision'[g] = decision[g] /\ disposition'[g] = disposition[g]
            /\ brief'[g] = brief[g] /\ reserved'[g] = reserved[g]
        BY <3>5, <2>1 DEF Write, TypeOK
      <4> QED
        BY <4>1 DEF LedgerInv, LedgersAgree
    <3> QED
      BY <3>4, <3>5
  <2>2. ASSUME NEW w \in Worker, HandleExhausted(w) PROVE LedgersAgree'
    BY <2>2 DEF HandleExhausted, Undecided, LedgerInv, LedgersAgree, TypeOK
  <2>3. CASE /\ UNCHANGED <<decision, disposition, brief>>
             /\ \A f \in Filing : reserved[f] => reserved'[f]
    BY <2>3 DEF LedgerInv, LedgersAgree
  <2> QED
    BY <2>1, <2>2, <2>3, LedgerWriters
<1> QED
  BY <1>1, <1>2, <1>3 DEF LedgerInv

(* However workers interleave, crash and take filings from each other, the   *)
(* ledgers never contradict each other.                                      *)
THEOREM LedgerSafety == Spec => []LedgersAgree
<1>1. Spec => [](TypeOK /\ LedgerInv)
  BY TypeInit, TypeStep, LedgerInit, LedgerStep, PTL DEF Spec
<1>2. LedgerInv => LedgersAgree
  BY DEF LedgerInv
<1> QED
  BY <1>1, <1>2, PTL

-----------------------------------------------------------------------------
(* The queue implements the lifecycle *)

LEMMA LifecycleStep ==
  ASSUME TypeOK, LedgerInv, [Next]_vars
  PROVE  Lifecycle!Next \/ UNCHANGED <<decision, brief>>
<1>1. ASSUME NEW w \in Worker, Write(w)
      PROVE  Lifecycle!Next
  <2> DEFINE f == job[w].filing
             p == job[w].plan
  <2>1. f \in Filing /\ p \in OutcomePlans
    BY <1>1 DEF LedgerInv, PlansAreOutcomes, WorkHasFiling, Write, AtWork, Stages
  <2>2. /\ decision[f] = "none" /\ brief[f] = "none"
        /\ decision' = [decision EXCEPT ![f] = p.decision]
        /\ brief' = [brief EXCEPT ![f] = p.brief]
    BY <1>1, <2>1 DEF Write, LedgersAccept, Undecided, LedgerInv, LedgersAgree
  <2>3. CASE p.decision = "QUALIFIED"
    <3>1. p.brief \in {"v2", "v3"}
      BY <2>1, <2>3, OutcomeShape
    <3> QED
      BY <2>1, <2>2, <2>3, <3>1 DEF Lifecycle!Next, Lifecycle!Qualify
  <2>4. CASE p.decision # "QUALIFIED"
    <3>1. p.decision \in {"SCREENED_OUT", "ANALYSIS_INCOMPLETE"} /\ p.brief = "none"
      BY <2>1, <2>4, OutcomeShape DEF Decisions
    <3>2. brief' = brief
      BY <2>1, <2>2, <3>1 DEF TypeOK
    <3> QED
      BY <2>1, <2>2, <3>1, <3>2 DEF Lifecycle!Next, Lifecycle!Reject
  <2> QED
    BY <2>3, <2>4
<1>2. ASSUME NEW w \in Worker, HandleExhausted(w)
      PROVE  Lifecycle!Next
  <2>1. job[w].filing \in Filing
    BY <1>2 DEF LedgerInv, WorkHasFiling, HandleExhausted, AtWork, Stages
  <2> QED
    BY <1>2, <2>1 DEF HandleExhausted, Undecided, Lifecycle!Next, Lifecycle!Reject
<1> QED
  BY <1>1, <1>2, LedgerWriters

(* A filing is decided at most once and published in the step that           *)
(* qualifies it: the queue implements the abstract lifecycle.                *)
THEOREM ImplementsLifecycle == Spec => DecidedOnce
<1>1. Init => Lifecycle!Init
  BY DEF Init, Lifecycle!Init
<1>2. TypeOK /\ LedgerInv /\ [Next]_vars => [Lifecycle!Next]_<<decision, brief>>
  BY LifecycleStep
<1>3. Spec => [](TypeOK /\ LedgerInv)
  BY TypeInit, TypeStep, LedgerInit, LedgerStep, PTL DEF Spec
<1> QED
  BY <1>1, <1>2, <1>3, PTL DEF Spec, DecidedOnce, Lifecycle!Spec
-----------------------------------------------------------------------------
(* One worker owns its row *)

(* The instance in which a lease protects its holder: a single process, whose *)
(* counter updates do not fail.                                              *)
Alone == (\A v, w \in Worker : v = w) /\ MaxStoreFaults = 0

(* Strengthening of HolderOwnsRow: no decided filing can be claimed, an idle  *)
(* worker holds nothing, and until it screens its filing a job knows whether  *)
(* the semantic retry is reserved.                                           *)
DecidedIsTerminal == \A f \in Filing : decision[f] # "none" => status[f] \in TerminalStatus

IdleHoldsNothing == \A w \in Worker : pc[w] \notin AtWork => job[w].filing = NoFiling

ResumedIsReserved ==
  \A w \in Worker : pc[w] = "screen" => (job[w].recon <=> reserved[job[w].filing])

HolderInv == HolderOwnsRow /\ DecidedIsTerminal /\ IdleHoldsNothing /\ ResumedIsReserved

LEMMA HolderInit == Init => HolderInv
BY DEF Init, HolderInv, HolderOwnsRow, Busy, DecidedIsTerminal, IdleHoldsNothing,
       ResumedIsReserved, NoJob, TerminalStatus

(* A stretch of work that neither ends nor starts a job keeps the filing, its *)
(* attempt and what the claim read of the retry.                             *)
SameTask(j, k) == k.filing = j.filing /\ k.attempt = j.attempt /\ k.recon = j.recon

LEMMA JobEdits ==
  ASSUME NEW j \in Jobs
  PROVE  /\ \A x : SameTask(j, [j EXCEPT !.error = x])
         /\ \A p : SameTask(j, [j EXCEPT !.plan = p])
         /\ \A x : SameTask(j, [j EXCEPT !.verdict = x])
         /\ \A p, x : SameTask(j, [j EXCEPT !.plan = p, !.verdict = x])
BY DEF Jobs, SameTask

Kept(w) == SameTask(job[w], job'[w])

Working(w) ==
  \/ StepFails(w) \/ Screen(w) \/ Analyze(w) \/ FirstReview(w)
  \/ Reanalyze(w) \/ SecondReview(w) \/ WriteRefused(w) \/ ReserveRetry(w)

LEMMA WorkingKeeps ==
  ASSUME TypeOK, NEW w \in Worker, Working(w)
  PROVE  Kept(w) /\ pc[w] \in AtWork \ {"count"}
<1>1. job[w] \in Jobs /\ DOMAIN job = Worker
  BY DEF TypeOK
<1>2. ASSUME NEW k, Raise(w, k) PROVE Kept(w)
  <2>1. job'[w] = [job[w] EXCEPT !.error = k]
    BY <1>1, <1>2 DEF Raise
  <2>2. SameTask(job[w], [job[w] EXCEPT !.error = k])
    BY <1>1, JobEdits
  <2> QED
    BY <2>1, <2>2 DEF Kept
<1>3. ASSUME NEW p, Conclude(w, p) PROVE Kept(w)
  <2>1. job'[w] = [job[w] EXCEPT !.plan = p]
    BY <1>1, <1>3 DEF Conclude
  <2>2. SameTask(job[w], [job[w] EXCEPT !.plan = p])
    BY <1>1, JobEdits
  <2> QED
    BY <2>1, <2>2 DEF Kept
<1>4. ASSUME UNCHANGED job PROVE Kept(w)
  <2>1. job'[w] = job[w]
    BY <1>4
  <2> QED
    BY <2>1 DEF Kept, SameTask
<1>5. ASSUME NEW p, NEW x, \/ job' = [job EXCEPT ![w].plan = p, ![w].verdict = x]
                           \/ job' = [job EXCEPT ![w].verdict = x]
      PROVE  Kept(w)
  <2>1. CASE job' = [job EXCEPT ![w].plan = p, ![w].verdict = x]
    <3>1. job'[w] = [job[w] EXCEPT !.plan = p, !.verdict = x]
      BY <1>1, <2>1
    <3>2. SameTask(job[w], [job[w] EXCEPT !.plan = p, !.verdict = x])
      BY <1>1, JobEdits
    <3> QED
      BY <3>1, <3>2 DEF Kept
  <2>2. CASE job' = [job EXCEPT ![w].verdict = x]
    <3>1. job'[w] = [job[w] EXCEPT !.verdict = x]
      BY <1>1, <2>2
    <3>2. SameTask(job[w], [job[w] EXCEPT !.verdict = x])
      BY <1>1, JobEdits
    <3> QED
      BY <3>1, <3>2 DEF Kept
  <2> QED
    BY <1>5, <2>1, <2>2
<1>6. Kept(w)
  <2>1. CASE StepFails(w) \/ WriteRefused(w) \/ ReserveRetry(w)
    BY <2>1, <1>2, <1>4 DEF StepFails, WriteRefused, ReserveRetry
  <2>2. CASE Screen(w)
    <3>1. UNCHANGED job \/ Conclude(w, RetryScreenedOut) \/ Conclude(w, SkipPlan)
      <4>1. CASE job[w].recon
        BY <2>2, <4>1, Zenon DEF Screen
      <4>2. CASE ~job[w].recon
        BY <2>2, <4>2, Zenon DEF Screen
      <4> QED
        BY <4>1, <4>2
    <3> QED
      BY <3>1, <1>3, <1>4
  <2>3. CASE Analyze(w) \/ Reanalyze(w)
    BY <2>3, <1>2, <1>3, <1>4 DEF Analyze, Reanalyze
  <2>4. CASE FirstReview(w) \/ SecondReview(w)
    BY <2>4, <1>5 DEF FirstReview, SecondReview
  <2> QED
    BY <2>1, <2>2, <2>3, <2>4 DEF Working
<1>7. pc[w] \in AtWork \ {"count"}
  BY DEF Working, StepFails, Screen, Analyze, FirstReview, Reanalyze, SecondReview, WriteRefused,
         ReserveRetry, AtWork, Stages
<1> QED
  BY <1>6, <1>7

(* Only a job that did not resume a reserved retry runs the first analysis.  *)
LEMMA FirstAnalysisOnce ==
  ASSUME TypeOK, LedgerInv, HolderInv, NEW w \in Worker, Working(w),
         pc'[w] \in {"analyze", "verify", "reserve"}
  PROVE  ~reserved[job[w].filing] /\ UNCHANGED reserved
<1>1. pc[w] = "screen" \/ pc[w] = "analyze" \/ pc[w] = "verify"
  <2>1. \A stage : Goto(w, stage) => pc'[w] = stage
    BY DEF Goto, TypeOK
  <2>2. ASSUME StepFails(w) \/ WriteRefused(w) PROVE pc'[w] = "handle"
    BY <2>1, <2>2 DEF StepFails, WriteRefused, Raise
  <2>3. ASSUME Reanalyze(w) \/ SecondReview(w) \/ ReserveRetry(w)
        PROVE  pc'[w] \notin {"analyze", "verify", "reserve"}
    <3>1. \A q : Raise(w, q) => pc'[w] = "handle"
      BY <2>1 DEF Raise
    <3>2. \A q : Conclude(w, q) => pc'[w] = "write"
      BY <2>1 DEF Conclude
    <3>3. pc'[w] \in {"handle", "write", "reverify", "reanalyze"}
      BY <2>1, <2>3, <3>1, <3>2 DEF Reanalyze, SecondReview, ReserveRetry
    <3> QED
      BY <3>3
  <2>4. Screen(w) \/ Analyze(w) \/ FirstReview(w)
    BY <2>2, <2>3 DEF Working
  <2> QED
    BY <2>4 DEF Screen, Analyze, FirstReview
<1>2. UNCHANGED reserved
  BY <1>1 DEF Working, StepFails, Screen, Analyze, FirstReview, Reanalyze, SecondReview,
         WriteRefused, ReserveRetry, ledgerVars
<1>3. CASE pc[w] = "screen"
  <2>1. ~job[w].recon
    <3> SUFFICES ASSUME job[w].recon PROVE FALSE
      OBVIOUS
    <3>1. pc'[w] \in {"handle", "reanalyze", "write"}
      <4>1. CASE StepFails(w)
        BY <4>1 DEF StepFails, Raise, Goto, TypeOK
      <4>2. CASE Screen(w)
        <5>1. Goto(w, "reanalyze") \/ Conclude(w, RetryScreenedOut)
          BY <4>2, Zenon DEF Screen
        <5> QED
          BY <5>1 DEF Conclude, Goto, TypeOK
      <4> QED
        BY <1>3, <4>1, <4>2 DEF Working, Analyze, FirstReview, Reanalyze, SecondReview,
           WriteRefused, ReserveRetry
    <3> QED
      BY <3>1
  <2> QED
    BY <1>2, <1>3, <2>1 DEF HolderInv, ResumedIsReserved
<1>4. CASE pc[w] = "analyze" \/ pc[w] = "verify"
  <2>1. job[w].filing \in Filing
    BY <1>4 DEF LedgerInv, WorkHasFiling, AtWork, Stages
  <2> QED
    BY <1>2, <1>4, <2>1, QueueAssumption DEF HolderInv, HolderOwnsRow, Busy
<1> QED
  BY <1>1, <1>3, <1>4

LEMMA HolderStep ==
  ASSUME Alone, TypeOK, TypeOK', LedgerInv, LedgerInv', HolderInv, [Next]_vars
  PROVE  HolderInv'
<1> USE DEF HolderInv
<1>n. NoFiling \notin Filing
  BY QueueAssumption
<1>1. ASSUME NEW w \in Worker, Start(w) \/ Discover(w) \/ Requeue(w) PROVE HolderInv'
  <2>1. \A v \in Worker : v = w
    BY DEF Alone
  <2>2. pc[w] \notin AtWork /\ pc'[w] \notin AtWork /\ job' = job
        /\ UNCHANGED <<decision, reserved, attempts>>
    BY <1>1 DEF Start, Discover, Requeue, Goto, AtWork, Stages, TypeOK, ledgerVars
  <2>3. job'[w].filing = NoFiling
    BY <2>2 DEF IdleHoldsNothing
  <2>4. \A f \in Filing : status[f] \in TerminalStatus => status'[f] = status[f]
    BY <1>1 DEF Start, Discover, Requeue, RequeueExpired, TerminalStatus, TypeOK
  <2>5. DecidedIsTerminal'
    BY <2>2, <2>4 DEF DecidedIsTerminal
  <2>6. HolderOwnsRow' /\ IdleHoldsNothing' /\ ResumedIsReserved'
    BY <2>1, <2>2, <2>3 DEF HolderOwnsRow, Busy, IdleHoldsNothing, ResumedIsReserved, AtWork, Stages
  <2> QED
    BY <2>5, <2>6
<1>2. ASSUME NEW w \in Worker, NEW f \in Filing, Claim(w, f) PROVE HolderInv'
  <2>1. \A v \in Worker : v = w
    BY DEF Alone
  <2>2. status[f] \in {"pending", "retry_wait", "processing"}
    BY <1>2 DEF Claim, HeadOfQueue, Claimable
  <2>3. decision[f] = "none"
    BY <2>2 DEF DecidedIsTerminal, TerminalStatus
  <2>4. /\ job'[w].filing = f /\ job'[w].attempt = attempts[f] + 1
        /\ job'[w].recon = reserved[f] /\ pc'[w] = "screen"
    <3>1. job'[w] = [NoJob EXCEPT !.filing = f, !.attempt = attempts[f] + 1,
                                  !.recon = reserved[f]]
      BY <1>2 DEF Claim, Resumes, TypeOK
    <3>2. /\ job'[w].filing = f /\ job'[w].attempt = attempts[f] + 1
          /\ job'[w].recon = reserved[f]
      BY <3>1 DEF NoJob
    <3>3. pc'[w] = "screen"
      BY <1>2 DEF Claim, Goto, TypeOK
    <3> QED
      BY <3>2, <3>3
  <2>5. /\ status' = [status EXCEPT ![f] = "processing"] /\ UNCHANGED <<decision, reserved>>
        /\ attempts'[f] = attempts[f] + 1
    BY <1>2 DEF Claim, ledgerVars, TypeOK
  <2>6. DecidedIsTerminal'
    BY <2>3, <2>5 DEF DecidedIsTerminal, TypeOK
  <2>7. HolderOwnsRow'
    BY <2>1, <2>3, <2>4, <2>5 DEF HolderOwnsRow, TypeOK
  <2>8. IdleHoldsNothing' /\ ResumedIsReserved'
    BY <2>1, <2>4, <2>5 DEF IdleHoldsNothing, ResumedIsReserved, AtWork, Stages
  <2> QED
    BY <2>6, <2>7, <2>8
<1>3. ASSUME NEW w \in Worker, Working(w) PROVE HolderInv'
  <2>1. \A v \in Worker : v = w
    BY DEF Alone
  <2>2. Kept(w) /\ pc[w] \in AtWork \ {"count"}
    BY <1>3, WorkingKeeps
  <2>3. UNCHANGED <<status, attempts, decision>>
    BY <1>3 DEF Working, StepFails, Screen, Analyze, FirstReview, Reanalyze, SecondReview,
       WriteRefused, ReserveRetry, queueVars, ledgerVars
  <2>4. pc'[w] \in AtWork \ {"count", "screen"}
    <3>1. CASE StepFails(w) \/ WriteRefused(w) \/ ReserveRetry(w)
      BY <3>1 DEF StepFails, WriteRefused, ReserveRetry, Raise, Goto, AtWork, Stages, TypeOK
    <3>2. CASE Screen(w)
      <4>1. \/ Goto(w, "analyze") \/ Goto(w, "reanalyze")
            \/ Conclude(w, RetryScreenedOut) \/ Conclude(w, SkipPlan)
        <5>1. CASE job[w].recon
          BY <3>2, <5>1, Zenon DEF Screen
        <5>2. CASE ~job[w].recon
          BY <3>2, <5>2, Zenon DEF Screen
        <5> QED
          BY <5>1, <5>2
      <4> QED
        BY <4>1 DEF Conclude, Goto, AtWork, Stages, TypeOK
    <3>3. CASE Analyze(w) \/ Reanalyze(w)
      BY <3>3 DEF Analyze, Reanalyze, Raise, Conclude, Goto, AtWork, Stages, TypeOK
    <3>4. CASE FirstReview(w) \/ SecondReview(w)
      <4>1. Goto(w, "write") \/ Goto(w, "reserve")
        BY <3>4, Zenon DEF FirstReview, SecondReview
      <4> QED
        BY <4>1 DEF Goto, AtWork, Stages, TypeOK
    <3> QED
      BY <1>3, <3>1, <3>2, <3>3, <3>4 DEF Working
  <2>5. job[w].filing \in Filing
    BY <2>2 DEF LedgerInv, WorkHasFiling
  <2>6. DecidedIsTerminal'
    BY <2>3 DEF DecidedIsTerminal
  <2>7. Busy(w)
    BY <2>2, <2>5, <1>n DEF Busy
  <2>8. HolderOwnsRow'
    <3>1. pc'[w] \in {"analyze", "verify", "reserve"} => ~reserved'[job'[w].filing]
      BY <1>3, <2>2, FirstAnalysisOnce DEF Kept, SameTask
    <3> QED
      BY <2>1, <2>2, <2>3, <2>7, <3>1 DEF HolderOwnsRow, Kept, SameTask
  <2>9. IdleHoldsNothing' /\ ResumedIsReserved'
    BY <2>1, <2>4 DEF IdleHoldsNothing, ResumedIsReserved
  <2> QED
    BY <2>6, <2>8, <2>9
<1>4. ASSUME NEW w \in Worker, Write(w) PROVE HolderInv'
  <2> DEFINE f == job[w].filing
             p == job[w].plan
  <2>1. (\A v \in Worker : v = w) /\ f \in Filing /\ p.status \in TerminalStatus
    BY <1>4 DEF Alone, Write, LedgerInv, WorkHasFiling, AtWork, Stages, TypeOK, Jobs, Plans
  <2>2. /\ status' = [status EXCEPT ![f] = p.status]
        /\ decision' = [decision EXCEPT ![f] = p.decision]
    BY <1>4 DEF Write
  <2>3. DecidedIsTerminal'
    BY <2>1, <2>2 DEF DecidedIsTerminal, TypeOK
  <2>4. pc'[w] = "count" \/ (pc'[w] = "claim" /\ job'[w].filing = NoFiling)
    BY <1>4 DEF Write, NextCandidate, Goto, NoJob, TypeOK
  <2>5. HolderOwnsRow' /\ IdleHoldsNothing' /\ ResumedIsReserved'
    BY <2>1, <2>4 DEF HolderOwnsRow, Busy, IdleHoldsNothing, ResumedIsReserved, AtWork, Stages
  <2> QED
    BY <2>3, <2>5
<1>5. ASSUME NEW w \in Worker, HandleRetry(w) \/ HandleExhausted(w) PROVE HolderInv'
  <2> DEFINE f == job[w].filing
  <2>1. (\A v \in Worker : v = w) /\ f \in Filing /\ pc[w] = "handle"
    BY <1>5 DEF Alone, HandleRetry, HandleExhausted, LedgerInv, WorkHasFiling, AtWork, Stages
  <2>2. decision[f] = "none"
    BY <2>1, <1>n DEF HolderOwnsRow, Busy
  <2>3. DecidedIsTerminal'
    <3>1. CASE HandleRetry(w)
      BY <2>1, <2>2, <3>1 DEF HandleRetry, ledgerVars, DecidedIsTerminal, TypeOK
    <3>2. CASE HandleExhausted(w)
      BY <2>1, <3>2 DEF HandleExhausted, DecidedIsTerminal, TypeOK, TerminalStatus
    <3> QED
      BY <1>5, <3>1, <3>2
  <2>4. pc'[w] = "claim" /\ job'[w].filing = NoFiling
    BY <1>5 DEF HandleRetry, HandleExhausted, NextCandidate, Goto, NoJob, TypeOK
  <2>5. HolderOwnsRow' /\ IdleHoldsNothing' /\ ResumedIsReserved'
    BY <2>1, <2>4 DEF HolderOwnsRow, Busy, IdleHoldsNothing, ResumedIsReserved, AtWork, Stages
  <2> QED
    BY <2>3, <2>5
<1>6. ASSUME NEW w \in Worker,
             \/ NothingToClaim(w) \/ Count(w) \/ HandleRefused(w)
             \/ \E f \in Filing : ClaimFails(w, f)
             \/ Crash(w) \/ HandlerAborts(w)
      PROVE  HolderInv'
  <2>1. \A v \in Worker : v = w
    BY DEF Alone
  <2>2. pc'[w] \in {"poll", "claim", "down"} /\ job'[w].filing = NoFiling
    BY <1>6 DEF NothingToClaim, Count, HandleRefused, ClaimFails, Crash, HandlerAborts, EndCycle,
       NextCandidate, Goto, NoJob, TypeOK
  <2>3. UNCHANGED <<status, decision>>
    BY <1>6 DEF NothingToClaim, Count, HandleRefused, ClaimFails, Crash, HandlerAborts,
       queueVars, ledgerVars
  <2> QED
    BY <2>1, <2>2, <2>3 DEF HolderOwnsRow, Busy, DecidedIsTerminal, IdleHoldsNothing,
       ResumedIsReserved, AtWork, Stages
<1>7. ASSUME NEW w \in Worker, CountFails(w) PROVE FALSE
  BY <1>7 DEF CountFails, Alone, TypeOK
<1>8. CASE Time \/ UNCHANGED vars
  <2>1. UNCHANGED <<status, attempts, decision, reserved, pc, job>>
    BY <1>8 DEF Time, LeaseExpires, RetryFallsDue, Ages, vars, queueVars, ledgerVars
  <2> QED
    BY <2>1 DEF HolderOwnsRow, Busy, DecidedIsTerminal, IdleHoldsNothing, ResumedIsReserved
<1> QED
  BY <1>1, <1>2, <1>3, <1>4, <1>5, <1>6, <1>7, <1>8 DEF Next, Step, Working, Fault

(* With one process and a counter that does not fail, the worker on a filing *)
(* owns its row, whatever crashes, expires and is retried; and it never runs *)
(* the first analysis of a filing whose retry is reserved (claim and         *)
(* complete_candidate, which names the row by its accession number alone).   *)
THEOREM OneWorkerOwnsItsRow == Alone => (Spec => []HolderOwnsRow)
<1> SUFFICES ASSUME Alone PROVE Spec => []HolderOwnsRow
  OBVIOUS
<1>1. TypeOK /\ TypeOK' /\ LedgerInv /\ LedgerInv' /\ HolderInv /\ [Next]_vars => HolderInv'
  BY HolderStep
<1>2. Spec => [](TypeOK /\ LedgerInv)
  BY TypeInit, TypeStep, LedgerInit, LedgerStep, PTL DEF Spec
<1>3. HolderInv => HolderOwnsRow
  BY DEF HolderInv
<1> QED
  BY <1>1, <1>2, <1>3, HolderInit, PTL DEF Spec
=============================================================================
