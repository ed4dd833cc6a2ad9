---------------------- MODULE ProspectiveOutcomesProofs ----------------------
(***************************************************************************)
(* Proofs about ProspectiveOutcomes for every number of publications, every *)
(* set of processes, every window, batch size and attempt limit.            *)
(***************************************************************************)
EXTENDS ProspectiveOutcomes, TLAPS

(* A process past its claim holds a plan and an attempt number in range, and *)
(* knows how its fetch ended.                                                *)
Holding ==
  \A w \in Worker :
    /\ pc[w] \in {"fetch", "retry", "read", "complete"}
         => held[w] \in Plan /\ attempt[w] \in 1..AttemptLimit
    /\ pc[w] = "retry" => verdict[w] = "retryable_failure"
    /\ pc[w] \in {"read", "complete"} => verdict[w] # "retryable_failure"

(* A row with an outcome is closed.                                          *)
DecidedIsTerminal ==
  \A j \in Plan : outcome[j] # NoOutcome => status[j] \in TerminalStatus

(* What the rows say of each plan.                                           *)
RowInv == DecidedIsTerminal /\ AttemptsAreGapFree /\ OutcomeRetainsAttempts

Inv == TypeOK /\ Holding /\ RowInv

LEMMA InvInit == Init => Inv
<1> SUFFICES ASSUME Init PROVE Inv
  OBVIOUS
<1>1. TypeOK
  BY ProspectiveAssumption
     DEF Init, TypeOK, Stages, Verdicts, OpenStatus, TerminalStatus
<1>2. Holding
  BY DEF Init, Holding
<1>3. RowInv
  BY ProspectiveAssumption
     DEF Init, RowInv, DecidedIsTerminal, AttemptsAreGapFree, OutcomeRetainsAttempts,
         TerminalStatus
<1> QED
  BY <1>1, <1>2, <1>3 DEF Inv

-----------------------------------------------------------------------------
(* The two steps that add a receipt *)

USE ProspectiveAssumption DEF OpenStatus, TerminalStatus, Verdicts, Stages

(* A plan no step has touched keeps what its rows say.                       *)
LEMMA UntouchedRow ==
  ASSUME RowInv, NEW j \in Plan,
         UNCHANGED <<status[j], attempts[j], receipts[j], outcome[j]>>
  PROVE  /\ outcome'[j] # NoOutcome => status'[j] \in TerminalStatus
         /\ \A n \in 1..AttemptLimit :
              n <= attempts'[j] <=> \E r \in receipts'[j] : r.number = n
         /\ \A r, s \in receipts'[j] : r.number = s.number => r = s
         /\ \A r \in receipts'[j] :
              r.status # "retryable_failure"
                <=> outcome'[j] # NoOutcome /\ r.number = attempts'[j]
         /\ status'[j] \in TerminalStatus =>
              outcome'[j] # NoOutcome /\ outcome'[j].status = status'[j]
         /\ outcome'[j] # NoOutcome => outcome'[j].attempts = receipts'[j]
<1>1. /\ status'[j] = status[j] /\ attempts'[j] = attempts[j]
      /\ receipts'[j] = receipts[j] /\ outcome'[j] = outcome[j]
  OBVIOUS
<1> QED
  BY <1>1 DEF RowInv, DecidedIsTerminal, AttemptsAreGapFree, OutcomeRetainsAttempts

(* The receipt of a current claim is the next number of an undecided plan.   *)
LEMMA ReceiptIsNext ==
  ASSUME Inv, NEW w \in Worker, pc[w] \in {"retry", "complete"}, Current(w)
  PROVE  /\ held[w] \in Plan /\ attempt[w] \in 1..AttemptLimit
         /\ status[held[w]] = "processing" /\ outcome[held[w]] = NoOutcome
         /\ attempts[held[w]] = attempt[w] - 1
         /\ Receipt(w) \in Receipts
         /\ Receipt(w).number = attempt[w] /\ Receipt(w).status = verdict[w]
         /\ \A r \in receipts[held[w]] :
              r \in Receipts /\ r.number \in 1..AttemptLimit /\ r.number < attempt[w]
                /\ r.status = "retryable_failure"
<1>1. held[w] \in Plan /\ attempt[w] \in 1..AttemptLimit
  BY DEF Inv, Holding
<1>2. status[held[w]] = "processing" /\ attempts[held[w]] = attempt[w] - 1
  BY DEF Current
<1>3. outcome[held[w]] = NoOutcome
  BY <1>1, <1>2 DEF Inv, RowInv, DecidedIsTerminal
<1>4. verdict[w] \in Verdicts
  BY DEF Inv, TypeOK
<1>5. Receipt(w) \in Receipts /\ Receipt(w).number = attempt[w]
      /\ Receipt(w).status = verdict[w]
  BY <1>1, <1>4 DEF Receipt, Receipts
<1>6. receipts[held[w]] \subseteq Receipts
  BY <1>1 DEF Inv, TypeOK
<1>7. ASSUME NEW r \in receipts[held[w]]
      PROVE  r \in Receipts /\ r.number \in 1..AttemptLimit /\ r.number < attempt[w]
               /\ r.status = "retryable_failure"
  <2>1. r \in Receipts /\ r.number \in 1..AttemptLimit
    BY <1>6 DEF Receipts
  <2>2. r.number <= attempts[held[w]]
    BY <1>1, <2>1 DEF Inv, RowInv, AttemptsAreGapFree
  <2>3. r.status = "retryable_failure"
    BY <1>1, <1>3 DEF Inv, RowInv, AttemptsAreGapFree
  <2> QED
    BY <1>1, <1>2, <2>1, <2>2, <2>3
<1> QED
  BY <1>1, <1>2, <1>3, <1>5, <1>7

(* Adding that receipt keeps the numbers gap-free and unique.                *)
LEMMA NumbersGrow ==
  ASSUME Inv, NEW w \in Worker, pc[w] \in {"retry", "complete"}, Current(w),
         receipts' = [receipts EXCEPT ![held[w]] = @ \cup {Receipt(w)}],
         attempts' = [attempts EXCEPT ![held[w]] = attempt[w]]
  PROVE  /\ receipts' \in [Plan -> SUBSET Receipts]
         /\ attempts' \in [Plan -> 0..AttemptLimit]
         /\ attempts'[held[w]] = attempt[w]
         /\ receipts'[held[w]] = receipts[held[w]] \cup {Receipt(w)}
         /\ \A j \in Plan : j # held[w] => UNCHANGED <<receipts[j], attempts[j]>>
         /\ \A n \in 1..AttemptLimit :
              n <= attempts'[held[w]] <=> \E r \in receipts'[held[w]] : r.number = n
         /\ \A r, s \in receipts'[held[w]] : r.number = s.number => r = s
<1> DEFINE j == held[w]
<1>1. /\ j \in Plan /\ attempt[w] \in 1..AttemptLimit /\ attempts[j] = attempt[w] - 1
      /\ Receipt(w) \in Receipts /\ Receipt(w).number = attempt[w]
      /\ \A r \in receipts[j] : r.number \in 1..AttemptLimit /\ r.number < attempt[w]
  BY ReceiptIsNext
<1>2. receipts \in [Plan -> SUBSET Receipts] /\ attempts \in [Plan -> 0..AttemptLimit]
  BY DEF Inv, TypeOK
<1>3. /\ receipts' \in [Plan -> SUBSET Receipts] /\ attempts' \in [Plan -> 0..AttemptLimit]
      /\ attempts'[j] = attempt[w] /\ receipts'[j] = receipts[j] \cup {Receipt(w)}
  BY <1>1, <1>2
<1>4. \A i \in Plan : i # j => UNCHANGED <<receipts[i], attempts[i]>>
  BY <1>1, <1>2
<1>5. ASSUME NEW n \in 1..AttemptLimit
      PROVE  n <= attempts'[j] <=> \E r \in receipts'[j] : r.number = n
  <2>1. n <= attempts[j] <=> \E r \in receipts[j] : r.number = n
    BY <1>1 DEF Inv, RowInv, AttemptsAreGapFree
  <2>2. n <= attempt[w] <=> n <= attempts[j] \/ n = attempt[w]
    BY <1>1
  <2> QED
    BY <1>1, <1>3, <2>1, <2>2
<1>6. \A r, s \in receipts[j] : r.number = s.number => r = s
  BY <1>1 DEF Inv, RowInv, AttemptsAreGapFree
<1>7. \A r \in receipts[j] : r.number # Receipt(w).number
  BY <1>1
<1>8. \A r, s \in receipts'[j] : r.number = s.number => r = s
  BY <1>3, <1>6, <1>7
<1> QED
  BY <1>3, <1>4, <1>5, <1>8

LEMMA RetryKeepsRows ==
  ASSUME Inv, NEW w \in Worker, Retry(w)
  PROVE  /\ receipts' \in [Plan -> SUBSET Receipts]
         /\ attempts' \in [Plan -> 0..AttemptLimit] /\ RowInv'
<1> DEFINE j == held[w]
<1>1. pc[w] = "retry" /\ Current(w)
  BY DEF Retry, RetryAccepted
<1>2. /\ receipts' = [receipts EXCEPT ![j] = @ \cup {Receipt(w)}]
      /\ attempts' = [attempts EXCEPT ![j] = attempt[w]]
      /\ status' = [status EXCEPT ![j] = "retry_wait"]
      /\ outcome' = outcome
  BY DEF Retry
<1>3. /\ j \in Plan /\ outcome[j] = NoOutcome /\ Receipt(w).status = "retryable_failure"
      /\ \A r \in receipts[j] : r.status = "retryable_failure"
  BY <1>1, ReceiptIsNext DEF Inv, Holding
<1>4. /\ receipts' \in [Plan -> SUBSET Receipts] /\ attempts' \in [Plan -> 0..AttemptLimit]
      /\ receipts'[j] = receipts[j] \cup {Receipt(w)}
      /\ \A i \in Plan : i # j => UNCHANGED <<receipts[i], attempts[i]>>
      /\ \A n \in 1..AttemptLimit :
           n <= attempts'[j] <=> \E r \in receipts'[j] : r.number = n
      /\ \A r, s \in receipts'[j] : r.number = s.number => r = s
  BY <1>1, <1>2, NumbersGrow
<1>5. status'[j] = "retry_wait" /\ outcome'[j] = NoOutcome
      /\ \A i \in Plan : i # j => UNCHANGED <<status[i], outcome[i]>>
  BY <1>2, <1>3 DEF Inv, TypeOK
<1>6. \A r \in receipts'[j] : r.status = "retryable_failure"
  BY <1>3, <1>4
<1>7. ASSUME NEW i \in Plan
      PROVE  /\ outcome'[i] # NoOutcome => status'[i] \in TerminalStatus
             /\ \A n \in 1..AttemptLimit :
                  n <= attempts'[i] <=> \E r \in receipts'[i] : r.number = n
             /\ \A r, s \in receipts'[i] : r.number = s.number => r = s
             /\ \A r \in receipts'[i] :
                  r.status # "retryable_failure"
                    <=> outcome'[i] # NoOutcome /\ r.number = attempts'[i]
             /\ status'[i] \in TerminalStatus =>
                  outcome'[i] # NoOutcome /\ outcome'[i].status = status'[i]
             /\ outcome'[i] # NoOutcome => outcome'[i].attempts = receipts'[i]
  <2>1. CASE i = j
    BY <1>4, <1>5, <1>6, <2>1
  <2>2. CASE i # j
    BY <1>4, <1>5, <2>2, UntouchedRow DEF Inv
  <2> QED
    BY <2>1, <2>2
<1> QED
  BY <1>4, <1>7 DEF RowInv, DecidedIsTerminal, AttemptsAreGapFree, OutcomeRetainsAttempts

LEMMA CompleteKeepsRows ==
  ASSUME Inv, NEW w \in Worker, Complete(w)
  PROVE  /\ receipts' \in [Plan -> SUBSET Receipts]
         /\ attempts' \in [Plan -> 0..AttemptLimit]
         /\ outcome' \in [Plan -> Outcomes \cup {NoOutcome}]
         /\ status' \in [Plan -> OpenStatus \cup TerminalStatus \cup {"absent"}] /\ RowInv'
<1> DEFINE j   == held[w]
           end == Evaluate(verdict[w])
           result == [status |-> end, attempts |-> read[w] \cup {Receipt(w)}]
<1>1. pc[w] = "complete" /\ Current(w) /\ read[w] = receipts[j]
  BY DEF Complete, CompleteAccepted, RetainsAttempts
<1>2. /\ receipts' = [receipts EXCEPT ![j] = @ \cup {Receipt(w)}]
      /\ attempts' = [attempts EXCEPT ![j] = attempt[w]]
      /\ status' = [status EXCEPT ![j] = JobStatus(end)]
      /\ outcome' = [outcome EXCEPT ![j] = result]
  BY DEF Complete
<1>3. end \in TerminalStatus /\ JobStatus(end) = end
  BY DEF Evaluate, JobStatus
<1>4. /\ j \in Plan /\ attempt[w] \in 1..AttemptLimit
      /\ Receipt(w) \in Receipts /\ Receipt(w).number = attempt[w]
      /\ Receipt(w).status # "retryable_failure"
      /\ \A r \in receipts[j] : /\ r.status = "retryable_failure"
                                /\ r.number \in 1..AttemptLimit /\ r.number < attempt[w]
  BY <1>1, ReceiptIsNext DEF Inv, Holding
<1>5. /\ receipts' \in [Plan -> SUBSET Receipts] /\ attempts' \in [Plan -> 0..AttemptLimit]
      /\ attempts'[j] = attempt[w]
      /\ receipts'[j] = receipts[j] \cup {Receipt(w)}
      /\ \A i \in Plan : i # j => UNCHANGED <<receipts[i], attempts[i]>>
      /\ \A n \in 1..AttemptLimit :
           n <= attempts'[j] <=> \E r \in receipts'[j] : r.number = n
      /\ \A r, s \in receipts'[j] : r.number = s.number => r = s
  BY <1>1, <1>2, NumbersGrow
<1>6. receipts[j] \in SUBSET Receipts
  BY <1>4 DEF Inv, TypeOK
<1>7. /\ result \in Outcomes /\ result # NoOutcome
      /\ result.status = end /\ result.attempts = receipts'[j]
  BY <1>1, <1>3, <1>4, <1>5, <1>6, NoOutcomeAssumption DEF Outcomes
<1> HIDE DEF result, end
<1>8. /\ status'[j] = end /\ outcome'[j] = result
      /\ \A i \in Plan : i # j => UNCHANGED <<status[i], outcome[i]>>
  BY <1>2, <1>3, <1>4 DEF Inv, TypeOK
<1>9. /\ outcome' \in [Plan -> Outcomes \cup {NoOutcome}]
      /\ status' \in [Plan -> OpenStatus \cup TerminalStatus \cup {"absent"}]
  BY <1>2, <1>3, <1>4, <1>7 DEF Inv, TypeOK
<1>10. \A r \in receipts'[j] : r.status # "retryable_failure" <=> r.number = attempts'[j]
  BY <1>4, <1>5
<1>11. ASSUME NEW i \in Plan
      PROVE  /\ outcome'[i] # NoOutcome => status'[i] \in TerminalStatus
             /\ \A n \in 1..AttemptLimit :
                  n <= attempts'[i] <=> \E r \in receipts'[i] : r.number = n
             /\ \A r, s \in receipts'[i] : r.number = s.number => r = s
             /\ \A r \in receipts'[i] :
                  r.status # "retryable_failure"
                    <=> outcome'[i] # NoOutcome /\ r.number = attempts'[i]
             /\ status'[i] \in TerminalStatus =>
                  outcome'[i] # NoOutcome /\ outcome'[i].status = status'[i]
             /\ outcome'[i] # NoOutcome => outcome'[i].attempts = receipts'[i]
  <2>1. CASE i = j
    BY <1>3, <1>5, <1>7, <1>8, <1>10, <2>1
  <2>2. CASE i # j
    BY <1>5, <1>8, <2>2, UntouchedRow DEF Inv
  <2> QED
    BY <2>1, <2>2
<1> QED
  BY <1>5, <1>9, <1>11 DEF RowInv, DecidedIsTerminal, AttemptsAreGapFree,
                           OutcomeRetainsAttempts

-----------------------------------------------------------------------------
(* The other steps *)

(* A row may move between open statuses without a word in the ledgers.       *)
LEMMA OpenRowsMove ==
  ASSUME RowInv, UNCHANGED <<attempts, receipts, outcome>>,
         \A j \in Plan : \/ status'[j] = status[j]
                         \/ /\ status[j] \notin TerminalStatus
                            /\ status'[j] \notin TerminalStatus
  PROVE  RowInv'
<1>1. \A j \in Plan : status'[j] \in TerminalStatus <=> status[j] \in TerminalStatus
  OBVIOUS
<1>2. \A j \in Plan : status'[j] \in TerminalStatus => status'[j] = status[j]
  OBVIOUS
<1>3. DecidedIsTerminal'
  BY <1>1 DEF RowInv, DecidedIsTerminal
<1>4. AttemptsAreGapFree'
  BY DEF RowInv, AttemptsAreGapFree
<1>5. OutcomeRetainsAttempts'
  BY <1>1, <1>2 DEF RowInv, OutcomeRetainsAttempts
<1> QED
  BY <1>3, <1>4, <1>5 DEF RowInv

LEMMA RowsStand == ASSUME RowInv, UNCHANGED rowVars PROVE RowInv'
BY OpenRowsMove DEF rowVars

LEMMA GotoPreserves ==
  ASSUME TypeOK, Holding, NEW w \in Worker,
         NEW stage \in {"cycle", "list", "enroll", "claim"},
         Goto(w, stage), UNCHANGED <<held, attempt, verdict>>
  PROVE  pc' \in [Worker -> Stages] /\ Holding'
BY DEF TypeOK, Goto, Holding

(* A worker that lets its plan go holds nothing to answer for.               *)
LEMMA ReleasePreserves ==
  ASSUME TypeOK, Holding, NEW w \in Worker, NEW stage \in {"claim", "down"},
         Release(w, stage)
  PROVE  /\ pc' \in [Worker -> Stages] /\ held' \in [Worker -> Plan \cup {NoPlan}]
         /\ attempt' \in [Worker -> 0..AttemptLimit] /\ verdict' \in [Worker -> Verdicts]
         /\ read' \in [Worker -> SUBSET Receipts] /\ Holding'
BY DEF TypeOK, Release, Goto, Holding

(* Every step of every process keeps the invariant.                          *)
LEMMA InvStep == Inv /\ [Next]_vars => Inv'
<1> SUFFICES ASSUME Inv, [Next]_vars PROVE Inv'
  OBVIOUS
<1>t. TypeOK /\ Holding /\ RowInv
  BY DEF Inv
<1>1. ASSUME NEW w \in Worker, WorkerStep(w) PROVE Inv'
  <2>1. CASE Start(w)
    <3>1. pc' \in [Worker -> Stages] /\ Holding'
      BY <2>1, <1>t, GotoPreserves DEF Start
    <3>2. RowInv'
      BY <2>1, <1>t, RowsStand DEF Start
    <3> QED
      BY <2>1, <1>t, <3>1, <3>2 DEF Start, Inv, TypeOK, rowVars, faultVars
  <2>2. CASE RequeueStale(w)
    <3>1. pc' \in [Worker -> Stages] /\ Holding'
      BY <2>2, <1>t, GotoPreserves DEF RequeueStale
    <3>2. RowInv'
      BY <2>2, <1>t, OpenRowsMove DEF RequeueStale, Stale
    <3>3. /\ status' \in [Plan -> OpenStatus \cup TerminalStatus \cup {"absent"}]
          /\ due' \in [Plan -> BOOLEAN] /\ stale' \in [Plan -> BOOLEAN]
      BY <2>2, <1>t DEF RequeueStale, TypeOK
    <3> QED
      BY <2>2, <1>t, <3>1, <3>2, <3>3 DEF RequeueStale, Inv, TypeOK, faultVars
  <2>3. CASE List(w)
    <3>1. pc' \in [Worker -> Stages] /\ Holding'
      BY <2>3, <1>t, GotoPreserves DEF List
    <3>2. RowInv'
      BY <2>3, <1>t, RowsStand DEF List
    <3>3. (Window \cap Mapped) \X Horizon \subseteq Plan
      BY DEF Plan
    <3>4. todo' \in [Worker -> SUBSET Plan]
      BY <2>3, <1>t, <3>3 DEF List, TypeOK
    <3> QED
      BY <2>3, <1>t, <3>1, <3>2, <3>4 DEF List, Inv, TypeOK, rowVars, faultVars
  <2>4. CASE EndEnrollment(w)
    <3>1. pc' \in [Worker -> Stages] /\ Holding'
      BY <2>4, <1>t, GotoPreserves DEF EndEnrollment
    <3>2. RowInv'
      BY <2>4, <1>t, RowsStand DEF EndEnrollment
    <3> QED
      BY <2>4, <1>t, <3>1, <3>2 DEF EndEnrollment, Inv, TypeOK, rowVars, faultVars
  <2>5. ASSUME NEW j \in Plan, Enroll(w, j) PROVE Inv'
    <3>1. status' \in [Plan -> OpenStatus \cup TerminalStatus \cup {"absent"}]
      BY <2>5, <1>t DEF Enroll, TypeOK
    <3>2. due' \in [Plan -> BOOLEAN]
      <4>1. due \in [Plan -> BOOLEAN] /\ (j \in passed) \in BOOLEAN
        BY <1>t DEF TypeOK
      <4>2. due' = due \/ due' = [due EXCEPT ![j] = j \in passed]
        BY <2>5 DEF Enroll
      <4>3. \A b \in BOOLEAN : [due EXCEPT ![j] = b] \in [Plan -> BOOLEAN]
        BY <4>1
      <4> QED
        BY <4>1, <4>2, <4>3, Zenon
    <3>3. \A i \in Plan : \/ status'[i] = status[i]
                          \/ status[i] \notin TerminalStatus /\ status'[i] \notin TerminalStatus
      BY <2>5, <1>t DEF Enroll, TypeOK
    <3>4. RowInv'
      BY <2>5, <1>t, <3>3, OpenRowsMove DEF Enroll
    <3>5. todo' \in [Worker -> SUBSET Plan]
      BY <2>5, <1>t DEF Enroll, TypeOK
    <3>6. Holding'
      BY <2>5, <1>t DEF Enroll, Holding
    <3> QED
      BY <2>5, <1>t, <3>1, <3>4, <3>5, <3>6, <3>2 DEF Enroll, Inv, TypeOK, faultVars
  <2>6. ASSUME NEW j \in Plan, Claim(w, j) PROVE Inv'
    <3>1. /\ attempts[j] + 1 \in 1..AttemptLimit /\ claims[w] + 1 \in 0..BatchSize
          /\ status[j] \in {"pending", "retry_wait"} /\ attempts' = attempts
      BY <2>6, <1>t DEF Claim, Claimable, BatchOpen, ClaimLeavesAttempts, TypeOK
    <3>2. TypeOK'
      BY <2>6, <1>t, <3>1 DEF Claim, Goto, TypeOK, faultVars
    <3>3. Holding'
      BY <2>6, <1>t, <3>1 DEF Claim, Goto, Holding, TypeOK
    <3>4. \A i \in Plan : \/ status'[i] = status[i]
                          \/ status[i] \notin TerminalStatus /\ status'[i] \notin TerminalStatus
      BY <2>6, <1>t, <3>1 DEF Claim, TypeOK
    <3>5. RowInv'
      BY <2>6, <1>t, <3>1, <3>4, OpenRowsMove DEF Claim
    <3> QED
      BY <3>2, <3>3, <3>5 DEF Inv
  <2>7. CASE EndBatch(w)
    <3>1. pc' \in [Worker -> Stages] /\ Holding'
      BY <2>7, <1>t, GotoPreserves DEF EndBatch
    <3>2. RowInv'
      BY <2>7, <1>t, RowsStand DEF EndBatch
    <3> QED
      BY <2>7, <1>t, <3>1, <3>2 DEF EndBatch, Inv, TypeOK, rowVars, faultVars
  <2>8. CASE Fetch(w)
    <3>1. RowInv'
      BY <2>8, <1>t, RowsStand DEF Fetch
    <3>2. pc' \in [Worker -> Stages] /\ verdict' \in [Worker -> Verdicts]
      BY <2>8, <1>t DEF Fetch, Goto, TypeOK
    <3>3. Holding'
      BY <2>8, <1>t DEF Fetch, Goto, Holding, TypeOK
    <3> QED
      BY <2>8, <1>t, <3>1, <3>2, <3>3 DEF Fetch, Inv, TypeOK, rowVars, faultVars
  <2>9. CASE Retry(w)
    <3>1. /\ receipts' \in [Plan -> SUBSET Receipts]
          /\ attempts' \in [Plan -> 0..AttemptLimit] /\ RowInv'
      BY <2>9, RetryKeepsRows
    <3>2. /\ pc' \in [Worker -> Stages] /\ held' \in [Worker -> Plan \cup {NoPlan}]
          /\ attempt' \in [Worker -> 0..AttemptLimit] /\ verdict' \in [Worker -> Verdicts]
          /\ read' \in [Worker -> SUBSET Receipts] /\ Holding'
      BY <2>9, <1>t, ReleasePreserves DEF Retry
    <3>3. /\ status' \in [Plan -> OpenStatus \cup TerminalStatus \cup {"absent"}]
          /\ due' \in [Plan -> BOOLEAN] /\ stale' \in [Plan -> BOOLEAN]
      BY <2>9, <1>t DEF Retry, TypeOK
    <3> QED
      BY <2>9, <1>t, <3>1, <3>2, <3>3 DEF Retry, Inv, TypeOK, faultVars
  <2>10. CASE ReadAttempts(w)
    <3>1. RowInv'
      BY <2>10, <1>t, RowsStand DEF ReadAttempts
    <3>2. pc' \in [Worker -> Stages] /\ read' \in [Worker -> SUBSET Receipts] /\ Holding'
      BY <2>10, <1>t DEF ReadAttempts, Goto, Holding, TypeOK
    <3> QED
      BY <2>10, <1>t, <3>1, <3>2 DEF ReadAttempts, Inv, TypeOK, rowVars, faultVars
  <2>11. CASE Complete(w)
    <3>1. /\ receipts' \in [Plan -> SUBSET Receipts]
          /\ attempts' \in [Plan -> 0..AttemptLimit]
          /\ outcome' \in [Plan -> Outcomes \cup {NoOutcome}]
          /\ status' \in [Plan -> OpenStatus \cup TerminalStatus \cup {"absent"}] /\ RowInv'
      BY <2>11, CompleteKeepsRows
    <3>2. /\ pc' \in [Worker -> Stages] /\ held' \in [Worker -> Plan \cup {NoPlan}]
          /\ attempt' \in [Worker -> 0..AttemptLimit] /\ verdict' \in [Worker -> Verdicts]
          /\ read' \in [Worker -> SUBSET Receipts] /\ Holding'
      BY <2>11, <1>t, ReleasePreserves DEF Complete
    <3>3. stale' \in [Plan -> BOOLEAN]
      BY <2>11, <1>t DEF Complete, TypeOK
    <3> QED
      BY <2>11, <1>t, <3>1, <3>2, <3>3 DEF Complete, Inv, TypeOK, faultVars
  <2>12. CASE Dies(w)
    <3>1. /\ pc' \in [Worker -> Stages] /\ held' \in [Worker -> Plan \cup {NoPlan}]
          /\ attempt' \in [Worker -> 0..AttemptLimit] /\ verdict' \in [Worker -> Verdicts]
          /\ read' \in [Worker -> SUBSET Receipts] /\ Holding'
      BY <2>12, <1>t, ReleasePreserves DEF Dies
    <3>2. RowInv'
      BY <2>12, <1>t, RowsStand DEF Dies
    <3> QED
      BY <2>12, <1>t, <3>1, <3>2 DEF Dies, Inv, TypeOK, rowVars, faultVars
  <2> QED
    BY <1>1, <2>1, <2>2, <2>3, <2>4, <2>5, <2>6, <2>7, <2>8, <2>9, <2>10, <2>11, <2>12
       DEF WorkerStep
<1>2. ASSUME NEW w \in Worker, Crash(w) PROVE Inv'
  <2>1. /\ pc' \in [Worker -> Stages] /\ held' \in [Worker -> Plan \cup {NoPlan}]
        /\ attempt' \in [Worker -> 0..AttemptLimit] /\ verdict' \in [Worker -> Verdicts]
        /\ read' \in [Worker -> SUBSET Receipts] /\ Holding'
    BY <1>2, <1>t, ReleasePreserves DEF Crash
  <2>2. RowInv'
    BY <1>2, <1>t, RowsStand DEF Crash
  <2> QED
    BY <1>2, <1>t, <2>1, <2>2 DEF Crash, Inv, TypeOK, rowVars
<1>3. CASE Publish
  <2>1. RowInv'
    BY <1>3, <1>t, RowsStand DEF Publish
  <2> QED
    BY <1>3, <1>t, <2>1 DEF Publish, Inv, TypeOK, Holding, rowVars, workerVars, faultVars
<1>4. ASSUME NEW j \in Plan, TargetPasses(j) \/ RetryFallsDue(j) \/ LeaseExpires(j)
      PROVE  Inv'
  <2>1. RowInv'
    BY <1>4, <1>t, OpenRowsMove DEF TargetPasses, RetryFallsDue, LeaseExpires
  <2>2. Holding'
    BY <1>4, <1>t DEF TargetPasses, RetryFallsDue, LeaseExpires, Holding, workerVars
  <2>3. TypeOK'
    <3>1. CASE TargetPasses(j)
      BY <3>1, <1>t DEF TargetPasses, TypeOK, workerVars, faultVars
    <3>2. CASE RetryFallsDue(j)
      BY <3>2, <1>t DEF RetryFallsDue, TypeOK, workerVars, faultVars
    <3>3. CASE LeaseExpires(j)
      BY <3>3, <1>t DEF LeaseExpires, TypeOK, workerVars
    <3> QED
      BY <1>4, <3>1, <3>2, <3>3
  <2> QED
    BY <2>1, <2>2, <2>3 DEF Inv
<1>5. CASE UNCHANGED vars
  <2>1. RowInv'
    BY <1>5, <1>t, RowsStand DEF vars
  <2> QED
    BY <1>5, <1>t, <2>1 DEF vars, rowVars, workerVars, faultVars, Inv, TypeOK, Holding
<1> QED
  BY <1>1, <1>2, <1>3, <1>4, <1>5 DEF Next

LEMMA InvAlways == Spec => []Inv
<1> QED
  BY InvInit, InvStep, PTL DEF Spec

-----------------------------------------------------------------------------
(* The theorems *)

(* Every variable keeps its type for every number of publications and of     *)
(* processes: in particular attempts stays within the CHECK of migration     *)
(* 0014 (attempts BETWEEN 0 AND 6).                                          *)
THEOREM TypeCorrect == Spec => []TypeOK
<1>1. Inv => TypeOK
  BY DEF Inv
<1> QED
  BY <1>1, InvAlways, PTL

(* However many processes hold the same attempt of a plan, the receipts are  *)
(* numbered without a gap or a duplicate and only the one that decided the   *)
(* plan is not a retryable failure (retry_with_attempt,                      *)
(* complete_with_attempt).                                                   *)
THEOREM AttemptsSafe == Spec => []AttemptsAreGapFree
<1>1. Inv => AttemptsAreGapFree
  BY DEF Inv, RowInv
<1> QED
  BY <1>1, InvAlways, PTL

(* A terminal row has the outcome it names and an outcome lists all receipts *)
(* of its plan, although they are read in a transaction before the one that  *)
(* writes it (attempts_for_plan, complete_with_attempt).                     *)
THEOREM OutcomesSafe == Spec => []OutcomeRetainsAttempts
<1>1. Inv => OutcomeRetainsAttempts
  BY DEF Inv, RowInv
<1> QED
  BY <1>1, InvAlways, PTL

(* A plan with an outcome is closed, and no step touches a closed row.       *)
LEMMA DecidedStands ==
  ASSUME Inv, [Next]_vars, NEW j \in Plan, outcome[j] # NoOutcome
  PROVE  UNCHANGED <<outcome[j], receipts[j], status[j], attempts[j]>>
<1>1. status[j] \in TerminalStatus
  BY DEF Inv, RowInv, DecidedIsTerminal
<1>t. TypeOK
  BY DEF Inv
<1>2. CASE UNCHANGED <<status, attempts, receipts, outcome>>
  BY <1>2
<1>3. ASSUME NEW w \in Worker, WorkerStep(w)
      PROVE  UNCHANGED <<outcome[j], receipts[j], status[j], attempts[j]>>
  <2>1. CASE RequeueStale(w)
    BY <2>1, <1>1 DEF RequeueStale, Stale
  <2>2. ASSUME NEW k \in Plan, Enroll(w, k)
        PROVE  UNCHANGED <<outcome[j], receipts[j], status[j], attempts[j]>>
    BY <2>2, <1>1, <1>t DEF Enroll, TypeOK
  <2>3. ASSUME NEW k \in Plan, Claim(w, k)
        PROVE  UNCHANGED <<outcome[j], receipts[j], status[j], attempts[j]>>
    BY <2>3, <1>1, <1>t DEF Claim, Claimable, ClaimLeavesAttempts, TypeOK
  <2>4. CASE Retry(w)
    <3>1. held[w] # j
      BY <2>4, <1>1 DEF Retry, RetryAccepted, Current
    <3> QED
      BY <2>4, <3>1, <1>t DEF Retry, TypeOK
  <2>5. CASE Complete(w)
    <3>1. held[w] # j
      BY <2>5, <1>1 DEF Complete, CompleteAccepted, Current
    <3> QED
      BY <2>5, <3>1, <1>t DEF Complete, TypeOK
  <2>6. CASE \/ Start(w) \/ List(w) \/ EndEnrollment(w) \/ EndBatch(w) \/ Fetch(w)
             \/ ReadAttempts(w) \/ Dies(w)
    BY <1>2, <2>6 DEF Start, List, EndEnrollment, EndBatch, Fetch, ReadAttempts, Dies, rowVars
  <2> QED
    BY <1>3, <2>1, <2>2, <2>3, <2>4, <2>5, <2>6 DEF WorkerStep
<1>4. ASSUME NEW w \in Worker, Crash(w)
      PROVE  UNCHANGED <<outcome[j], receipts[j], status[j], attempts[j]>>
  BY <1>2, <1>4 DEF Crash, rowVars
<1>5. CASE Publish
  BY <1>2, <1>5 DEF Publish, rowVars
<1>6. ASSUME NEW k \in Plan, TargetPasses(k) \/ RetryFallsDue(k) \/ LeaseExpires(k)
      PROVE  UNCHANGED <<outcome[j], receipts[j], status[j], attempts[j]>>
  BY <1>2, <1>6 DEF TargetPasses, RetryFallsDue, LeaseExpires
<1> QED
  BY <1>2, <1>3, <1>4, <1>5, <1>6 DEF Next, vars, rowVars

(* No recovery and no late claim reopens or changes a plan that has its      *)
(* outcome (requeue_stale, retry_with_attempt, complete_with_attempt).       *)
THEOREM DecidedIsFinal == Spec => OutcomesAreFinal
<1>1. Inv /\ [Next]_vars =>
        [\A j \in Plan : outcome[j] # NoOutcome =>
           UNCHANGED <<outcome[j], receipts[j], status[j], attempts[j]>>]_vars
  BY DecidedStands
<1> QED
  BY <1>1, InvAlways, PTL DEF Spec, OutcomesAreFinal
-----------------------------------------------------------------------------
(* The outcome jobs implement bounded retries *)

PlanResult == [j \in Plan |-> IF status[j] \in TerminalStatus THEN status[j] ELSE "none"]
PlanRecord == [j \in Plan |-> IF outcome[j] = NoOutcome THEN "none" ELSE outcome[j].status]

LEMMA RetriesMapping ==
  ASSUME NEW j \in Plan, NEW r
  PROVE  /\ Retries!Spend(j) <=>
              /\ PlanResult[j] = "none"
              /\ attempts[j] < AttemptLimit
              /\ attempts' = [attempts EXCEPT ![j] = @ + 1]
         /\ Retries!Retry(j) <=>
              /\ Retries!Spend(j)
              /\ attempts'[j] < AttemptLimit
              /\ PlanResult' = PlanResult /\ PlanRecord' = PlanRecord
         /\ Retries!End(j, r) <=>
              /\ Retries!Spend(j)
              /\ r \in {} => attempts'[j] = AttemptLimit
              /\ PlanResult' = [PlanResult EXCEPT ![j] = r]
              /\ PlanRecord' = IF r \in TerminalStatus THEN [PlanRecord EXCEPT ![j] = r]
                              ELSE PlanRecord
BY DEF Retries!Spend, Retries!Retry, Retries!End, PlanResult, PlanRecord

(* The attempt of a current claim is the next one of an open plan.           *)
LEMMA AttemptIsSpent ==
  ASSUME Inv, NEW w \in Worker, pc[w] \in {"retry", "complete"}, Current(w),
         attempts' = [attempts EXCEPT ![held[w]] = attempt[w]]
  PROVE  Retries!Spend(held[w]) /\ attempts'[held[w]] = attempt[w]
<1> DEFINE k == held[w]
<1>1. /\ k \in Plan /\ attempt[w] \in 1..AttemptLimit
      /\ status[k] = "processing" /\ attempts[k] = attempt[w] - 1
  BY ReceiptIsNext
<1>2. attempts \in [Plan -> 0..AttemptLimit] /\ attempts' = [attempts EXCEPT ![k] = attempt[w]]
  BY DEF Inv, TypeOK
<1> HIDE DEF k
<1>3. attempt[w] = attempts[k] + 1 /\ attempts[k] < AttemptLimit
  BY <1>1
<1>4. attempts'[k] = attempt[w] /\ attempts' = [attempts EXCEPT ![k] = @ + 1]
  BY ONLY <1>1, <1>2, <1>3
<1>5. PlanResult[k] = "none"
  BY <1>1 DEF PlanResult
<1>6. Retries!Spend(k) /\ attempts'[k] = attempt[w]
  BY ONLY <1>1, <1>3, <1>4, <1>5, RetriesMapping
<1> QED
  BY <1>6 DEF k

LEMMA RetryImplements ==
  ASSUME Inv, NEW w \in Worker, Retry(w)
  PROVE  Retries!Next
<1> DEFINE k == held[w]
<1>1. /\ pc[w] = "retry" /\ Current(w) /\ attempt[w] < AttemptLimit
      /\ attempts' = [attempts EXCEPT ![held[w]] = attempt[w]]
      /\ status' = [status EXCEPT ![k] = "retry_wait"] /\ outcome' = outcome
  BY DEF Retry, RetryAccepted
<1>2. k \in Plan /\ status[k] = "processing"
  BY <1>1, ReceiptIsNext
<1>3. Retries!Spend(k) /\ attempts'[k] = attempt[w]
  BY <1>1, AttemptIsSpent
<1>t. status \in [Plan -> OpenStatus \cup TerminalStatus \cup {"absent"}]
  BY DEF Inv, TypeOK
<1> HIDE DEF k
<1>4. PlanResult' = PlanResult /\ PlanRecord' = PlanRecord
  BY <1>1, <1>2, <1>t DEF PlanResult, PlanRecord
<1>5. Retries!Retry(k)
  BY ONLY <1>1, <1>2, <1>3, <1>4, RetriesMapping
<1> QED
  BY <1>2, <1>5 DEF Retries!Next

LEMMA CompleteImplements ==
  ASSUME Inv, NEW w \in Worker, Complete(w)
  PROVE  Retries!Next
<1> DEFINE k == held[w]
           ending == Evaluate(verdict[w])
           new == [status |-> ending, attempts |-> read[w] \cup {Receipt(w)}]
<1>1. /\ pc[w] = "complete" /\ Current(w)
      /\ attempts' = [attempts EXCEPT ![held[w]] = attempt[w]]
      /\ status' = [status EXCEPT ![k] = JobStatus(ending)]
      /\ outcome' = [outcome EXCEPT ![k] = new]
  BY DEF Complete, CompleteAccepted
<1>2. k \in Plan
  BY <1>1, ReceiptIsNext
<1>3. Retries!Spend(k)
  BY <1>1, AttemptIsSpent
<1>4. ending \in TerminalStatus /\ JobStatus(ending) = ending
  BY DEF Evaluate, JobStatus
<1>5. new \in Outcomes
  <2>1. Receipt(w) \in Receipts
    BY <1>1, ReceiptIsNext
  <2>2. read[w] \cup {Receipt(w)} \in SUBSET Receipts
    BY <2>1 DEF Inv, TypeOK
  <2> HIDE DEF ending
  <2> QED
    BY <1>4, <2>2 DEF Outcomes
<1>6. new # NoOutcome /\ new.status = ending
  BY <1>5, NoOutcomeAssumption
<1>t. /\ status \in [Plan -> OpenStatus \cup TerminalStatus \cup {"absent"}]
      /\ outcome \in [Plan -> Outcomes \cup {NoOutcome}]
  BY DEF Inv, TypeOK
<1> HIDE DEF k, ending, new
<1>7. PlanResult' = [PlanResult EXCEPT ![k] = ending]
  <2>1. status' = [status EXCEPT ![k] = ending]
    BY <1>1, <1>4
  <2> QED
    BY <1>2, <1>4, <1>t, <2>1 DEF PlanResult
<1>8. PlanRecord' = [PlanRecord EXCEPT ![k] = ending]
  BY <1>1, <1>2, <1>6, <1>t DEF PlanRecord
<1>9. PICK r \in TerminalStatus : r = ending
  BY <1>4
<1>10. Retries!End(k, r)
  BY ONLY <1>2, <1>3, <1>7, <1>8, <1>9, RetriesMapping
<1> QED
  BY <1>2, <1>10 DEF Retries!Next

(* A step that leaves attempts and outcomes alone and ends no plan is a      *)
(* stutter.                                                                  *)
LEMMA OtherStepsStutter ==
  ASSUME UNCHANGED <<attempts, outcome>>,
         \A j \in Plan : status'[j] # status[j] =>
           status[j] \notin TerminalStatus /\ status'[j] \notin TerminalStatus
  PROVE  UNCHANGED <<attempts, PlanResult, PlanRecord>>
<1>1. PlanRecord' = PlanRecord
  BY DEF PlanRecord
<1>2. \A j \in Plan : (IF status'[j] \in TerminalStatus THEN status'[j] ELSE "none")
                      = (IF status[j] \in TerminalStatus THEN status[j] ELSE "none")
  OBVIOUS
<1>3. PlanResult' = PlanResult
  BY <1>2 DEF PlanResult
<1> QED
  BY <1>1, <1>3

LEMMA RetriesStep ==
  ASSUME Inv, [Next]_vars
  PROVE  Retries!Next \/ UNCHANGED <<attempts, PlanResult, PlanRecord>>
<1>t. status \in [Plan -> OpenStatus \cup TerminalStatus \cup {"absent"}]
  BY DEF Inv, TypeOK
<1>1. CASE UNCHANGED <<status, attempts, outcome>>
  BY <1>1, OtherStepsStutter
<1>2. ASSUME NEW w \in Worker, WorkerStep(w)
      PROVE  Retries!Next \/ UNCHANGED <<attempts, PlanResult, PlanRecord>>
  <2>1. CASE RequeueStale(w)
    <3>1. \A j \in Plan : status'[j] # status[j] =>
            status[j] = "processing" /\ status'[j] = "retry_wait"
      BY <2>1 DEF RequeueStale, Stale
    <3>2. UNCHANGED <<attempts, outcome>>
      BY <2>1 DEF RequeueStale
    <3> QED
      BY <3>1, <3>2, OtherStepsStutter
  <2>2. ASSUME NEW k \in Plan, Enroll(w, k)
        PROVE  UNCHANGED <<attempts, PlanResult, PlanRecord>>
    <3>1. \A j \in Plan : status'[j] # status[j] =>
            status[j] = "absent" /\ status'[j] = "pending"
      BY <2>2, <1>t DEF Enroll
    <3>2. UNCHANGED <<attempts, outcome>>
      BY <2>2 DEF Enroll
    <3> QED
      BY <3>1, <3>2, OtherStepsStutter
  <2>3. ASSUME NEW k \in Plan, Claim(w, k)
        PROVE  UNCHANGED <<attempts, PlanResult, PlanRecord>>
    <3>1. \A j \in Plan : status'[j] # status[j] =>
            status[j] \in {"pending", "retry_wait"} /\ status'[j] = "processing"
      BY <2>3, <1>t DEF Claim, Claimable
    <3>2. UNCHANGED <<attempts, outcome>>
      BY <2>3 DEF Claim, ClaimLeavesAttempts
    <3> QED
      BY <3>1, <3>2, OtherStepsStutter
  <2>4. CASE Retry(w)
    BY <2>4, RetryImplements
  <2>5. CASE Complete(w)
    BY <2>5, CompleteImplements
  <2>6. CASE \/ Start(w) \/ List(w) \/ EndEnrollment(w) \/ EndBatch(w) \/ Fetch(w)
             \/ ReadAttempts(w) \/ Dies(w)
    BY <1>1, <2>6 DEF Start, List, EndEnrollment, EndBatch, Fetch, ReadAttempts, Dies, rowVars
  <2> QED
    BY <1>2, <2>1, <2>2, <2>3, <2>4, <2>5, <2>6 DEF WorkerStep
<1>3. ASSUME NEW w \in Worker, Crash(w) PROVE UNCHANGED <<status, attempts, outcome>>
  BY <1>3 DEF Crash, rowVars
<1>4. CASE Publish
  BY <1>1, <1>4 DEF Publish, rowVars
<1>5. ASSUME NEW k \in Plan, TargetPasses(k) \/ RetryFallsDue(k) \/ LeaseExpires(k)
      PROVE  UNCHANGED <<status, attempts, outcome>>
  BY <1>5 DEF TargetPasses, RetryFallsDue, LeaseExpires
<1> QED
  BY <1>1, <1>2, <1>3, <1>4, <1>5 DEF Next, vars, rowVars

(* However many processes hold one attempt of a plan, seen from its row it   *)
(* is one series of at most AttemptLimit attempts, which ends once, with the *)
(* outcome the job is closed with (claim, retry_with_attempt,                *)
(* complete_with_attempt, requeue_stale).                                    *)
THEOREM ImplementsRetries == Spec => PlansEndOnce
<1>1. Init => Retries!Init
  BY DEF Init, Retries!Init
<1>2. Inv /\ [Next]_vars =>
        [Retries!Next]_<<attempts,
          [j \in Plan |-> IF status[j] \in TerminalStatus THEN status[j] ELSE "none"],
          [j \in Plan |-> IF outcome[j] = NoOutcome THEN "none" ELSE outcome[j].status]>>
  BY RetriesStep DEF PlanResult, PlanRecord
<1> QED
  BY <1>1, <1>2, InvAlways, PTL DEF Spec, PlansEndOnce, Retries!Spec
=============================================================================
