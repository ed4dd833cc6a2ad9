------------------------- MODULE ProspectiveOutcomes -------------------------
(***************************************************************************)
(* Prospective outcomes of published briefs (prospective/store.py and       *)
(* worker.py, migration 0014): for every publication with a US listing and  *)
(* every horizon an immutable plan with a mutable job; a job is claimed     *)
(* when its target session has closed, and ends in one immutable outcome    *)
(* that retains every attempt.                                              *)
(*                                                                         *)
(* Any exception of the store ends the process: run_once catches none and   *)
(* Compose starts it again.                                                 *)
(***************************************************************************)
EXTENDS Naturals, FiniteSets

CONSTANTS
  MaxPublications, (* bound: briefs published                              *)
  Mapped,          (* publications _map_us_listing finds a venue for       *)
  Horizon,         (* OutcomeHorizon                                       *)
  CloseRank,       (* claim order: target close, publication, horizon      *)
  Worker,          (* worker processes over the same database              *)
  NoPlan,          (* what an idle worker holds                            *)
  NoOutcome,       (* before a plan has an outcome                         *)
  Limit,           (* publications_for_enrollment(limit)                   *)
  BatchSize,       (* prospective_outcomes_batch_size                      *)
  AttemptLimit,    (* attempts after which a failure is final              *)
  MaxCrashes,      (* bound: crashes considered                            *)
  MaxSlow          (* bound: leases that expire under a live worker        *)

Publication == 1..MaxPublications
Plan        == Publication \X Horizon

ASSUME ProspectiveAssumption ==
  /\ MaxPublications \in Nat
  /\ Mapped \subseteq Publication
  /\ Horizon \subseteq Nat /\ IsFiniteSet(Horizon)
  /\ CloseRank \in [Plan -> Nat]
  /\ \A i, j \in Plan : CloseRank[i] = CloseRank[j] => i = j
  /\ NoPlan \notin Plan
  /\ Limit \in Nat \ {0}
  /\ BatchSize \in Nat \ {0}
  /\ AttemptLimit \in Nat \ {0}
  /\ MaxCrashes \in Nat
  /\ MaxSlow \in Nat

VARIABLES
  published,      (* research_briefs: a publication is its place in time   *)
  passed,         (* plans whose target close is twelve hours past         *)
  status, attempts, due, stale,  (* the job rows; "absent" without a plan  *)
  receipts,       (* research_prospective_outcome_attempts of each plan    *)
  outcome,        (* research_prospective_outcomes of each plan            *)
  pc, todo, held, attempt, verdict, read, claims,      (* the workers      *)
  crashes, slow

rowVars    == <<status, attempts, due, stale, receipts, outcome>>
workerVars == <<pc, todo, held, attempt, verdict, read, claims>>
faultVars  == <<crashes, slow>>
vars == <<published, passed, rowVars, workerVars, faultVars>>

-----------------------------------------------------------------------------
(* Values *)

OpenStatus     == {"pending", "processing", "retry_wait"}
TerminalStatus == {"completed", "data_unavailable"}
Verdicts       == {"succeeded", "retryable_failure", "terminal_failure"}
Receipts       == [number : 1..AttemptLimit, status : Verdicts]
Outcomes       == [status : TerminalStatus, attempts : SUBSET Receipts]

ASSUME NoOutcomeAssumption == NoOutcome \notin Outcomes

Stages == {"down", "cycle", "list", "enroll", "claim", "fetch", "retry", "read",
           "complete"}

(* Job rows, attempts and outcomes keep their types and limits               *)
(* (migration 0014).                                                         *)
TypeOK ==
  /\ published \in 0..MaxPublications
  /\ passed \subseteq Plan
  /\ status \in [Plan -> OpenStatus \cup TerminalStatus \cup {"absent"}]
  /\ attempts \in [Plan -> 0..AttemptLimit]
  /\ due \in [Plan -> BOOLEAN]
  /\ stale \in [Plan -> BOOLEAN]
  /\ receipts \in [Plan -> SUBSET Receipts]
  /\ outcome \in [Plan -> Outcomes \cup {NoOutcome}]
  /\ pc \in [Worker -> Stages]
  /\ todo \in [Worker -> SUBSET Plan]
  /\ held \in [Worker -> Plan \cup {NoPlan}]
  /\ attempt \in [Worker -> 0..AttemptLimit]
  /\ verdict \in [Worker -> Verdicts]
  /\ read \in [Worker -> SUBSET Receipts]
  /\ claims \in [Worker -> 0..BatchSize]
  /\ crashes \in 0..MaxCrashes
  /\ slow \in 0..MaxSlow

Init ==
  /\ published = 0
  /\ passed = {}
  /\ status = [j \in Plan |-> "absent"]
  /\ attempts = [j \in Plan |-> 0]
  /\ due = [j \in Plan |-> FALSE]
  /\ stale = [j \in Plan |-> FALSE]
  /\ receipts = [j \in Plan |-> {}]
  /\ outcome = [j \in Plan |-> NoOutcome]
  /\ pc = [w \in Worker |-> "down"]
  /\ todo = [w \in Worker |-> {}]
  /\ held = [w \in Worker |-> NoPlan]
  /\ attempt = [w \in Worker |-> 0]
  /\ verdict = [w \in Worker |-> "succeeded"]
  /\ read = [w \in Worker |-> {}]
  /\ claims = [w \in Worker |-> 0]
  /\ crashes = 0
  /\ slow = 0

Goto(w, stage) == pc' = [pc EXCEPT ![w] = stage]

(* The worker is done with its plan, or its memory is gone.                  *)
Release(w, stage) ==
  /\ Goto(w, stage)
  /\ held' = [held EXCEPT ![w] = NoPlan]
  /\ attempt' = [attempt EXCEPT ![w] = 0]
  /\ verdict' = [verdict EXCEPT ![w] = "succeeded"]
  /\ read' = [read EXCEPT ![w] = {}]

-----------------------------------------------------------------------------
(* The start of a cycle: stale leases, then enrolment *)

(* A filing of the queue is published (module FilingQueue).                  *)
Publish ==
  /\ published < MaxPublications
  /\ published' = published + 1
  /\ UNCHANGED <<passed, rowVars, workerVars, faultVars>>

Start(w) ==
  /\ pc[w] = "down"
  /\ Goto(w, "cycle")
  /\ UNCHANGED <<published, passed, rowVars, todo, held, attempt, verdict, read, claims,
                 faultVars>>

RequeuesDecided(j) == status[j] # "absent" /\ attempts[j] < AttemptLimit

Stale(j) == status[j] = "processing" /\ stale[j] /\ attempts[j] < AttemptLimit

RequeueStale(w) ==
  /\ pc[w] = "cycle"
  /\ status' = [j \in Plan |-> IF Stale(j) THEN "retry_wait" ELSE status[j]]
  /\ due' = [j \in Plan |-> due[j] \/ Stale(j)]
  /\ stale' = [j \in Plan |-> stale[j] /\ ~Stale(j)]
  /\ Goto(w, "list")
  /\ UNCHANGED <<published, passed, attempts, receipts, outcome, todo, held, attempt,
                 verdict, read, claims, faultVars>>

(* HAVING count(p.plan_id) < 3 ORDER BY published_at LIMIT limit: whether a  *)
(* publication can be mapped is only asked afterwards.                       *)
NeverEnrolled(p) == \A h \in Horizon : status[<<p, h>>] = "absent"

Unenrolled(p) == \E h \in Horizon : status[<<p, h>>] = "absent"

Window ==
  LET open == {p \in 1..published : Unenrolled(p)}
  IN  {p \in open : Cardinality({q \in open : q < p}) < Limit}

List(w) ==
  /\ pc[w] = "list"
  /\ todo' = [todo EXCEPT ![w] = (Window \cap Mapped) \X Horizon]
  /\ Goto(w, "enroll")
  /\ UNCHANGED <<published, passed, rowVars, held, attempt, verdict, read, claims, faultVars>>

EarlierPlan(i, j) == i[1] < j[1] \/ (i[1] = j[1] /\ i[2] < j[2])

(* One transaction per plan; ON CONFLICT DO NOTHING.  The first attempt is   *)
(* due twelve hours after the target close, or at once.  A publication       *)
(* stamped after the cycle read its clock has no valid plan: the exception   *)
(* ends the process, which is Crash.                                         *)
Enroll(w, j) ==
  /\ pc[w] = "enroll"
  /\ j \in todo[w]
  /\ \A i \in todo[w] : i = j \/ EarlierPlan(j, i)
  /\ IF status[j] = "absent"
     THEN /\ status' = [status EXCEPT ![j] = "pending"]
          /\ due' = [due EXCEPT ![j] = j \in passed]
     ELSE UNCHANGED <<status, due>>
  /\ todo' = [todo EXCEPT ![w] = @ \ {j}]
  /\ UNCHANGED <<published, passed, attempts, stale, receipts, outcome, pc, held, attempt,
                 verdict, read, claims, faultVars>>

EndEnrollment(w) ==
  /\ pc[w] = "enroll"
  /\ todo[w] = {}
  /\ claims' = [claims EXCEPT ![w] = 0]
  /\ Goto(w, "claim")
  /\ UNCHANGED <<published, passed, rowVars, todo, held, attempt, verdict, read, faultVars>>

-----------------------------------------------------------------------------
(* Claims *)

Claimable(j) ==
  /\ status[j] \in {"pending", "retry_wait"}
  /\ attempts[j] < AttemptLimit
  /\ due[j]

BatchOpen(w) == claims[w] < BatchSize

(* The attempt is spent by its receipt, not by the claim.                    *)
ClaimSpends(j) == attempts' = [attempts EXCEPT ![j] = @ + 1]

ClaimLeavesAttempts(j) == UNCHANGED attempts

Claim(w, j) ==
  /\ pc[w] = "claim"
  /\ BatchOpen(w)
  /\ Claimable(j)
  /\ \A i \in Plan : Claimable(i) => CloseRank[j] <= CloseRank[i]
  /\ status' = [status EXCEPT ![j] = "processing"]
  /\ due' = [due EXCEPT ![j] = FALSE]
  /\ stale' = [stale EXCEPT ![j] = FALSE]
  /\ held' = [held EXCEPT ![w] = j]
  /\ attempt' = [attempt EXCEPT ![w] = attempts[j] + 1]
  /\ claims' = [claims EXCEPT ![w] = @ + 1]
  /\ ClaimLeavesAttempts(j)
  /\ Goto(w, "fetch")
  /\ UNCHANGED <<published, passed, receipts, outcome, todo, verdict, read,
                 faultVars>>

EndBatch(w) ==
  /\ pc[w] = "claim"
  /\ ~BatchOpen(w) \/ \A j \in Plan : ~Claimable(j)
  /\ Goto(w, "cycle")
  /\ UNCHANGED <<published, passed, rowVars, todo, held, attempt, verdict, read, claims,
                 faultVars>>

-----------------------------------------------------------------------------
(* One attempt *)

RetriesForever(w) == FALSE

Exhausted(w) == attempt[w] >= AttemptLimit

(* The provider returns all four bars, fails (or a bar is missing) in a way  *)
(* that may be retried, or fails for good.                                   *)
Fetch(w) ==
  /\ pc[w] = "fetch"
  /\ \/ /\ verdict' = [verdict EXCEPT ![w] = "succeeded"]
        /\ Goto(w, "read")
     \/ /\ ~Exhausted(w)
        /\ verdict' = [verdict EXCEPT ![w] = "retryable_failure"]
        /\ Goto(w, "retry")
     \/ /\ verdict' = [verdict EXCEPT ![w] = "terminal_failure"]
        /\ Goto(w, "read")
  /\ UNCHANGED <<published, passed, rowVars, todo, held, attempt, read, claims, faultVars>>

Receipt(w) == [number |-> attempt[w], status |-> verdict[w]]

(* UNIQUE (plan_id, attempt_number)                                          *)
NumberFree(w) == \A r \in receipts[held[w]] : r.number # attempt[w]

(* WHERE plan_id = %s AND status = 'processing' AND attempts = %s            *)
Current(w) == status[held[w]] = "processing" /\ attempts[held[w]] = attempt[w] - 1

RetryUnchecked(w) == attempt[w] < AttemptLimit

RetryAccepted(w) == attempt[w] < AttemptLimit /\ NumberFree(w) /\ Current(w)

Retry(w) ==
  LET j == held[w] IN
  /\ pc[w] = "retry"
  /\ RetryAccepted(w)
  /\ receipts' = [receipts EXCEPT ![j] = @ \cup {Receipt(w)}]
  /\ status' = [status EXCEPT ![j] = "retry_wait"]
  /\ attempts' = [attempts EXCEPT ![j] = attempt[w]]
  /\ due' = [due EXCEPT ![j] = FALSE]
  /\ stale' = [stale EXCEPT ![j] = FALSE]
  /\ Release(w, "claim")
  /\ UNCHANGED <<published, passed, outcome, todo, claims, faultVars>>

(* The contract of the outcome: receipts ordered and uniquely numbered.      *)
Ordered(w) == \A r \in receipts[held[w]] : r.number < attempt[w]

ReadAttempts(w) ==
  /\ pc[w] = "read"
  /\ Ordered(w)
  /\ read' = [read EXCEPT ![w] = receipts[held[w]]]
  /\ Goto(w, "complete")
  /\ UNCHANGED <<published, passed, rowVars, todo, held, attempt, verdict, claims, faultVars>>

(* The trigger on outcomes: every retained attempt, and no other.            *)
RetainsAttempts(w) == read[w] = receipts[held[w]]

CompleteAccepted(w) ==
  /\ NumberFree(w)
  /\ outcome[held[w]] = NoOutcome
  /\ RetainsAttempts(w)
  /\ Current(w)

Evaluate(v) == IF v = "succeeded" THEN "completed" ELSE "data_unavailable"

AlwaysCompleted(end) == "completed"

JobStatus(end) == IF end = "completed" THEN "completed" ELSE "data_unavailable"

Complete(w) ==
  LET j   == held[w]
      end == Evaluate(verdict[w])
  IN
  /\ pc[w] = "complete"
  /\ CompleteAccepted(w)
  /\ receipts' = [receipts EXCEPT ![j] = @ \cup {Receipt(w)}]
  /\ outcome' = [outcome EXCEPT ![j] =
       [status |-> end, attempts |-> read[w] \cup {Receipt(w)}]]
  /\ status' = [status EXCEPT ![j] = JobStatus(end)]
  /\ attempts' = [attempts EXCEPT ![j] = attempt[w]]
  /\ stale' = [stale EXCEPT ![j] = FALSE]
  /\ Release(w, "claim")
  /\ UNCHANGED <<published, passed, due, todo, claims, faultVars>>

(* The transaction rolls back and the exception ends the process.            *)
Dies(w) ==
  /\ \/ pc[w] = "retry" /\ ~RetryAccepted(w)
     \/ pc[w] = "read" /\ ~Ordered(w)
     \/ pc[w] = "complete" /\ ~CompleteAccepted(w)
  /\ Release(w, "down")
  /\ UNCHANGED <<published, passed, rowVars, todo, claims, faultVars>>

-----------------------------------------------------------------------------
(* Time, crashes and the specification *)

TargetPasses(j) ==
  /\ j[1] <= published
  /\ j \notin passed
  /\ \A i \in Plan : i[1] <= published /\ CloseRank[i] < CloseRank[j] => i \in passed
  /\ passed' = passed \cup {j}
  /\ due' = [due EXCEPT ![j] = @ \/ status[j] = "pending"]
  /\ UNCHANGED <<published, status, attempts, stale, receipts, outcome, workerVars,
                 faultVars>>

RetryFallsDue(j) ==
  /\ status[j] = "retry_wait" /\ ~due[j]
  /\ due' = [due EXCEPT ![j] = TRUE]
  /\ UNCHANGED <<published, passed, status, attempts, stale, receipts, outcome, workerVars,
                 faultVars>>

IsHeld(j) == \E w \in Worker : held[w] = j

LeaseExpires(j) ==
  /\ status[j] = "processing" /\ ~stale[j]
  /\ IsHeld(j) => slow < MaxSlow
  /\ slow' = IF IsHeld(j) THEN slow + 1 ELSE slow
  /\ stale' = [stale EXCEPT ![j] = TRUE]
  /\ UNCHANGED <<published, passed, status, attempts, due, receipts, outcome, workerVars,
                 crashes>>

Crash(w) ==
  /\ pc[w] # "down"
  /\ crashes < MaxCrashes
  /\ crashes' = crashes + 1
  /\ todo' = [todo EXCEPT ![w] = {}]
  /\ Release(w, "down")
  /\ UNCHANGED <<published, passed, rowVars, claims, slow>>

WorkerStep(w) ==
  \/ Start(w) \/ RequeueStale(w) \/ List(w) \/ EndEnrollment(w)
  \/ \E j \in Plan : Enroll(w, j) \/ Claim(w, j)
  \/ EndBatch(w) \/ Fetch(w) \/ Retry(w) \/ ReadAttempts(w) \/ Complete(w) \/ Dies(w)

Next ==
  \/ Publish
  \/ \E w \in Worker : WorkerStep(w) \/ Crash(w)
  \/ \E j \in Plan : TargetPasses(j) \/ RetryFallsDue(j) \/ LeaseExpires(j)

Spec == Init /\ [][Next]_vars

(* Compose restarts a process that ended, the loop polls for ever and the    *)
(* clock goes on.                                                            *)
Fairness ==
  /\ \A w \in Worker : WF_vars(WorkerStep(w))
  /\ \A j \in Plan : WF_vars(TargetPasses(j)) /\ WF_vars(RetryFallsDue(j))
                       /\ WF_vars(LeaseExpires(j))

FairSpec == Spec /\ Fairness

-----------------------------------------------------------------------------
(* Properties *)

(* However many processes hold one attempt of a plan, one of them spends it  *)
(* and the others leave no trace; a plan is given its outcome, the one its   *)
(* job is closed with, in one step that nothing reopens                      *)
(* (retry_with_attempt, complete_with_attempt, requeue_stale).               *)
Retries == INSTANCE BoundedRetries WITH
  Job        <- Plan,
  Result     <- TerminalStatus,
  Exhausting <- {},
  Recorded   <- TerminalStatus,
  spent      <- attempts,
  result     <- [j \in Plan |-> IF status[j] \in TerminalStatus THEN status[j] ELSE "none"],
  record     <- [j \in Plan |-> IF outcome[j] = NoOutcome THEN "none" ELSE outcome[j].status]

PlansEndOnce == Retries!Spec

(* PHASE37: attempts and outcomes commit atomically, without a gap or a      *)
(* duplicate.  However two processes with claims on one plan interleave, the *)
(* receipts are numbered one by one up to the attempts of the row, and only  *)
(* the last receipt of a plan with an outcome is not a retryable failure.    *)
AttemptsAreGapFree ==
  \A j \in Plan :
    /\ \A n \in 1..AttemptLimit :
         n <= attempts[j] <=> \E r \in receipts[j] : r.number = n
    /\ \A r, s \in receipts[j] : r.number = s.number => r = s
    /\ \A r \in receipts[j] :
         r.status # "retryable_failure" <=> outcome[j] # NoOutcome /\ r.number = attempts[j]

(* PHASE37: an outcome retains every attempt.  A terminal row has the        *)
(* outcome it names, and an outcome lists all receipts there are.            *)
OutcomeRetainsAttempts ==
  \A j \in Plan :
    /\ status[j] \in TerminalStatus =>
         outcome[j] # NoOutcome /\ outcome[j].status = status[j]
    /\ outcome[j] # NoOutcome => outcome[j].attempts = receipts[j]

(* Nothing reopens or changes a plan with an outcome: no recovery, and no    *)
(* late claim that still carries an attempt number of the row it lost        *)
(* (complete_with_attempt, requeue_stale).                                   *)
OutcomesAreFinal ==
  [][\A j \in Plan : outcome[j] # NoOutcome =>
       UNCHANGED <<outcome[j], receipts[j], status[j], attempts[j]>>]_vars

(* Every enrolled plan gets its outcome within the attempt limit, across     *)
(* crashes, slow claims and processes that end on a lost claim.              *)
PlansAreEvaluated ==
  \A j \in Plan : status[j] # "absent" ~> outcome[j] # NoOutcome

(* PHASE37: for each dossier and each horizon.  A publication that can be    *)
(* mapped is enrolled at every horizon, also when the process ends between   *)
(* two horizons, as long as fewer than Limit older ones cannot be mapped.    *)
Enrolled(p) == \A h \in Horizon : status[<<p, h>>] # "absent"
EnrolledUnlessCrowdedOut ==
  \A p \in Mapped :
    Cardinality({q \in Publication \ Mapped : q < p}) < Limit
      => (p <= published ~> Enrolled(p))

(* PHASE37: for each immutable filing dossier and each horizon; OTC and      *)
(* Canadian listings are skipped.                                            *)
EveryDossierEnrolled == \A p \in Mapped : p <= published ~> Enrolled(p)
=============================================================================
