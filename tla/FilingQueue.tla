----------------------------- MODULE FilingQueue -----------------------------
(***************************************************************************)
(* The candidate queue of the filing radar: the table research_candidates  *)
(* with its append-only ledgers (screening decisions, verification         *)
(* dispositions, retry reservations, briefs), and the worker processes     *)
(* that claim filings from it and walk them through radar/worker.py.       *)
(*                                                                         *)
(* One action is one database transaction or one stretch of worker code    *)
(* between two transactions.  Clock readings are kept as the comparisons   *)
(* the SQL makes: "due" is next_attempt_at <= now, "expired" is an         *)
(* updated_at older than the 30 minute lease, "aged" is a discovered_at    *)
(* older than 24 hours.                                                    *)
(***************************************************************************)
EXTENDS Naturals, FiniteSets

CONSTANTS
  Filing,          (* accession numbers the SEC index may list             *)
  NoFiling,        (* what an idle worker holds                            *)
  Worker,          (* worker processes over the same database              *)
  Seniority,       (* the (discovered_at, accession) order of the filings  *)
  Focus,           (* filings whose issuer is in the Focus universe        *)
  VerifierModes,   (* values of worker_verifier_enabled a start may read   *)
  BatchSize,       (* worker_batch_size                                    *)
  ModelLimit,      (* attempts after which an ordinary error is final      *)
  AttemptLimit,    (* attempts after which a verifier error is final; also *)
                   (* the CHECK bound on research_candidates.attempts      *)
  MaxCrashes,      (* bound: crashes and aborted cycles considered         *)
  MaxStoreFaults   (* bound: failed counter updates considered             *)

ASSUME QueueAssumption ==
  /\ NoFiling \notin Filing
  /\ Seniority \in [Filing -> Nat]
  /\ \A f, g \in Filing : Seniority[f] = Seniority[g] => f = g
  /\ Focus \subseteq Filing
  /\ VerifierModes \subseteq BOOLEAN
  /\ BatchSize \in Nat \ {0}
  /\ ModelLimit \in Nat \ {0}
  /\ AttemptLimit \in Nat
  /\ ModelLimit <= AttemptLimit
  /\ MaxCrashes \in Nat
  /\ MaxStoreFaults \in Nat

VARIABLES
  status, attempts, due, expired, aged, escalated,   (* research_candidates *)
  reserved,      (* research_verification_retries, one row per filing       *)
  decision,      (* research_autonomous_screening_decisions                 *)
  disposition,   (* research_verification_dispositions                      *)
  brief,         (* research_briefs: the schema version published           *)
  pc, job, verifier, claims,                         (* the worker processes *)
  crashes, storeFaults                               (* bounded fault counts *)

queueVars  == <<status, attempts, due, expired, aged, escalated>>
ledgerVars == <<reserved, decision, disposition, brief>>
faultVars  == <<crashes, storeFaults>>
vars == <<queueVars, ledgerVars, pc, job, verifier, claims, faultVars>>

-----------------------------------------------------------------------------
(* Values *)

OpenStatus     == {"pending", "processing", "retry_wait"}
TerminalStatus == {"published", "skipped", "failed", "quarantined"}
Decisions      == {"QUALIFIED", "SCREENED_OUT", "ANALYSIS_INCOMPLETE"}
Dispositions   == {"APPROVED", "VERIFICATION_DISAGREEMENT", "ANALYST_RETRY_REJECTED"}

(* What a terminal transaction is about to write.  "retry" is the outcome's *)
(* retry_count, "counts" whether an increment_counter call follows it.      *)
Plans == [status : TerminalStatus, decision : Decisions,
          disposition : Dispositions \cup {"none"},
          brief : {"none", "v2", "v3"}, retry : BOOLEAN, counts : BOOLEAN]

Plan(st, dec, disp, br, rt, cnt) ==
  [status |-> st, decision |-> dec, disposition |-> disp,
   brief |-> br, retry |-> rt, counts |-> cnt]

SkipPlan == Plan("skipped", "SCREENED_OUT", "none", "none", FALSE, FALSE)
DeterministicPublication == Plan("published", "QUALIFIED", "none", "v3", FALSE, FALSE)
ApprovalUnrecorded(retried) == Plan("published", "QUALIFIED", "none", "v2", retried, FALSE)
Approval(retried) == Plan("published", "QUALIFIED", "APPROVED", "v2", retried, FALSE)
RetryScreenedOut ==
  Plan("quarantined", "SCREENED_OUT", "ANALYST_RETRY_REJECTED", "none", TRUE, TRUE)
RetryIncomplete ==
  Plan("failed", "ANALYSIS_INCOMPLETE", "ANALYST_RETRY_REJECTED", "none", TRUE, TRUE)
Disagreement ==
  Plan("quarantined", "SCREENED_OUT", "VERIFICATION_DISAGREEMENT", "none", TRUE, TRUE)

NoJob == [filing |-> NoFiling, attempt |-> 0, recon |-> FALSE,
          plan |-> SkipPlan, verdict |-> "approve", error |-> "ordinary"]

Stages == {"down", "poll", "requeue", "claim", "screen", "analyze", "verify",
           "reserve", "reanalyze", "reverify", "write", "count", "handle"}

Jobs == [filing : Filing \cup {NoFiling}, attempt : 0..AttemptLimit, recon : BOOLEAN,
         plan : Plans, verdict : {"approve", "challenge"},
         error : {"ordinary", "verifier"}]

(* Every column and every worker variable keeps its type; attempts stay      *)
(* within the CHECK of research_candidates.                                  *)
TypeOK ==
  /\ status \in [Filing -> OpenStatus \cup TerminalStatus \cup {"absent"}]
  /\ attempts \in [Filing -> 0..AttemptLimit]
  /\ due \in [Filing -> BOOLEAN]
  /\ expired \in [Filing -> BOOLEAN]
  /\ aged \in [Filing -> BOOLEAN]
  /\ escalated \in [Filing -> BOOLEAN]
  /\ reserved \in [Filing -> BOOLEAN]
  /\ decision \in [Filing -> Decisions \cup {"none"}]
  /\ disposition \in [Filing -> Dispositions \cup {"none"}]
  /\ brief \in [Filing -> {"none", "v2", "v3"}]
  /\ pc \in [Worker -> Stages]
  /\ job \in [Worker -> Jobs]
  /\ verifier \in [Worker -> BOOLEAN]
  /\ claims \in [Worker -> 0..BatchSize]
  /\ crashes \in 0..MaxCrashes
  /\ storeFaults \in 0..MaxStoreFaults

Init ==
  /\ status = [f \in Filing |-> "absent"]
  /\ attempts = [f \in Filing |-> 0]
  /\ due = [f \in Filing |-> TRUE]
  /\ expired = [f \in Filing |-> FALSE]
  /\ aged = [f \in Filing |-> FALSE]
  /\ escalated = [f \in Filing |-> FALSE]
  /\ reserved = [f \in Filing |-> FALSE]
  /\ decision = [f \in Filing |-> "none"]
  /\ disposition = [f \in Filing |-> "none"]
  /\ brief = [f \in Filing |-> "none"]
  /\ pc = [w \in Worker |-> "down"]
  /\ job = [w \in Worker |-> NoJob]
  /\ verifier = [w \in Worker |-> FALSE]
  /\ claims = [w \in Worker |-> 0]
  /\ crashes = 0
  /\ storeFaults = 0

-----------------------------------------------------------------------------
(* Worker control *)

Goto(w, stage) == pc' = [pc EXCEPT ![w] = stage]

(* Leave the candidate and go round the batch loop again. *)
NextCandidate(w) ==
  /\ Goto(w, "claim")
  /\ job' = [job EXCEPT ![w] = NoJob]

(* The cycle ends FAILED or COMPLETED; the next one starts by polling. *)
EndCycle(w) ==
  /\ Goto(w, "poll")
  /\ job' = [job EXCEPT ![w] = NoJob]

(* An exception reaches the per-candidate handler. *)
Raise(w, kind) ==
  /\ Goto(w, "handle")
  /\ job' = [job EXCEPT ![w].error = kind]

(* Go on to the terminal transaction with the outcome p. *)
Conclude(w, p) ==
  /\ Goto(w, "write")
  /\ job' = [job EXCEPT ![w].plan = p]

-----------------------------------------------------------------------------
(* The start of a process and the start of a cycle *)

(* Candidates left processing longer than the lease go to retry_wait, due   *)
(* at once; no other row is touched.                                        *)
RequeueExpired ==
  LET stale == {f \in Filing : status[f] = "processing" /\ expired[f]} IN
  /\ status' = [f \in Filing |-> IF f \in stale THEN "retry_wait" ELSE status[f]]
  /\ due' = [f \in Filing |-> f \in stale \/ due[f]]
  /\ expired' = [f \in Filing |-> f \notin stale /\ expired[f]]

Start(w) ==
  /\ pc[w] = "down"
  /\ \E mode \in VerifierModes : verifier' = [verifier EXCEPT ![w] = mode]
  /\ RequeueExpired
  /\ Goto(w, "poll")
  /\ UNCHANGED <<attempts, aged, escalated, ledgerVars, job, claims, faultVars>>

(* INSERT ... ON CONFLICT DO NOTHING of what the SEC index lists today.     *)
Discover(w) ==
  /\ pc[w] = "poll"
  /\ \E listed \in SUBSET Filing :
       /\ \A f \in listed, g \in Filing \ listed :
            status[g] = "absent" => Seniority[f] < Seniority[g]
       /\ status' = [f \in Filing |-> IF f \in listed /\ status[f] = "absent"
                                      THEN "pending" ELSE status[f]]
  /\ Goto(w, "requeue")
  /\ UNCHANGED <<attempts, due, expired, aged, escalated, ledgerVars, job,
                 verifier, claims, faultVars>>

Requeue(w) ==
  /\ pc[w] = "requeue"
  /\ RequeueExpired
  /\ Goto(w, "claim")
  /\ claims' = [claims EXCEPT ![w] = 0]
  /\ UNCHANGED <<attempts, aged, escalated, ledgerVars, job, verifier, faultVars>>

-----------------------------------------------------------------------------
(* Claiming *)

ClaimableAnyStatus(f) == status[f] # "absent" /\ due[f]

Claimable(f) ==
  \/ status[f] \in {"pending", "retry_wait"} /\ due[f]
  \/ status[f] = "processing" /\ expired[f]

Band(f) ==
  CASE aged[f]                       -> 0
    [] ~aged[f] /\ f \in Focus /\ escalated[f]    -> 1
    [] ~aged[f] /\ f \notin Focus /\ escalated[f] -> 2
    [] ~aged[f] /\ f \in Focus /\ ~escalated[f]   -> 3
    [] OTHER                         -> 4

Before(f, g) ==
  \/ Band(f) < Band(g)
  \/ Band(f) = Band(g) /\ Seniority[f] < Seniority[g]

HeadOfQueue(f) ==
  /\ Claimable(f)
  /\ \A g \in Filing : g # f /\ Claimable(g) => Before(f, g)

(* CHECK (attempts BETWEEN 0 AND 6) after attempts + 1 *)
NoCheck(f) == status[f] # "absent"

CheckAllows(f) == attempts[f] < AttemptLimit

(* A claim carries the reserved reconsideration with it, if there is one.   *)
Resumes(f) == reserved[f]

Claim(w, f) ==
  /\ pc[w] = "claim"
  /\ claims[w] < BatchSize
  /\ HeadOfQueue(f)
  /\ CheckAllows(f)
  /\ status' = [status EXCEPT ![f] = "processing"]
  /\ attempts' = [attempts EXCEPT ![f] = @ + 1]
  /\ due' = [due EXCEPT ![f] = TRUE]
  /\ expired' = [expired EXCEPT ![f] = FALSE]
  /\ claims' = [claims EXCEPT ![w] = @ + 1]
  /\ job' = [job EXCEPT ![w] = [NoJob EXCEPT !.filing = f, !.attempt = attempts[f] + 1,
                                             !.recon = Resumes(f)]]
  /\ Goto(w, "screen")
  /\ UNCHANGED <<aged, escalated, ledgerVars, verifier, faultVars>>

(* attempts + 1 violates the CHECK: the claim transaction rolls back and    *)
(* the exception ends the cycle.                                            *)
ClaimFails(w, f) ==
  /\ pc[w] = "claim"
  /\ claims[w] < BatchSize
  /\ HeadOfQueue(f)
  /\ ~CheckAllows(f)
  /\ EndCycle(w)
  /\ UNCHANGED <<queueVars, ledgerVars, verifier, claims, faultVars>>

NothingToClaim(w) ==
  /\ pc[w] = "claim"
  /\ claims[w] = BatchSize \/ \A f \in Filing : ~Claimable(f)
  /\ EndCycle(w)
  /\ UNCHANGED <<queueVars, ledgerVars, verifier, claims, faultVars>>

-----------------------------------------------------------------------------
(* One candidate, from retrieval to its terminal transaction *)

(* Retrieval, parsing, a model call, link validation or the next database   *)
(* call raises before anything is committed.                                *)
StepFails(w) ==
  /\ pc[w] \in {"screen", "analyze", "verify", "reserve", "reanalyze", "reverify",
                "write"}
  /\ \E kind \in {"ordinary", "verifier"} :
       /\ kind = "verifier" => pc[w] \in {"verify", "reverify"}
       /\ Raise(w, kind)
  /\ UNCHANGED <<queueVars, ledgerVars, verifier, claims, faultVars>>

(* The tier decision is stored whatever the row's status is by now, and     *)
(* refreshes updated_at; only ESCALATE asks for the model.                  *)
Screen(w) ==
  LET f == job[w].filing IN
  /\ pc[w] = "screen"
  /\ expired' = [expired EXCEPT ![f] = FALSE]
  /\ \E escalate \in BOOLEAN :
       /\ escalated' = [escalated EXCEPT ![f] = escalate]
       /\ \/ /\ escalate
             /\ Goto(w, IF job[w].recon THEN "reanalyze" ELSE "analyze")
             /\ UNCHANGED job
          \/ /\ ~escalate
             /\ Conclude(w, IF job[w].recon THEN RetryScreenedOut ELSE SkipPlan)
  /\ UNCHANGED <<status, attempts, due, aged, ledgerVars, verifier, claims, faultVars>>

(* The two analyst roles have answered: no brief, or a proposed one.        *)
Analyze(w) ==
  /\ pc[w] = "analyze"
  /\ \/ Conclude(w, SkipPlan)
     \/ ~verifier[w] /\ Conclude(w, DeterministicPublication)
     \/ verifier[w] /\ Goto(w, "verify") /\ UNCHANGED job
  /\ UNCHANGED <<queueVars, ledgerVars, verifier, claims, faultVars>>

(* A verifier report that approves raises no concern; one that challenges   *)
(* may still be refuted, concern by concern, by the deterministic           *)
(* arbitration, which then approves.                                        *)
Reports == {[verdict |-> "approve",   approved |-> TRUE],
            [verdict |-> "challenge", approved |-> TRUE],
            [verdict |-> "challenge", approved |-> FALSE]}

FirstReview(w) ==
  /\ pc[w] = "verify"
  /\ \E r \in Reports :
       \/ /\ r.approved
          /\ Goto(w, "write")
          /\ job' = [job EXCEPT ![w].plan = Approval(FALSE), ![w].verdict = r.verdict]
       \/ /\ ~r.approved
          /\ Goto(w, "reserve")
          /\ job' = [job EXCEPT ![w].verdict = r.verdict]
  /\ UNCHANGED <<queueVars, ledgerVars, verifier, claims, faultVars>>

(* The one semantic retry is made durable before the analyst is asked again *)
ReserveRetry(w) ==
  LET f == job[w].filing IN
  /\ pc[w] = "reserve"
  /\ \/ /\ ~reserved[f]
        /\ reserved' = [reserved EXCEPT ![f] = TRUE]
        /\ Goto(w, "reanalyze")
        /\ UNCHANGED job
     \/ /\ reserved[f]
        /\ Raise(w, "ordinary")
        /\ UNCHANGED reserved
  /\ UNCHANGED <<queueVars, decision, disposition, brief, verifier, claims, faultVars>>

Reanalyze(w) ==
  /\ pc[w] = "reanalyze"
  /\ \/ /\ job[w].recon /\ ~verifier[w]
        /\ Raise(w, "verifier")
     \/ /\ job[w].recon => verifier[w]
        /\ \/ Conclude(w, RetryIncomplete)
           \/ Conclude(w, RetryScreenedOut)
           \/ Goto(w, "reverify") /\ UNCHANGED job
  /\ UNCHANGED <<queueVars, ledgerVars, verifier, claims, faultVars>>

SecondReview(w) ==
  /\ pc[w] = "reverify"
  /\ \E r \in Reports :
       /\ Goto(w, "write")
       /\ job' = [job EXCEPT
            ![w].plan = IF r.approved THEN Approval(TRUE) ELSE Disagreement,
            ![w].verdict = r.verdict]
  /\ UNCHANGED <<queueVars, ledgerVars, verifier, claims, faultVars>>

-----------------------------------------------------------------------------
(* The terminal transaction *)

(* UNIQUE (accession_number) on research_autonomous_screening_decisions *)
UndecidedUpsert(f) == status[f] # "absent"

Undecided(f) == decision[f] = "none"

(* The unique keys and the triggers on the ledgers. *)
LedgersAccept(f, p, verdict) ==
  /\ Undecided(f)
  /\ p.disposition # "none" => disposition[f] = "none"
  /\ p.disposition = "APPROVED" => verdict = "approve"
  /\ p.disposition = "VERIFICATION_DISAGREEMENT" => verdict = "challenge"
  /\ p.retry => reserved[f]
  /\ p.brief # "none" => brief[f] = "none"

(* complete_candidate, record_verification_outcome and                      *)
(* record_deterministic_publication: one transaction over ledgers and row.  *)
(* The row is updated by accession number alone.                            *)
Write(w) ==
  LET f == job[w].filing
      p == job[w].plan
  IN
  /\ pc[w] = "write"
  /\ LedgersAccept(f, p, job[w].verdict)
  /\ decision' = [decision EXCEPT ![f] = p.decision]
  /\ disposition' = [disposition EXCEPT ![f] = p.disposition]
  /\ brief' = [brief EXCEPT ![f] = p.brief]
  /\ status' = [status EXCEPT ![f] = p.status]
  /\ due' = [due EXCEPT ![f] = TRUE]
  /\ expired' = [expired EXCEPT ![f] = FALSE]
  /\ IF p.counts THEN Goto(w, "count") /\ UNCHANGED job ELSE NextCandidate(w)
  /\ UNCHANGED <<attempts, aged, escalated, reserved, verifier, claims, faultVars>>

WriteRefused(w) ==
  /\ pc[w] = "write"
  /\ ~LedgersAccept(job[w].filing, job[w].plan, job[w].verdict)
  /\ Raise(w, "ordinary")
  /\ UNCHANGED <<queueVars, ledgerVars, verifier, claims, faultVars>>

(* increment_counter after the terminal commit, still inside the try block. *)
Count(w) ==
  /\ pc[w] = "count"
  /\ NextCandidate(w)
  /\ UNCHANGED <<queueVars, ledgerVars, verifier, claims, faultVars>>

CountFails(w) ==
  /\ pc[w] = "count"
  /\ storeFaults < MaxStoreFaults
  /\ storeFaults' = storeFaults + 1
  /\ Raise(w, "ordinary")
  /\ UNCHANGED <<queueVars, ledgerVars, verifier, claims, crashes>>

-----------------------------------------------------------------------------
(* The per-candidate exception handler *)

LimitForever(kind) == AttemptLimit + 1

Limit(kind) == IF kind = "verifier" THEN AttemptLimit ELSE ModelLimit

Exhausted(w) == job[w].attempt >= Limit(job[w].error)

HandleRetry(w) ==
  LET f == job[w].filing IN
  /\ pc[w] = "handle"
  /\ ~Exhausted(w)
  /\ status' = [status EXCEPT ![f] = "retry_wait"]
  /\ due' = [due EXCEPT ![f] = FALSE]
  /\ expired' = [expired EXCEPT ![f] = FALSE]
  /\ NextCandidate(w)
  /\ UNCHANGED <<attempts, aged, escalated, ledgerVars, verifier, claims, faultVars>>

HandleExhausted(w) ==
  LET f == job[w].filing IN
  /\ pc[w] = "handle"
  /\ Exhausted(w)
  /\ Undecided(f)
  /\ decision' = [decision EXCEPT ![f] = "ANALYSIS_INCOMPLETE"]
  /\ status' = [status EXCEPT ![f] = "failed"]
  /\ due' = [due EXCEPT ![f] = TRUE]
  /\ expired' = [expired EXCEPT ![f] = FALSE]
  /\ NextCandidate(w)
  /\ UNCHANGED <<attempts, aged, escalated, reserved, disposition, brief,
                 verifier, claims, faultVars>>

(* The decision exists already: the handler's own insert raises, and the    *)
(* exception ends the cycle.                                                *)
HandleRefused(w) ==
  /\ pc[w] = "handle"
  /\ Exhausted(w)
  /\ ~Undecided(job[w].filing)
  /\ EndCycle(w)
  /\ UNCHANGED <<queueVars, ledgerVars, verifier, claims, faultVars>>

-----------------------------------------------------------------------------
(* Faults and time *)

(* The process dies, forgetting the job; the rows stay as they are.         *)
Crash(w) ==
  /\ pc[w] # "down"
  /\ crashes < MaxCrashes
  /\ crashes' = crashes + 1
  /\ Goto(w, "down")
  /\ job' = [job EXCEPT ![w] = NoJob]
  /\ UNCHANGED <<queueVars, ledgerVars, verifier, claims, storeFaults>>

(* The database is away when the handler runs: the cycle is abandoned with  *)
(* the candidate still processing.                                          *)
HandlerAborts(w) ==
  /\ pc[w] = "handle"
  /\ crashes < MaxCrashes
  /\ crashes' = crashes + 1
  /\ EndCycle(w)
  /\ UNCHANGED <<queueVars, ledgerVars, verifier, claims, storeFaults>>

LeaseExpires(f) ==
  /\ status[f] = "processing" /\ ~expired[f]
  /\ expired' = [expired EXCEPT ![f] = TRUE]
  /\ UNCHANGED <<status, attempts, due, aged, escalated, ledgerVars, pc, job,
                 verifier, claims, faultVars>>

RetryFallsDue(f) ==
  /\ ~due[f]
  /\ due' = [due EXCEPT ![f] = TRUE]
  /\ UNCHANGED <<status, attempts, expired, aged, escalated, ledgerVars, pc, job,
                 verifier, claims, faultVars>>

Ages(f) ==
  /\ status[f] # "absent" /\ ~aged[f]
  /\ \A g \in Filing : Seniority[g] < Seniority[f] => aged[g]
  /\ aged' = [aged EXCEPT ![f] = TRUE]
  /\ UNCHANGED <<status, attempts, due, expired, escalated, ledgerVars, pc, job,
                 verifier, claims, faultVars>>

Time == \E f \in Filing : LeaseExpires(f) \/ RetryFallsDue(f) \/ Ages(f)

Step(w) ==
  \/ Start(w) \/ Discover(w) \/ Requeue(w)
  \/ \E f \in Filing : Claim(w, f) \/ ClaimFails(w, f)
  \/ NothingToClaim(w)
  \/ StepFails(w) \/ Screen(w) \/ Analyze(w) \/ FirstReview(w)
  \/ ReserveRetry(w) \/ Reanalyze(w) \/ SecondReview(w)
  \/ Write(w) \/ WriteRefused(w) \/ Count(w) \/ CountFails(w)
  \/ HandleRetry(w) \/ HandleExhausted(w) \/ HandleRefused(w)

Fault == \E w \in Worker : Crash(w) \/ HandlerAborts(w)

Next == (\E w \in Worker : Step(w)) \/ Time \/ Fault

Spec == Init /\ [][Next]_vars

(* Compose restarts a dead worker and the loop keeps polling; the clock     *)
(* keeps running.  Crashes are never required to happen.                    *)
Fairness ==
  /\ \A w \in Worker : WF_vars(Step(w))
  /\ \A f \in Filing : WF_vars(LeaseExpires(f)) /\ WF_vars(RetryFallsDue(f))

FairSpec == Spec /\ Fairness

-----------------------------------------------------------------------------
(* Properties *)

(* The append-only ledgers never contradict each other, whatever two workers *)
(* on the same filing do: a brief exists exactly for a QUALIFIED decision, a *)
(* version 2 brief exactly for an APPROVED disposition, a disposition only   *)
(* with a decision, and a disposition that spent the semantic retry only     *)
(* with its reservation (store.py, record_verification_outcome).             *)
LedgersAgree ==
  \A f \in Filing :
    /\ decision[f] = "QUALIFIED" <=> brief[f] # "none"
    /\ disposition[f] = "APPROVED" <=> brief[f] = "v2"
    /\ disposition[f] # "none" => decision[f] # "none"
    /\ disposition[f] \in {"VERIFICATION_DISAGREEMENT", "ANALYST_RETRY_REJECTED"}
         => reserved[f]

(* A filing is decided at most once, and published in the step that          *)
(* qualifies it (UNIQUE keys of migrations 0004, 0005 and 0013).             *)
Lifecycle == INSTANCE FilingLifecycle
  WITH Filing <- Filing, decision <- decision, brief <- brief
DecidedOnce == Lifecycle!Spec

(* Until it commits an outcome, the worker on a filing owns it: the row is   *)
(* processing under the attempt number the worker was given, so neither its  *)
(* retry nor its terminal update can hit somebody else's row.  Once the      *)
(* semantic retry is reserved no crash or error makes it run the first       *)
(* analysis again.                                                           *)
Busy(w) == job[w].filing # NoFiling /\ pc[w] # "count"
HolderOwnsRow ==
  \A w \in Worker : Busy(w) =>
    /\ status[job[w].filing] = "processing"
    /\ decision[job[w].filing] = "none"
    /\ attempts[job[w].filing] = job[w].attempt
    /\ pc[w] \in {"analyze", "verify", "reserve"} => ~reserved[job[w].filing]

(* KALKI_COMPLETE_GUIDE: exhaustion produces ANALYSIS_INCOMPLETE.  A filing  *)
(* that has used up its attempts and that nobody works on is decided.        *)
Stranded(f) ==
  /\ attempts[f] = AttemptLimit
  /\ decision[f] = "none"
  /\ \A w \in Worker : job[w].filing # f
ExhaustionIsDecided == \A f \in Filing : ~Stranded(f)

(* Every filing the index lists gets its screening decision, whatever fails  *)
(* and crashes, unless a crash has stranded a filing: that one is never      *)
(* decided and blocks the others for good (worker.py, run_once).             *)
EveryFilingDecided ==
  \A f \in Filing :
    status[f] = "pending"
      ~> decision[f] # "none" \/ (crashes > 0 /\ \E g \in Filing : Stranded(g))

(* PHASE17: a model concern cannot overrule a provable deterministic result. *)
(* The ledgers accept what arbitration approved as long as the filing is     *)
(* undecided.                                                                *)
ArbitrationApprovalStands ==
  \A w \in Worker :
    pc[w] = "write" /\ job[w].plan.disposition = "APPROVED" /\ Undecided(job[w].filing)
      => LedgersAccept(job[w].filing, job[w].plan, job[w].verdict)
=============================================================================
