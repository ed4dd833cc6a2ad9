----------------------------- MODULE SidecarQueue -----------------------------
(***************************************************************************)
(* The queue of one filing-intelligence sidecar: ownership, financing or    *)
(* accounting jobs (providers/sec/*_store.py, radar/*_worker.py, migrations *)
(* 0015, 0017 and 0022).  The three share one lifecycle; ownership has no   *)
(* outcome without intelligence, which AbsentOutcomes tells apart.          *)
(*                                                                         *)
(* Unlike the candidate queue, a claim does not count as an attempt: the    *)
(* attempt is recorded with its outcome, and an outcome is accepted only    *)
(* while the row is processing with the attempts the claim read.            *)
(***************************************************************************)
EXTENDS Integers, FiniteSets

CONSTANTS
  Job,             (* accession numbers the daily index may list           *)
  NoJob,           (* what an idle worker holds                            *)
  Worker,          (* sidecar processes over the same table                *)
  Rank,            (* the order of the claim: form, for two stores the     *)
                   (* number of issuers, filing date, accession; that of   *)
                   (* discovery is taken to be the same                    *)
  AbsentOutcomes,  (* {TRUE} where a document may hold no intelligence,    *)
                   (* {} for ownership                                     *)
  MaxBacklog,      (* maximum_backlog                                      *)
  BatchSize,       (* batch_size                                           *)
  AttemptLimit,    (* attempts after which a failure is final              *)
  MaxCrashes,      (* bound: crashes considered                            *)
  MaxAmendments    (* bound: conflicting index entries considered          *)

ASSUME SidecarAssumption ==
  /\ IsFiniteSet(Job)
  /\ NoJob \notin Job
  /\ Rank \in [Job -> Nat]
  /\ \A j, k \in Job : Rank[j] = Rank[k] => j = k
  /\ AbsentOutcomes \subseteq {TRUE}
  /\ MaxBacklog \in Nat \ {0}
  /\ BatchSize \in Nat \ {0}
  /\ AttemptLimit \in Nat \ {0}
  /\ MaxCrashes \in Nat
  /\ MaxAmendments \in Nat

VARIABLES
  status, attempts, due, stale,  (* the job rows; "stale" is a claimed_at  *)
                                 (* older than the lease                   *)
  pair,                          (* jobs with a receipt and routing row    *)
  pc, held, attempt,             (* the workers: stage and claim           *)
  room,                          (* capacity counted by discover           *)
  claims,                        (* claims made in the current batch       *)
  crashes, amendments

rowVars    == <<status, attempts, due, stale, pair>>
workerVars == <<pc, held, attempt, room, claims>>
faultVars  == <<crashes, amendments>>
vars == <<rowVars, workerVars, faultVars>>

-----------------------------------------------------------------------------
(* Values *)

OpenStatus     == {"pending", "processing", "retry_wait"}
TerminalStatus == {"completed", "absent_intelligence", "failed"}
Statuses       == OpenStatus \cup TerminalStatus \cup {"unlisted"}
Stages         == {"down", "poll", "count", "insert", "claim", "resolve", "complete",
                   "absent", "fail"}

(* Job rows and claims keep their types and limits (migrations 0015, 0017    *)
(* and 0022).                                                                *)
TypeOK ==
  /\ status \in [Job -> Statuses]
  /\ attempts \in [Job -> 0..AttemptLimit]
  /\ due \in [Job -> BOOLEAN]
  /\ stale \in [Job -> BOOLEAN]
  /\ pair \in [Job -> BOOLEAN]
  /\ pc \in [Worker -> Stages]
  /\ held \in [Worker -> Job \cup {NoJob}]
  /\ attempt \in [Worker -> 0..AttemptLimit]
  /\ room \in [Worker -> Int]
  /\ claims \in [Worker -> 0..BatchSize]
  /\ crashes \in 0..MaxCrashes
  /\ amendments \in 0..MaxAmendments

Init ==
  /\ status = [j \in Job |-> "unlisted"]
  /\ attempts = [j \in Job |-> 0]
  /\ due = [j \in Job |-> FALSE]
  /\ stale = [j \in Job |-> FALSE]
  /\ pair = [j \in Job |-> FALSE]
  /\ pc = [w \in Worker |-> "down"]
  /\ held = [w \in Worker |-> NoJob]
  /\ attempt = [w \in Worker |-> 0]
  /\ room = [w \in Worker |-> 0]
  /\ claims = [w \in Worker |-> 0]
  /\ crashes = 0
  /\ amendments = 0

Goto(w, stage) == pc' = [pc EXCEPT ![w] = stage]

Release(w, stage) ==
  /\ Goto(w, stage)
  /\ held' = [held EXCEPT ![w] = NoJob]
  /\ attempt' = [attempt EXCEPT ![w] = 0]

-----------------------------------------------------------------------------
(* A poll: recovery, the index, discovery *)

Start(w) ==
  /\ pc[w] = "down"
  /\ Goto(w, "poll")
  /\ UNCHANGED <<rowVars, held, attempt, room, claims, faultVars>>

RecoversNothing(j) == FALSE

Recoverable(j) == status[j] = "processing" /\ stale[j] /\ attempts[j] < AttemptLimit

RecoverStale ==
  /\ status' = [j \in Job |-> IF Recoverable(j) THEN "retry_wait" ELSE status[j]]
  /\ due' = [j \in Job |-> due[j] \/ Recoverable(j)]
  /\ stale' = [j \in Job |-> stale[j] /\ ~Recoverable(j)]

(* The index cannot be fetched or parsed: sleep and poll again.              *)
PollFails(w) ==
  /\ pc[w] = "poll"
  /\ RecoverStale
  /\ UNCHANGED <<attempts, pair, workerVars, faultVars>>

Poll(w) ==
  /\ pc[w] = "poll"
  /\ RecoverStale
  /\ Goto(w, "count")
  /\ UNCHANGED <<attempts, pair, held, attempt, room, claims, faultVars>>

Backlog == {j \in Job : status[j] \in OpenStatus}

CountBacklog(w) ==
  /\ pc[w] = "count"
  /\ room' = [room EXCEPT ![w] = MaxBacklog - Cardinality(Backlog)]
  /\ Goto(w, "insert")
  /\ UNCHANGED <<rowVars, held, attempt, claims, faultVars>>

(* The entries the loop reaches before the capacity is used up.              *)
New(listed)       == {j \in listed : status[j] = "unlisted"}
Earlier(j, jobs)  == {k \in jobs : Rank[k] < Rank[j]}
Examined(w, listed) ==
  {j \in listed : Cardinality(Earlier(j, New(listed))) < room[w]}

Insert(w) ==
  /\ pc[w] = "insert"
  /\ \E listed \in SUBSET Job :
       LET taken == Examined(w, listed) \cap New(listed) IN
       /\ status' = [j \in Job |-> IF j \in taken THEN "pending" ELSE status[j]]
       /\ due' = [j \in Job |-> due[j] \/ j \in taken]
  /\ claims' = [claims EXCEPT ![w] = 0]
  /\ Goto(w, "claim")
  /\ UNCHANGED <<attempts, stale, pair, held, attempt, room, faultVars>>

(* An index entry whose identity differs from the stored row: nothing of the *)
(* transaction stays and nobody catches the conflict, so the process ends.   *)
InsertConflicts(w) ==
  /\ pc[w] = "insert"
  /\ amendments < MaxAmendments
  /\ \E listed \in SUBSET Job : Examined(w, listed) \ New(listed) # {}
  /\ amendments' = amendments + 1
  /\ Goto(w, "down")
  /\ UNCHANGED <<rowVars, held, attempt, room, claims, crashes>>

-----------------------------------------------------------------------------
(* Claiming *)

Claimable(j) ==
  /\ attempts[j] < AttemptLimit
  /\ status[j] \in {"pending", "retry_wait"}
  /\ due[j]

BatchOpen(w) == claims[w] < BatchSize

(* The attempt is spent by the outcome, not by the claim.                    *)
ClaimLeavesAttempts(j) == UNCHANGED attempts

Claim(w, j) ==
  /\ pc[w] = "claim"
  /\ BatchOpen(w)
  /\ Claimable(j)
  /\ \A k \in Job : Claimable(k) => Rank[j] <= Rank[k]
  /\ status' = [status EXCEPT ![j] = "processing"]
  /\ due' = [due EXCEPT ![j] = FALSE]
  /\ stale' = [stale EXCEPT ![j] = FALSE]
  /\ held' = [held EXCEPT ![w] = j]
  /\ attempt' = [attempt EXCEPT ![w] = attempts[j] + 1]
  /\ claims' = [claims EXCEPT ![w] = @ + 1]
  /\ ClaimLeavesAttempts(j)
  /\ Goto(w, "resolve")
  /\ UNCHANGED <<pair, room, faultVars>>

EndBatch(w) ==
  /\ pc[w] = "claim"
  /\ ~BatchOpen(w) \/ \A j \in Job : ~Claimable(j)
  /\ Goto(w, "poll")
  /\ UNCHANGED <<rowVars, held, attempt, room, claims, faultVars>>

-----------------------------------------------------------------------------
(* One job *)

(* The receipt is resolved from the SEC, or it is not, or (financing and     *)
(* accounting) the document holds nothing to extract.                        *)
Resolve(w) ==
  /\ pc[w] = "resolve"
  /\ \/ Goto(w, "complete")
     \/ Goto(w, "fail")
     \/ AbsentOutcomes # {} /\ Goto(w, "absent")
  /\ UNCHANGED <<rowVars, held, attempt, room, claims, faultVars>>

(* WHERE accession_number = %s AND status = 'processing' AND attempts = %s   *)
CurrentByStatus(w) == status[held[w]] = "processing"

Current(w) ==
  /\ status[held[w]] = "processing"
  /\ attempts[held[w]] = attempt[w] - 1

Close(w, outcome) ==
  /\ status' = [status EXCEPT ![held[w]] = outcome]
  /\ attempts' = [attempts EXCEPT ![held[w]] = attempt[w]]
  /\ stale' = [stale EXCEPT ![held[w]] = FALSE]

(* One transaction: the immutable pair and the end of the job.               *)
Complete(w) ==
  /\ pc[w] = "complete"
  /\ Current(w)
  /\ Close(w, "completed")
  /\ pair' = [pair EXCEPT ![held[w]] = TRUE]
  /\ Release(w, "claim")
  /\ UNCHANGED <<due, room, claims, faultVars>>

(* The claim is no longer current, or routing, convergence or persistence    *)
(* raised: the transaction rolls back and the worker records a failure.      *)
KeepsPair(w) == pair' = [pair EXCEPT ![held[w]] = TRUE]

RollBack(w) == UNCHANGED pair

CompleteFails(w) ==
  /\ pc[w] = "complete"
  /\ RollBack(w)
  /\ Goto(w, "fail")
  /\ UNCHANGED <<status, attempts, due, stale, held, attempt, room, claims, faultVars>>

CompleteAbsent(w) ==
  /\ pc[w] = "absent"
  /\ Current(w)
  /\ Close(w, "absent_intelligence")
  /\ Release(w, "claim")
  /\ UNCHANGED <<due, pair, room, claims, faultVars>>

ExhaustedLate(w) == attempt[w] > AttemptLimit

Exhausted(w) == attempt[w] >= AttemptLimit

Fail(w) ==
  /\ pc[w] = "fail"
  /\ Current(w)
  /\ Close(w, IF Exhausted(w) THEN "failed" ELSE "retry_wait")
  /\ due' = [due EXCEPT ![held[w]] = FALSE]
  /\ Release(w, "claim")
  /\ UNCHANGED <<pair, room, claims, faultVars>>

(* Nothing catches a stale claim outside complete: the process ends.         *)
Dies(w) ==
  /\ pc[w] \in {"absent", "fail"}
  /\ ~Current(w)
  /\ Release(w, "down")
  /\ UNCHANGED <<rowVars, room, claims, faultVars>>

-----------------------------------------------------------------------------
(* Time, crashes and the specification *)

LeaseExpires(j) ==
  /\ status[j] = "processing" /\ ~stale[j]
  /\ stale' = [stale EXCEPT ![j] = TRUE]
  /\ UNCHANGED <<status, attempts, due, pair, workerVars, faultVars>>

RetryFallsDue(j) ==
  /\ status[j] = "retry_wait" /\ ~due[j]
  /\ due' = [due EXCEPT ![j] = TRUE]
  /\ UNCHANGED <<status, attempts, stale, pair, workerVars, faultVars>>

Crash(w) ==
  /\ pc[w] # "down"
  /\ crashes < MaxCrashes
  /\ crashes' = crashes + 1
  /\ Release(w, "down")
  /\ UNCHANGED <<rowVars, room, claims, amendments>>

WorkerStep(w) ==
  \/ Start(w) \/ PollFails(w) \/ Poll(w) \/ CountBacklog(w)
  \/ Insert(w) \/ InsertConflicts(w)
  \/ \E j \in Job : Claim(w, j)
  \/ EndBatch(w) \/ Resolve(w)
  \/ Complete(w) \/ CompleteFails(w) \/ CompleteAbsent(w) \/ Fail(w) \/ Dies(w)

Next ==
  \/ \E w \in Worker : WorkerStep(w) \/ Crash(w)
  \/ \E j \in Job : LeaseExpires(j) \/ RetryFallsDue(j)

Spec == Init /\ [][Next]_vars

(* Compose restarts a process that ended, the clock goes on, and the index   *)
(* is not unavailable for ever.  A lease of 30 minutes is far longer than a  *)
(* deterministic job: a live worker outlives its lease finitely often only.  *)
LeasesHold ==
  <>[][\A j \in Job : (\E w \in Worker : held[w] = j) => ~LeaseExpires(j)]_vars

Fairness ==
  /\ \A w \in Worker : WF_vars(WorkerStep(w)) /\ SF_vars(Poll(w))
  /\ \A j \in Job : WF_vars(LeaseExpires(j)) /\ WF_vars(RetryFallsDue(j))

FairSpec == Spec /\ Fairness /\ LeasesHold

-----------------------------------------------------------------------------
(* Properties *)

(* A claim by a second process, a recovered lease or a crash is a stutter of *)
(* the job: only an outcome spends an attempt, "failed" is the outcome of    *)
(* the last attempt alone, and the receipt pair is written with the outcome  *)
(* it belongs to (complete, complete_no_terms and fail).                     *)
Retries == INSTANCE BoundedRetries WITH
  Result     <- TerminalStatus,
  Exhausting <- {"failed"},
  Recorded   <- {"completed"},
  spent      <- attempts,
  result     <- [j \in Job |-> IF status[j] \in TerminalStatus THEN status[j] ELSE "none"],
  record     <- [j \in Job |-> IF pair[j] THEN "completed" ELSE "none"]

JobsEndOnce == Retries!Spec

(* Whatever two processes with claims on the same job do, each step of a row *)
(* is one the lifecycle trigger admits: a terminal row never changes, a      *)
(* claim spends no attempt, an end spends exactly one (migration 0017,       *)
(* protect_financing_job_lifecycle).                                         *)
LegalRowStep(j) ==
  /\ status[j] \in TerminalStatus =>
       UNCHANGED <<status[j], attempts[j]>>
  /\ status[j] \in {"pending", "retry_wait"} /\ status'[j] # status[j] =>
       status'[j] = "processing" /\ attempts'[j] = attempts[j]
  /\ status[j] = "processing" =>
       \/ status'[j] = "processing" /\ attempts'[j] = attempts[j]
       \/ status'[j] = "retry_wait" /\ attempts'[j] \in {attempts[j], attempts[j] + 1}
       \/ status'[j] \in TerminalStatus /\ attempts'[j] = attempts[j] + 1

TriggerAdmits == [][\A j \in Job : LegalRowStep(j)]_vars

(* The immutable receipt pair exists exactly for completed jobs, and a job   *)
(* is given up only after all its attempts (complete, fail, _append_pair).   *)
ReceiptsMatchOutcomes ==
  \A j \in Job :
    /\ pair[j] <=> status[j] = "completed"
    /\ status[j] = "failed" => attempts[j] = AttemptLimit
    /\ status[j] \in OpenStatus => attempts[j] < AttemptLimit

(* Every listed job is completed, found to hold nothing or given up.         *)
JobsAreDecided ==
  \A j \in Job : status[j] = "pending" ~> status[j] \in TerminalStatus
=============================================================================
