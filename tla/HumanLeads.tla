------------------------------ MODULE HumanLeads ------------------------------
(***************************************************************************)
(* The private research path: an allowlisted Discord message becomes a row  *)
(* of research_human_leads (research/discord_listener.py), a radar worker   *)
(* claims it, asks the analyst at most twice per role and records one       *)
(* immutable result (radar/worker.py, _process_one_human_lead), and the     *)
(* listener posts that result to the private channel.                       *)
(*                                                                         *)
(* Every model call has a row of research_analyst_attempts, written before  *)
(* the call and completed after it; recovery completes the rows whose       *)
(* worker went away.  A message stands for its lead and its result, which   *)
(* both carry its identity.                                                 *)
(***************************************************************************)
EXTENDS Naturals, Sequences, SequencesExt

CONSTANTS
  Message,        (* allowlisted messages users may post                   *)
  Hypothesis,     (* the dedupe_key of each message                        *)
  HistoryLimit,   (* messages replayed when the listener connects          *)
  Worker,         (* radar workers over the same database                  *)
  Role,           (* number of analyst roles (ANALYST_ROLES)               *)
  Tries,          (* attempts per role (MAXIMUM_ATTEMPTS)                  *)
  NoLead,         (* what an idle worker or delivery loop holds            *)
  NoResult,       (* the result of a lead before it has one                *)
  MaxCrashes,     (* bound: crashes of workers                             *)
  MaxRestarts,    (* bound: crashes of the listener                        *)
  MaxFaults,      (* bound: failed database calls and lost gateway events  *)
  MaxMishaps      (* bound: all of these together                          *)

ASSUME LeadAssumption ==
  /\ DOMAIN Hypothesis = Message
  /\ HistoryLimit \in Nat
  /\ Role \in Nat \ {0}
  /\ Tries \in Nat \ {0}
  /\ NoLead \notin Message
  /\ MaxCrashes \in Nat
  /\ MaxRestarts \in Nat
  /\ MaxFaults \in Nat
  /\ MaxMishaps \in Nat

VARIABLES
  channel,        (* messages of the intake channel, in posting order      *)
  status,         (* research_human_leads.status, "absent" without a row   *)
  receipts,       (* research_analyst_attempts of the lead, oldest first   *)
  stale,          (* the open attempt of the lead is older than the lease  *)
  result,         (* the receipts listed in research_human_results         *)
  outbox,         (* pending deliveries by updated_at                      *)
  delivered,      (* deliveries marked delivered                           *)
  posts,          (* result messages Discord has accepted                  *)
  pc, job,        (* the workers: stage and [lead, role, try, invoked, read] *)
  lpc, replay, inbox, sending, (* the listener: delivery stage, history    *)
                  (* still to replay, gateway events, claimed delivery     *)
  crashes, restarts, faults

leadVars     == <<status, receipts, stale, result>>
deliveryVars == <<outbox, delivered, posts>>
workerVars   == <<pc, job>>
listenerVars == <<lpc, replay, inbox, sending>>
faultVars    == <<crashes, restarts, faults>>
vars == <<channel, leadVars, deliveryVars, workerVars, listenerVars, faultVars>>

-----------------------------------------------------------------------------
(* Values *)

Statuses == {"absent", "queued", "analyzing", "completed", "failed"}
Outcomes == {"started", "accepted", "rejected", "error", "interrupted"}
Receipt  == [role : 1..Role, try : 1..Tries, outcome : Outcomes]

(* A lead without a result is not a lead whose result lists no attempt.      *)
ASSUME NoResultAssumption == NoResult \notin Seq(Receipt)

WorkerStages == {"down", "cycle", "lead", "resolve", "invoke", "answer", "read",
                 "record", "complete"}

Ledger(m)    == receipts[m]
IsOpen(m)    == Ledger(m) # <<>> /\ Last(Ledger(m)).outcome = "started"

(* The receipts of s that are no longer started, in their order.             *)
Completed(s) ==
  LET upTo[i \in 0..Len(s)] ==
        IF i = 0 THEN <<>>
        ELSE IF s[i].outcome # "started" THEN Append(upTo[i - 1], s[i]) ELSE upTo[i - 1]
  IN upTo[Len(s)]

(* The only update of an attempt row: its state leaves "started" once.       *)
Close(m, outcome) == [Ledger(m) EXCEPT ![Len(Ledger(m))].outcome = outcome]

NoJob == [lead |-> NoLead, role |-> 1, try |-> 1, invoked |-> FALSE, read |-> <<>>]

(* Leads, attempt receipts, results and the two processes keep their types   *)
(* (migrations 0007, 0009 and 0010).                                         *)
TypeOK ==
  /\ \A i \in DOMAIN channel : channel[i] \in Message
  /\ status \in [Message -> Statuses]
  /\ \A m \in Message : \A i \in DOMAIN Ledger(m) : Ledger(m)[i] \in Receipt
  /\ stale \in [Message -> BOOLEAN]
  /\ delivered \subseteq Message /\ ToSet(outbox) \subseteq Message
  /\ pc \in [Worker -> WorkerStages]
  /\ \A w \in Worker : job[w].role \in 1..Role /\ job[w].try \in 1..Tries
  /\ lpc \in {"down", "ready", "send", "confirm"}
  /\ inbox \subseteq Message /\ ToSet(replay) \subseteq Message
  /\ crashes \in 0..MaxCrashes /\ restarts \in 0..MaxRestarts
  /\ faults \in 0..MaxFaults

Init ==
  /\ channel = <<>>
  /\ status = [m \in Message |-> "absent"]
  /\ receipts = [m \in Message |-> <<>>]
  /\ stale = [m \in Message |-> FALSE]
  /\ result = [m \in Message |-> NoResult]
  /\ outbox = <<>> /\ delivered = {}
  /\ posts = [m \in Message |-> 0]
  /\ pc = [w \in Worker |-> "down"]
  /\ job = [w \in Worker |-> NoJob]
  /\ lpc = "down" /\ replay = <<>> /\ inbox = {} /\ sending = NoLead
  /\ crashes = 0 /\ restarts = 0 /\ faults = 0

MayFail  == crashes + restarts + faults < MaxMishaps
Crashes  == MayFail /\ crashes < MaxCrashes /\ crashes' = crashes + 1 /\ UNCHANGED <<restarts, faults>>
Restarts == MayFail /\ restarts < MaxRestarts /\ restarts' = restarts + 1 /\ UNCHANGED <<crashes, faults>>
Faults   == MayFail /\ faults < MaxFaults /\ faults' = faults + 1 /\ UNCHANGED <<crashes, restarts>>

-----------------------------------------------------------------------------
(* The listener: intake *)

(* A user posts; a connected listener gets the event, unless the gateway     *)
(* loses it.                                                                 *)
Post(m) ==
  /\ m \notin ToSet(channel)
  /\ channel' = Append(channel, m)
  /\ \/ /\ inbox' = IF lpc = "down" THEN inbox ELSE inbox \cup {m}
        /\ UNCHANGED faultVars
     \/ /\ lpc # "down" /\ Faults
        /\ UNCHANGED inbox
  /\ UNCHANGED <<leadVars, deliveryVars, workerVars, lpc, replay, sending>>

ReplaysNothing == <<>>

(* on_ready of a new process reads the newest messages, newest first.        *)
(* Bound: the channel has no message of another author, which would take the *)
(* place of one of HistoryLimit.                                             *)
Replayed ==
  LET first == IF Len(channel) > HistoryLimit THEN Len(channel) - HistoryLimit + 1 ELSE 1
  IN  Reverse(SubSeq(channel, first, Len(channel)))

Connect ==
  /\ lpc = "down"
  /\ lpc' = "ready"
  /\ replay' = Replayed
  /\ UNCHANGED <<channel, leadVars, deliveryVars, workerVars, inbox, sending, faultVars>>

(* An equivalent lead in any state the code writes, or the same message.     *)
SameMessageOnly(m) == status[m] # "absent"

Duplicate(m) ==
  \E n \in Message : status[n] # "absent" /\ (n = m \/ Hypothesis[n] = Hypothesis[m])

EnqueueLead(m) ==
  status' = IF Duplicate(m) THEN status ELSE [status EXCEPT ![m] = "queued"]

OnMessage(m) ==
  /\ m \in inbox
  /\ inbox' = inbox \ {m}
  /\ EnqueueLead(m)
  /\ UNCHANGED <<channel, receipts, stale, result, deliveryVars, workerVars, lpc,
                 replay, sending, faultVars>>

(* enqueue_human_lead raises; the library logs it and the event is gone.     *)
OnMessageFails(m) ==
  /\ m \in inbox
  /\ Faults
  /\ inbox' = inbox \ {m}
  /\ UNCHANGED <<channel, leadVars, deliveryVars, workerVars, lpc, replay, sending>>

ReplayMessage ==
  /\ replay # <<>>
  /\ replay' = Tail(replay)
  /\ EnqueueLead(Head(replay))
  /\ UNCHANGED <<channel, receipts, stale, result, deliveryVars, workerVars, lpc,
                 inbox, sending, faultVars>>

(* The insert, or the reply after it, raises out of the replay loop, which   *)
(* this process never runs again.                                            *)
ReplayFails ==
  /\ replay # <<>>
  /\ Faults
  /\ replay' = <<>>
  /\ EnqueueLead(Head(replay)) \/ UNCHANGED status
  /\ UNCHANGED <<channel, receipts, stale, result, deliveryVars, workerVars, lpc,
                 inbox, sending>>

-----------------------------------------------------------------------------
(* A worker: one lead per cycle *)

Goto(w, stage) == pc' = [pc EXCEPT ![w] = stage]

(* Recovery, at the start of a process and of every cycle: an attempt left   *)
(* open for the lease becomes a response-free error, and its lead fails if   *)
(* it is still being analyzed (a human lead never allows a runtime retry).   *)
ForgetsParent(m) == status[m]

RecoveredStatus(m) == IF status[m] = "analyzing" THEN "failed" ELSE status[m]

Interrupted(m) == IsOpen(m) /\ stale[m]

Recover ==
  LET old == {m \in Message : Interrupted(m)} IN
  /\ receipts' = [m \in Message |-> IF m \in old THEN Close(m, "interrupted") ELSE Ledger(m)]
  /\ status' = [m \in Message |-> IF m \in old THEN RecoveredStatus(m) ELSE status[m]]
  /\ stale' = [m \in Message |-> stale[m] /\ m \notin old]

Start(w) ==
  /\ pc[w] = "down"
  /\ Recover
  /\ Goto(w, "cycle")
  /\ UNCHANGED <<channel, result, deliveryVars, job, listenerVars, faultVars>>

BeginCycle(w) ==
  /\ pc[w] = "cycle"
  /\ Recover
  /\ Goto(w, "lead")
  /\ UNCHANGED <<channel, result, deliveryVars, job, listenerVars, faultVars>>

(* Every submission has normal priority: the order is submitted_at.          *)
SubmittedBefore(m, n) ==
  \E i, j \in DOMAIN channel : i < j /\ channel[i] = m /\ channel[j] = n

Claimable(m) == status[m] = "queued"

Claim(w, m) ==
  /\ pc[w] = "lead"
  /\ Claimable(m)
  /\ \A n \in Message : Claimable(n) /\ n # m => SubmittedBefore(m, n)
  /\ status' = [status EXCEPT ![m] = "analyzing"]
  /\ job' = [job EXCEPT ![w] = [NoJob EXCEPT !.lead = m]]
  /\ Goto(w, "resolve")
  /\ UNCHANGED <<channel, receipts, stale, result, deliveryVars, listenerVars, faultVars>>

NoLeadToClaim(w) ==
  /\ pc[w] = "lead"
  /\ \A m \in Message : ~Claimable(m)
  /\ Goto(w, "cycle")
  /\ UNCHANGED <<channel, leadVars, deliveryVars, job, listenerVars, faultVars>>

(* Resolution and retrieval: either the model is asked, or the lead is       *)
(* answered without it (nothing resolved, retrieval failed, Tier 0 or 1).    *)
Resolve(w) ==
  /\ pc[w] = "resolve"
  /\ \/ /\ job' = [job EXCEPT ![w].invoked = TRUE]
        /\ Goto(w, "invoke")
     \/ Goto(w, "read") /\ UNCHANGED job
  /\ UNCHANGED <<channel, leadVars, deliveryVars, listenerVars, faultVars>>

(* The attempt row comes first, then the call to the model.                  *)
StartAttempt(w) ==
  LET m == job[w].lead IN
  /\ pc[w] = "invoke"
  /\ receipts' = [receipts EXCEPT ![m] =
       Append(@, [role |-> job[w].role, try |-> job[w].try, outcome |-> "started"])]
  /\ stale' = [stale EXCEPT ![m] = FALSE]
  /\ Goto(w, "answer")
  /\ UNCHANGED <<channel, status, result, deliveryVars, job, listenerVars, faultVars>>

(* start_analyst_attempt raises: the lead is reported as not retrieved.      *)
StartRefused(w) ==
  /\ pc[w] = "invoke"
  /\ Faults
  /\ Goto(w, "read")
  /\ UNCHANGED <<channel, leadVars, deliveryVars, job, listenerVars>>

(* After an accepted answer the next role, after a rejected one the repair   *)
(* try, and otherwise the result.                                            *)
NextRole(w) ==
  /\ job' = [job EXCEPT ![w].role = @ + 1, ![w].try = 1]
  /\ Goto(w, "invoke")

RepairTry(w) ==
  /\ job' = [job EXCEPT ![w].try = @ + 1]
  /\ Goto(w, "invoke")

Continue(w, outcome) ==
  \/ outcome = "accepted" /\ job[w].role < Role /\ NextRole(w)
  \/ outcome = "rejected" /\ job[w].try < Tries /\ RepairTry(w)
  \/ /\ outcome = "accepted" => job[w].role = Role
     /\ outcome = "rejected" => job[w].try = Tries
     /\ Goto(w, "read") /\ UNCHANGED job

(* UPDATE ... WHERE attempt_id = %s AND state = 'started'                    *)
ClosesAnyState(m) == Ledger(m) # <<>>

StillOpen(m) == IsOpen(m)

FinishAttempt(w) ==
  LET m == job[w].lead IN
  /\ pc[w] = "answer"
  /\ StillOpen(m)
  /\ \E outcome \in {"accepted", "rejected", "error"} :
       /\ receipts' = [receipts EXCEPT ![m] = Close(m, outcome)]
       /\ Continue(w, outcome)
  /\ stale' = [stale EXCEPT ![m] = FALSE]
  /\ UNCHANGED <<channel, status, result, deliveryVars, listenerVars, faultVars>>

(* Recovery closed the attempt under a slow worker, or the database is away: *)
(* the answer is discarded and the lead reported as not retrieved.           *)
FinishRefused(w) ==
  /\ pc[w] = "answer"
  /\ \/ ~StillOpen(job[w].lead) /\ UNCHANGED faultVars
     \/ StillOpen(job[w].lead) /\ Faults
  /\ Goto(w, "read")
  /\ UNCHANGED <<channel, leadVars, deliveryVars, job, listenerVars>>

(* human_analyst_attempt_receipts: the completed attempts of the lead.       *)
ReadsOpenAttempts(m) == Ledger(m)

Lineage(m) == Completed(Ledger(m))

ReadReceipts(w) ==
  LET m == job[w].lead IN
  /\ pc[w] = "read"
  /\ job' = [job EXCEPT ![w].read = IF job[w].invoked THEN Lineage(m) ELSE <<>>]
  /\ Goto(w, "record")
  /\ UNCHANGED <<channel, leadVars, deliveryVars, listenerVars, faultVars>>

(* One transaction: the result, at most one per lead, and its delivery head. *)
RecordResult(w) ==
  LET m == job[w].lead IN
  /\ pc[w] = "record"
  /\ IF result[m] = NoResult
     THEN /\ result' = [result EXCEPT ![m] = job[w].read]
          /\ outbox' = Append(outbox, m)
     ELSE UNCHANGED <<result, outbox>>
  /\ Goto(w, "complete")
  /\ UNCHANGED <<channel, status, receipts, stale, delivered, posts, job, listenerVars,
                 faultVars>>

(* transition_human_lead: by lead_id alone.                                  *)
Complete(w) ==
  /\ pc[w] = "complete"
  /\ status' = [status EXCEPT ![job[w].lead] = "completed"]
  /\ job' = [job EXCEPT ![w] = NoJob]
  /\ Goto(w, "cycle")
  /\ UNCHANGED <<channel, receipts, stale, result, deliveryVars, listenerVars, faultVars>>

(* A failed database call that no handler of the lead catches ends the cycle *)
Escapes(w) ==
  /\ pc[w] \in {"read", "record", "complete"}
  /\ Faults
  /\ job' = [job EXCEPT ![w] = NoJob]
  /\ Goto(w, "cycle")
  /\ UNCHANGED <<channel, leadVars, deliveryVars, listenerVars>>

-----------------------------------------------------------------------------
(* The listener: delivery *)

(* The claim only touches updated_at, so the head goes to the back.          *)
Popped == Tail(outbox)

Rotated == Append(Tail(outbox), Head(outbox))

ClaimDelivery ==
  /\ lpc = "ready"
  /\ outbox # <<>>
  /\ sending' = Head(outbox)
  /\ outbox' = Rotated
  /\ lpc' = "send"
  /\ UNCHANGED <<channel, leadVars, delivered, posts, workerVars, replay, inbox, faultVars>>

SendResult ==
  /\ lpc = "send"
  /\ posts' = [posts EXCEPT ![sending] = @ + 1]
  /\ lpc' = "confirm"
  /\ UNCHANGED <<channel, leadVars, outbox, delivered, workerVars, replay, inbox, sending, faultVars>>

ConfirmDelivery ==
  /\ lpc = "confirm"
  /\ delivered' = delivered \cup {sending}
  /\ \E i \in DOMAIN outbox : outbox[i] = sending /\ outbox' = RemoveAt(outbox, i)
  /\ sending' = NoLead
  /\ lpc' = "ready"
  /\ UNCHANGED <<channel, leadVars, posts, workerVars, replay, inbox, faultVars>>

(* The send or the confirmation raises; the loop logs it and goes on.        *)
DeliveryFails ==
  /\ lpc \in {"send", "confirm"}
  /\ Faults
  /\ sending' = NoLead
  /\ lpc' = "ready"
  /\ UNCHANGED <<channel, leadVars, deliveryVars, workerVars, replay, inbox>>

-----------------------------------------------------------------------------
(* Time, crashes and the specification *)

AttemptAges(m) ==
  /\ IsOpen(m) /\ ~stale[m]
  /\ stale' = [stale EXCEPT ![m] = TRUE]
  /\ UNCHANGED <<channel, status, receipts, result, deliveryVars, workerVars,
                 listenerVars, faultVars>>

WorkerCrash(w) ==
  /\ pc[w] # "down"
  /\ Crashes
  /\ Goto(w, "down")
  /\ job' = [job EXCEPT ![w] = NoJob]
  /\ UNCHANGED <<channel, leadVars, deliveryVars, listenerVars>>

ListenerCrash ==
  /\ lpc # "down"
  /\ Restarts
  /\ lpc' = "down" /\ replay' = <<>> /\ inbox' = {} /\ sending' = NoLead
  /\ UNCHANGED <<channel, leadVars, deliveryVars, workerVars>>

WorkerStep(w) ==
  \/ Start(w) \/ BeginCycle(w) \/ NoLeadToClaim(w)
  \/ \E m \in Message : Claim(w, m)
  \/ Resolve(w) \/ StartAttempt(w) \/ FinishAttempt(w) \/ FinishRefused(w)
  \/ ReadReceipts(w) \/ RecordResult(w) \/ Complete(w)

DeliveryStep == ClaimDelivery \/ SendResult \/ ConfirmDelivery

Next ==
  \/ \E m \in Message : Post(m) \/ OnMessage(m) \/ OnMessageFails(m) \/ AttemptAges(m)
  \/ Connect \/ ReplayMessage \/ ReplayFails
  \/ DeliveryStep \/ DeliveryFails \/ ListenerCrash
  \/ \E w \in Worker : WorkerStep(w) \/ StartRefused(w) \/ Escapes(w) \/ WorkerCrash(w)

Spec == Init /\ [][Next]_vars

(* Compose restarts both processes, discord.py runs every event handler, the *)
(* delivery loop runs every ten seconds and the clock goes on.               *)
Fairness ==
  /\ \A w \in Worker : WF_vars(WorkerStep(w))
  /\ \A m \in Message : WF_vars(AttemptAges(m)) /\ WF_vars(OnMessage(m))
  /\ WF_vars(Connect) /\ WF_vars(ReplayMessage) /\ WF_vars(DeliveryStep)

FairSpec == Spec /\ Fairness

-----------------------------------------------------------------------------
(* Properties *)

(* However often a hypothesis is posted or replayed, it is investigated and  *)
(* answered once (store.py, enqueue_human_lead).                             *)
InvestigatedOnce ==
  \A m, n \in Message :
    m # n /\ Hypothesis[m] = Hypothesis[n]
      => (Ledger(m) = <<>> \/ Ledger(n) = <<>>) /\ (posts[m] = 0 \/ posts[n] = 0)

(* A result lists attempts that were completed when it was written and that  *)
(* never change; what it does not list is one attempt whose completion was   *)
(* never stored, now open or closed by recovery (migration 0012).            *)
LineageStands ==
  \A m \in Message : result[m] # NoResult =>
    /\ IsPrefix(result[m], Ledger(m))
    /\ Len(Ledger(m)) <= Len(result[m]) + 1
    /\ Len(Ledger(m)) > Len(result[m]) =>
         Last(Ledger(m)).outcome \in {"started", "interrupted"}

(* What reaches the private channel is the recorded result of a lead, and    *)
(* every recorded result is either delivered or waiting for delivery.        *)
DeliveriesFollowResults ==
  \A m \in Message :
    /\ posts[m] > 0 => result[m] # NoResult
    /\ status[m] = "completed" => result[m] # NoResult
    /\ m \in delivered => posts[m] > 0
    /\ result[m] # NoResult <=> m \in delivered \/ m \in ToSet(outbox)

(* A completed attempt is never completed again, though recovery and a slow  *)
(* worker may both hold it (store.py, _finish_analyst_attempt).              *)
AttemptsCloseOnce ==
  [][\A m \in Message : \A i \in DOMAIN Ledger(m) :
       Ledger(m)[i].outcome # "started" => receipts'[m][i] = Ledger(m)[i]]_vars

(* Recovery resolves the lead of every attempt it closes: none is left to be *)
(* analyzed by a worker that is gone (store.py,                              *)
(* _recover_stale_analyst_attempts).                                         *)
InterruptedLeadsAreResolved ==
  \A m \in Message :
    Ledger(m) # <<>> /\ Last(Ledger(m)).outcome = "interrupted"
      => status[m] \in {"failed", "completed"}

(* Every message leads to an answered hypothesis, across restarts of the     *)
(* listener that leave it among the replayed messages, unless a worker       *)
(* crashed or a call was lost (discord_listener.py, _recover_messages).      *)
MessagesAreAnswered ==
  \A m \in Message :
    m \in ToSet(channel)
      ~> \/ \E n \in delivered : Hypothesis[n] = Hypothesis[m]
         \/ crashes > 0 \/ faults > 0

(* Nothing stays half done: an attempt somebody started is closed after its  *)
(* lease whoever died (PHASE33), and messages are answered.                  *)
LeadsComeToAnEnd ==
  MessagesAreAnswered /\ \A m \in Message : IsOpen(m) ~> ~IsOpen(m)

(* research/queue.py: restart-safe queue semantics.  A claimed lead reaches  *)
(* a terminal state.                                                         *)
LeadsAreResolved ==
  \A m \in Message : status[m] = "analyzing" ~> status[m] \in {"completed", "failed"}
=============================================================================
