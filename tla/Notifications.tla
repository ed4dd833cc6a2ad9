---------------------------- MODULE Notifications ----------------------------
(***************************************************************************)
(* Notification of published briefs on the Discord webhook: the delivery    *)
(* pass at the end of a worker cycle (radar/worker.py), the append-only     *)
(* ledger research_notification_deliveries, and the notifier, which keeps   *)
(* the keys it must not send again in memory only                           *)
(* (notifications/discord.py).                                              *)
(*                                                                         *)
(* A brief stands for its notification key, which is a digest of the brief  *)
(* identity and the document it was written from.                           *)
(***************************************************************************)
EXTENDS Naturals, FiniteSets, Sequences, SequencesExt

CONSTANTS
  MaxBriefs,      (* bound: briefs published                               *)
  NoOutcome,      (* before the notifier has returned a delivery           *)
  Worker,         (* worker processes over the same database               *)
  Limit,          (* briefs_pending_notification(limit)                    *)
  MaxAttempts,    (* maximum_attempts of the notifier                      *)
  MaxCrashes,     (* bound: crashes of workers                             *)
  MaxFaults       (* bound: failed inserts into the ledger                 *)

ASSUME NotificationAssumption ==
  /\ IsFiniteSet(Worker)
  /\ MaxBriefs \in Nat \ {0}
  /\ Limit \in Nat \ {0}
  /\ MaxAttempts \in Nat \ {0}
  /\ MaxCrashes \in Nat
  /\ MaxFaults \in Nat

VARIABLES
  published,      (* research_briefs: a brief is its place by published_at *)
  recorded,       (* statuses of the ledger rows of each brief             *)
  posts,          (* messages Discord accepted for each brief              *)
  pc,             (* stage of each worker                                  *)
  batch,          (* briefs left in the worker's pass                      *)
  tries,          (* posts made for the head of the batch                  *)
  outcome,        (* the delivery the notifier returned                    *)
  suppressed,     (* _suppressed_keys of the worker's notifier             *)
  crashes, faults

workerVars == <<pc, batch, tries, outcome, suppressed>>
faultVars  == <<crashes, faults>>
vars == <<published, recorded, posts, workerVars, faultVars>>

-----------------------------------------------------------------------------
(* Values *)

Brief == 1..MaxBriefs

TerminalRows == {"sent", "delivery_uncertain"}
(* duplicate, rejected and rate_limited rows: none of them ends anything.     *)
Rows         == TerminalRows \cup {"unsettled"}

(* Deliveries, the notifier's memory and the passes keep their types.        *)
TypeOK ==
  /\ published \in 0..MaxBriefs
  /\ recorded \in [Brief -> SUBSET Rows]
  /\ posts \in [Brief -> Nat]
  /\ pc \in [Worker -> {"down", "cycle", "check", "send", "record"}]
  /\ \A w \in Worker : ToSet(batch[w]) \subseteq Brief /\ Len(batch[w]) <= Limit
  /\ tries \in [Worker -> 0..(MaxAttempts - 1)]
  /\ outcome \in [Worker -> Rows \cup {NoOutcome}]
  /\ suppressed \in [Worker -> SUBSET Brief]
  /\ crashes \in 0..MaxCrashes /\ faults \in 0..MaxFaults

Init ==
  /\ published = 0
  /\ recorded = [b \in Brief |-> {}]
  /\ posts = [b \in Brief |-> 0]
  /\ pc = [w \in Worker |-> "down"]
  /\ batch = [w \in Worker |-> <<>>]
  /\ tries = [w \in Worker |-> 0]
  /\ outcome = [w \in Worker |-> NoOutcome]
  /\ suppressed = [w \in Worker |-> {}]
  /\ crashes = 0 /\ faults = 0

Goto(w, stage) == pc' = [pc EXCEPT ![w] = stage]

-----------------------------------------------------------------------------
(* The pass over the pending briefs *)

(* A filing of the queue is published (module FilingQueue).                  *)
Publish ==
  /\ published < MaxBriefs
  /\ published' = published + 1
  /\ UNCHANGED <<recorded, posts, workerVars, faultVars>>

Start(w) ==
  /\ pc[w] = "down"
  /\ Goto(w, "cycle")
  /\ UNCHANGED <<published, recorded, posts, batch, tries, outcome, suppressed, faultVars>>

(* status IN ('sent', 'delivery_uncertain')                                  *)
SettledBySent(b) == "sent" \in recorded[b]

SettledByAnyRow(b) == recorded[b] # {}

Settled(b) == recorded[b] \cap TerminalRows # {}

(* The oldest Limit briefs without a terminal row.                           *)
Pending ==
  LET oldest[b \in 0..published] ==
        IF b = 0 THEN <<>>
        ELSE IF ~Settled(b) /\ Len(oldest[b - 1]) < Limit THEN Append(oldest[b - 1], b)
        ELSE oldest[b - 1]
  IN  oldest[published]

BeginPass(w) ==
  /\ pc[w] = "cycle"
  /\ batch' = [batch EXCEPT ![w] = Pending]
  /\ Goto(w, "check")
  /\ UNCHANGED <<published, recorded, posts, tries, outcome, suppressed, faultVars>>

EndPass(w) ==
  /\ pc[w] = "check"
  /\ batch[w] = <<>>
  /\ Goto(w, "cycle")
  /\ UNCHANGED <<published, recorded, posts, batch, tries, outcome, suppressed, faultVars>>

(* notification_is_terminal skips a brief another process has settled.       *)
Check(w) ==
  /\ pc[w] = "check"
  /\ batch[w] # <<>>
  /\ IF Settled(Head(batch[w]))
     THEN batch' = [batch EXCEPT ![w] = Tail(@)] /\ UNCHANGED pc
     ELSE Goto(w, "send") /\ UNCHANGED batch
  /\ UNCHANGED <<published, recorded, posts, tries, outcome, suppressed, faultVars>>

-----------------------------------------------------------------------------
(* The notifier *)

Return(w, row) ==
  /\ outcome' = [outcome EXCEPT ![w] = row]
  /\ tries' = [tries EXCEPT ![w] = 0]
  /\ Goto(w, "record")

(* Whether a returned delivery suppresses its key from then on.              *)
SuppressesSent(row) == row = "sent"

Suppresses(row) == row \in TerminalRows

Duplicate(w) ==
  /\ pc[w] = "send"
  /\ Head(batch[w]) \in suppressed[w]
  /\ Return(w, "unsettled")
  /\ UNCHANGED <<published, recorded, posts, batch, suppressed, faultVars>>

(* A 200 with a message identity was accepted; a timeout, an unreadable 200  *)
(* or a redirect or server error may have been.                              *)
Settle(w) ==
  LET b == Head(batch[w]) IN
  /\ pc[w] = "send"
  /\ b \notin suppressed[w]
  /\ \E row \in TerminalRows, accepted \in {0, 1} :
       /\ row = "sent" => accepted = 1
       /\ posts' = [posts EXCEPT ![b] = @ + accepted]
       /\ suppressed' = [suppressed EXCEPT ![w] = IF Suppresses(row) THEN @ \cup {b} ELSE @]
       /\ Return(w, row)
  /\ UNCHANGED <<published, recorded, batch, faultVars>>

(* 429 with a usable delay and an attempt left: wait and post again.         *)
Defer(w) ==
  /\ pc[w] = "send"
  /\ Head(batch[w]) \notin suppressed[w]
  /\ tries[w] + 1 < MaxAttempts
  /\ tries' = [tries EXCEPT ![w] = @ + 1]
  /\ UNCHANGED <<published, recorded, posts, pc, batch, outcome, suppressed, faultVars>>

(* 429 without a usable delay or on the last attempt, or another 4xx.        *)
Refuse(w) ==
  /\ pc[w] = "send"
  /\ Head(batch[w]) \notin suppressed[w]
  /\ Return(w, "unsettled")
  /\ UNCHANGED <<published, recorded, posts, batch, suppressed, faultVars>>

-----------------------------------------------------------------------------
(* The ledger *)

(* The unique index over the terminal rows of a key.                         *)
IndexAllows(b, row) == row \in TerminalRows => ~Settled(b)

Record(w) ==
  LET b == Head(batch[w]) IN
  /\ pc[w] = "record"
  /\ IndexAllows(b, outcome[w])
  /\ recorded' = [recorded EXCEPT ![b] = @ \cup {outcome[w]}]
  /\ batch' = [batch EXCEPT ![w] = Tail(@)]
  /\ outcome' = [outcome EXCEPT ![w] = NoOutcome]
  /\ Goto(w, "check")
  /\ UNCHANGED <<published, posts, tries, suppressed, faultVars>>

AbandonPass(w) ==
  /\ batch' = [batch EXCEPT ![w] = <<>>]
  /\ outcome' = [outcome EXCEPT ![w] = NoOutcome]
  /\ tries' = [tries EXCEPT ![w] = 0]
  /\ UNCHANGED <<published, recorded, posts>>

(* The insert raises, by the index or because the database is away, and the  *)
(* exception ends the pass and the cycle.                                    *)
RecordFails(w) ==
  /\ pc[w] = "record"
  /\ \/ ~IndexAllows(Head(batch[w]), outcome[w]) /\ UNCHANGED faults
     \/ faults < MaxFaults /\ faults' = faults + 1
  /\ Goto(w, "cycle")
  /\ AbandonPass(w)
  /\ UNCHANGED <<suppressed, crashes>>

Crash(w) ==
  /\ pc[w] # "down"
  /\ crashes < MaxCrashes
  /\ crashes' = crashes + 1
  /\ suppressed' = [suppressed EXCEPT ![w] = {}]
  /\ Goto(w, "down")
  /\ AbandonPass(w)
  /\ UNCHANGED faults

-----------------------------------------------------------------------------
(* Specification *)

WorkerStep(w) ==
  \/ Start(w) \/ BeginPass(w) \/ EndPass(w) \/ Check(w)
  \/ Duplicate(w) \/ Settle(w) \/ Defer(w) \/ Refuse(w)
  \/ Record(w) \/ RecordFails(w)

Next ==
  \/ Publish
  \/ \E w \in Worker : WorkerStep(w) \/ Crash(w)

Spec == Init /\ [][Next]_vars

(* Cycles go on for ever, and Discord does not refuse one brief for ever.    *)
Fairness ==
  \A w \in Worker :
    /\ WF_vars(WorkerStep(w))
    /\ \A b \in Brief : SF_vars(batch[w] # <<>> /\ Head(batch[w]) = b /\ Settle(w))

FairSpec == Spec /\ Fairness

-----------------------------------------------------------------------------
(* Properties *)

HasTerminalRow(b) == \E row \in recorded[b] : row \in TerminalRows

(* A process sends a brief at most once in its life, even when the response  *)
(* is ambiguous and the ledger row is lost: what Discord accepted more often *)
(* was sent by another process or after a crash (_suppressed_keys).          *)
PostedOncePerProcess ==
  \A b \in Brief : posts[b] <= crashes + Cardinality({w \in Worker : pc[w] # "down"})

(* A sent or delivery-uncertain row keeps every process, a restarted one     *)
(* too, from starting to send the brief again (store.py,                     *)
(* notification_is_terminal).                                                *)
Sending(w, b) == pc[w] = "send" /\ Head(batch[w]) = b
SettledStaysQuiet ==
  [][\A b \in Brief, w \in Worker :
       HasTerminalRow(b) /\ Sending(w, b)' => Sending(w, b)]_vars

(* A refused or rate-limited brief is tried again in a later cycle until the *)
(* notifier counts it as handled, and fewer than Limit briefs whose row was  *)
(* lost do not hold up the others (briefs_pending_notification).             *)
BriefsAreNotified ==
  \A b \in Brief :
    b <= published ~> HasTerminalRow(b) \/ \E w \in Worker : b \in suppressed[w]
=============================================================================
