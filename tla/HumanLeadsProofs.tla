--------------------------- MODULE HumanLeadsProofs ---------------------------
(***************************************************************************)
(* Proofs about HumanLeads, for every set of messages, every way hypotheses *)
(* are shared among them, every set of workers and every number of roles,   *)
(* tries, crashes and faults.                                               *)
(*                                                                         *)
(* Two inductive invariants: LeadInv, what the rows know of each other,     *)
(* and LineageInv, what a worker knows of its lead at every stage and what  *)
(* a result lists.  All five invariants and the action property follow.     *)
(***************************************************************************)
EXTENDS HumanLeads, SequenceTheorems, InductionLemmas, TLAPS

(* The stages in which a worker holds a lead.                                *)
Busy  == {"resolve", "invoke", "answer", "read", "record", "complete"}

(* The states of a lead that a worker has claimed.                           *)
Taken == {"analyzing", "completed", "failed"}

(* A job whose result, if it has read one, is in S.                          *)
Job(S) ==
  [lead : Message \cup {NoLead}, role : 1..Role, try : 1..Tries, invoked : BOOLEAN, read : S]

IsJob(j) == \E S : j \in Job(S)

LeadTypes ==
  /\ status \in [Message -> Statuses]
  /\ receipts \in [Message -> Seq(Receipt)]
  /\ stale \in [Message -> BOOLEAN]

WorkTypes ==
  /\ pc \in [Worker -> WorkerStages]
  /\ job = [w \in Worker |-> job[w]]
  /\ \A w \in Worker : IsJob(job[w])
  /\ \A w \in Worker : pc[w] \in Busy => job[w].lead \in Message

ListenerTypes ==
  /\ channel \in Seq(Message) /\ replay \in Seq(Message) /\ outbox \in Seq(Message)
  /\ inbox \subseteq Message /\ delivered \subseteq Message
  /\ posts \in [Message -> Nat]
  /\ lpc \in {"down", "ready", "send", "confirm"}
  /\ lpc \in {"send", "confirm"} => sending \in Message

FaultTypes ==
  crashes \in 0..MaxCrashes /\ restarts \in 0..MaxRestarts /\ faults \in 0..MaxFaults

LeadTyping == LeadTypes /\ WorkTypes /\ ListenerTypes /\ FaultTypes

-----------------------------------------------------------------------------
(* Types *)

LEMMA NoJobIsJob == IsJob(NoJob) /\ \A m \in Message : IsJob([NoJob EXCEPT !.lead = m])
<1>1. NoJob \in Job({<<>>})
  BY LeadAssumption DEF NoJob, Job
<1>2. ASSUME NEW m \in Message PROVE [NoJob EXCEPT !.lead = m] \in Job({<<>>})
  BY <1>1 DEF Job
<1> QED
  BY <1>1, <1>2 DEF IsJob

LEMMA TypingInit == Init => LeadTyping
<1> SUFFICES ASSUME Init PROVE LeadTyping
  OBVIOUS
<1> USE LeadAssumption DEF Init
<1>1. LeadTypes
  BY DEF LeadTypes, Statuses
<1>2. WorkTypes
  BY NoJobIsJob DEF WorkTypes, WorkerStages, Busy
<1>3. ListenerTypes /\ FaultTypes
  BY DEF ListenerTypes, FaultTypes
<1> QED
  BY <1>1, <1>2, <1>3 DEF LeadTyping

(* A queued lead keeps the type of status, whichever message it is.          *)
LEMMA EnqueueTyped ==
  ASSUME LeadTypes, NEW m, EnqueueLead(m)
  PROVE  status' \in [Message -> Statuses]
BY DEF LeadTypes, EnqueueLead, Statuses

(* Closing the last attempt of a lead that has one.                          *)
LEMMA CloseTyped ==
  ASSUME LeadTypes, NEW m \in Message, Ledger(m) # <<>>, NEW o \in Outcomes
  PROVE  /\ Close(m, o) \in Seq(Receipt)
         /\ Len(Close(m, o)) = Len(Ledger(m)) /\ Len(Ledger(m)) \in 1..Len(Ledger(m))
         /\ Close(m, o)[Len(Ledger(m))].outcome = o
         /\ \A i \in 1..(Len(Ledger(m)) - 1) : Close(m, o)[i] = Ledger(m)[i]
<1> DEFINE s == Ledger(m)
           n == Len(s)
           r == [s[n] EXCEPT !.outcome = o]
<1>1. s \in Seq(Receipt) /\ s # <<>>
  BY DEF Ledger, LeadTypes
<1>2. n \in Nat /\ n > 0 /\ s \in [1..n -> Receipt] /\ s[n] \in Receipt
  BY <1>1, EmptySeq, LenProperties
<1>3. r \in Receipt /\ r.outcome = o
  BY <1>2 DEF Receipt
<1>4. Close(m, o) = [s EXCEPT ![n] = r]
  BY DEF Close
<1> HIDE DEF s, n, r
<1>5. [s EXCEPT ![n] = r] \in Seq(Receipt) /\ Len([s EXCEPT ![n] = r]) = n
  BY <1>1, <1>2, <1>3, ExceptSeq DEF n
<1>6. [s EXCEPT ![n] = r][n] = r /\ \A i \in 1..(n - 1) : [s EXCEPT ![n] = r][i] = s[i]
  <2>1. DOMAIN s = 1..n /\ n \in 1..n /\ \A i \in 1..(n - 1) : i \in 1..n /\ i # n
    BY <1>2
  <2> QED
    BY <2>1
<1>7. n \in 1..n
  BY <1>2
<1>8. Ledger(m) = s /\ Len(Ledger(m)) = n
  BY DEF s, n
<1> QED
  BY <1>3, <1>4, <1>5, <1>6, <1>7, <1>8

LEMMA RecoverTyped ==
  ASSUME LeadTypes, Recover
  PROVE  LeadTypes'
<1>1. ASSUME NEW m \in Message, Interrupted(m) PROVE Close(m, "interrupted") \in Seq(Receipt)
  BY <1>1, CloseTyped DEF Interrupted, IsOpen, Outcomes
<1>2. receipts' \in [Message -> Seq(Receipt)]
  BY <1>1 DEF Recover, LeadTypes, Ledger
<1>3. status' \in [Message -> Statuses] /\ stale' \in [Message -> BOOLEAN]
  BY DEF Recover, RecoveredStatus, LeadTypes, Statuses
<1> QED
  BY <1>2, <1>3 DEF LeadTypes

(* Who writes what: the actions that touch the leads, the attempts, the jobs. *)
LEMMA StatusWriters ==
  ASSUME LeadTyping, Next, status' # status
  PROVE  \/ \E m \in Message : EnqueueLead(m)
         \/ Recover
         \/ \E w \in Worker : Complete(w) \/ \E m \in Message : Claim(w, m)
<1>1. ReplayMessage \/ ReplayFails => Head(replay) \in Message
  BY HeadTailProperties DEF LeadTyping, ListenerTypes, ReplayMessage, ReplayFails
<1> QED
  BY <1>1 DEF Next, WorkerStep, DeliveryStep, Post, OnMessage, OnMessageFails, AttemptAges,
       Connect, ReplayMessage, ReplayFails, ClaimDelivery, SendResult, ConfirmDelivery,
       DeliveryFails, ListenerCrash, Start, BeginCycle, NoLeadToClaim, Resolve, StartAttempt,
       FinishAttempt, FinishRefused, ReadReceipts, RecordResult, StartRefused, Escapes,
       WorkerCrash, leadVars

LEMMA ReceiptWriters ==
  ASSUME Next, receipts' # receipts
  PROVE  Recover \/ \E w \in Worker : StartAttempt(w) \/ FinishAttempt(w)
BY DEF Next, WorkerStep, DeliveryStep, Post, OnMessage, OnMessageFails, AttemptAges,
       Connect, ReplayMessage, ReplayFails, ClaimDelivery, SendResult, ConfirmDelivery,
       DeliveryFails, ListenerCrash, Start, BeginCycle, NoLeadToClaim, Claim, Resolve,
       FinishRefused, ReadReceipts, RecordResult, Complete, StartRefused, Escapes,
       WorkerCrash, leadVars

(* One worker moves on, with its job changed.                                *)
LEMMA MovesOn ==
  ASSUME WorkTypes, NEW w \in Worker, NEW j, NEW stage \in WorkerStages,
         IsJob(j), stage \in Busy => j.lead \in Message,
         job' = [job EXCEPT ![w] = j], pc' = [pc EXCEPT ![w] = stage]
  PROVE  WorkTypes'
BY DEF WorkTypes

(* The changes a worker makes to its job keep it a job of the same lead.     *)
LEMMA JobCounts ==
  ASSUME NEW j, IsJob(j)
  PROVE  j.role \in 1..Role /\ j.try \in 1..Tries /\ j.lead \in Message \cup {NoLead}
BY DEF IsJob, Job

LEMMA RoleEdit ==
  ASSUME NEW j, IsJob(j), NEW r \in 1..Role, NEW t \in 1..Tries
  PROVE  IsJob([j EXCEPT !.role = r, !.try = t]) /\ [j EXCEPT !.role = r, !.try = t].lead = j.lead
<1>1. PICK S : j \in Job(S)
  BY DEF IsJob
<1>2. [j EXCEPT !.role = r, !.try = t] \in Job(S) /\ [j EXCEPT !.role = r, !.try = t].lead = j.lead
  BY <1>1 DEF Job
<1> QED
  BY <1>2 DEF IsJob

LEMMA TryEdit ==
  ASSUME NEW j, IsJob(j), NEW t \in 1..Tries
  PROVE  IsJob([j EXCEPT !.try = t]) /\ [j EXCEPT !.try = t].lead = j.lead
<1>1. PICK S : j \in Job(S)
  BY DEF IsJob
<1>2. [j EXCEPT !.try = t] \in Job(S) /\ [j EXCEPT !.try = t].lead = j.lead
  BY <1>1 DEF Job
<1> QED
  BY <1>2 DEF IsJob

LEMMA InvokedEdit ==
  ASSUME NEW j, IsJob(j)
  PROVE  IsJob([j EXCEPT !.invoked = TRUE]) /\ [j EXCEPT !.invoked = TRUE].lead = j.lead
<1>1. PICK S : j \in Job(S)
  BY DEF IsJob
<1>2. [j EXCEPT !.invoked = TRUE] \in Job(S) /\ [j EXCEPT !.invoked = TRUE].lead = j.lead
  BY <1>1 DEF Job
<1> QED
  BY <1>2 DEF IsJob

LEMMA ReadEdit ==
  ASSUME NEW j, IsJob(j), NEW s
  PROVE  IsJob([j EXCEPT !.read = s]) /\ [j EXCEPT !.read = s].lead = j.lead
<1>1. PICK S : j \in Job(S)
  BY DEF IsJob
<1>2. [j EXCEPT !.read = s] \in Job({s}) /\ [j EXCEPT !.read = s].lead = j.lead
  BY <1>1 DEF Job
<1> QED
  BY <1>2 DEF IsJob

(* A job never changes its lead except in Claim, which takes a lead from the *)
(* queue, and at the end of the work on it.                                  *)
LEMMA WorkStep ==
  ASSUME LeadTyping, [Next]_vars
  PROVE  WorkTypes'
<1> USE LeadAssumption
<1>1. ASSUME NEW w \in Worker, WorkerStep(w) \/ StartRefused(w) \/ Escapes(w) \/ WorkerCrash(w)
      PROVE  WorkTypes'
  <2> USE DEF LeadTyping, WorkTypes, Busy
  <2>1. IsJob(NoJob)
    BY NoJobIsJob
  <2>2. CASE Start(w) \/ BeginCycle(w) \/ NoLeadToClaim(w)
    BY <2>2 DEF Start, BeginCycle, NoLeadToClaim, Goto, WorkerStages
  <2>3. CASE \E m \in Message : Claim(w, m)
    <3>1. PICK m \in Message : Claim(w, m)
      BY <2>3
    <3> DEFINE j == [NoJob EXCEPT !.lead = m]
    <3>2. IsJob(j) /\ j.lead = m
      <4>1. j.lead = m
        BY DEF NoJob
      <4> QED
        BY <4>1, NoJobIsJob
    <3>3. job' = [job EXCEPT ![w] = j] /\ pc' = [pc EXCEPT ![w] = "resolve"]
      BY <3>1 DEF Claim, Goto
    <3> HIDE DEF j
    <3> QED
      BY <3>2, <3>3, MovesOn DEF WorkerStages
  <2>4. CASE Resolve(w)
    <3> DEFINE j == [job[w] EXCEPT !.invoked = TRUE]
    <3>1. IsJob(j) /\ j.lead = job[w].lead
      BY InvokedEdit
    <3>2. CASE job' = [job EXCEPT ![w] = j] /\ pc' = [pc EXCEPT ![w] = "invoke"]
      <4> HIDE DEF j
      <4> QED
        BY <2>4, <3>1, <3>2, MovesOn DEF Resolve, WorkerStages
    <3>3. CASE pc' = [pc EXCEPT ![w] = "read"] /\ UNCHANGED job
      BY <2>4, <3>3 DEF Resolve, WorkerStages
    <3> QED
      BY <2>4, <3>2, <3>3 DEF Resolve, Goto
  <2>5. CASE StartAttempt(w) \/ StartRefused(w) \/ FinishRefused(w) \/ RecordResult(w)
    BY <2>5 DEF StartAttempt, StartRefused, FinishRefused, RecordResult, Goto, WorkerStages
  <2>6. CASE FinishAttempt(w)
    <3>1. PICK outcome \in {"accepted", "rejected", "error"} : Continue(w, outcome)
      BY <2>6 DEF FinishAttempt
    <3>2. pc[w] = "answer"
      BY <2>6 DEF FinishAttempt
    <3>3. CASE job[w].role < Role /\ NextRole(w)
      <4> DEFINE j == [job[w] EXCEPT !.role = job[w].role + 1, !.try = 1]
      <4>1. job[w].role + 1 \in 1..Role /\ 1 \in 1..Tries
        BY <3>3, JobCounts
      <4>2. IsJob(j) /\ j.lead = job[w].lead
        BY <4>1, RoleEdit
      <4>3. job' = [job EXCEPT ![w] = j] /\ pc' = [pc EXCEPT ![w] = "invoke"]
        BY <3>3 DEF NextRole, Goto
      <4> HIDE DEF j
      <4> QED
        BY <3>2, <4>2, <4>3, MovesOn DEF WorkerStages
    <3>4. CASE job[w].try < Tries /\ RepairTry(w)
      <4> DEFINE j == [job[w] EXCEPT !.try = job[w].try + 1]
      <4>1. job[w].try + 1 \in 1..Tries
        BY <3>4, JobCounts
      <4>2. IsJob(j) /\ j.lead = job[w].lead
        BY <4>1, TryEdit
      <4>3. job' = [job EXCEPT ![w] = j] /\ pc' = [pc EXCEPT ![w] = "invoke"]
        BY <3>4 DEF RepairTry, Goto
      <4> HIDE DEF j
      <4> QED
        BY <3>2, <4>2, <4>3, MovesOn DEF WorkerStages
    <3>5. CASE Goto(w, "read") /\ UNCHANGED job
      BY <3>2, <3>5 DEF Goto, WorkerStages
    <3> QED
      BY <3>1, <3>3, <3>4, <3>5 DEF Continue
  <2>7. CASE ReadReceipts(w)
    <3> DEFINE j == [job[w] EXCEPT !.read = IF job[w].invoked THEN Lineage(job[w].lead) ELSE <<>>]
    <3>1. IsJob(j) /\ j.lead = job[w].lead
      BY ReadEdit
    <3>2. job' = [job EXCEPT ![w] = j] /\ pc' = [pc EXCEPT ![w] = "record"] /\ pc[w] = "read"
      BY <2>7 DEF ReadReceipts, Goto
    <3> HIDE DEF j
    <3> QED
      BY <3>1, <3>2, MovesOn DEF WorkerStages
  <2>8. CASE Complete(w) \/ Escapes(w) \/ WorkerCrash(w)
    <3>1. job' = [job EXCEPT ![w] = NoJob] /\ pc' \in [Worker -> WorkerStages]
      BY <2>8 DEF Complete, Escapes, WorkerCrash, Goto, WorkerStages
    <3>2. pc'[w] \notin Busy /\ \A v \in Worker \ {w} : pc'[v] = pc[v]
      BY <2>8 DEF Complete, Escapes, WorkerCrash, Goto
    <3> QED
      BY <2>1, <3>1, <3>2
  <2> QED
    BY <1>1, <2>2, <2>3, <2>4, <2>5, <2>6, <2>7, <2>8 DEF WorkerStep
<1>2. CASE UNCHANGED workerVars
  BY <1>2 DEF workerVars, LeadTyping, WorkTypes
<1>3. Next /\ ~(UNCHANGED workerVars)
        => \E w \in Worker : WorkerStep(w) \/ StartRefused(w) \/ Escapes(w) \/ WorkerCrash(w)
  BY DEF Next, DeliveryStep, Post, OnMessage, OnMessageFails, AttemptAges, Connect,
         ReplayMessage, ReplayFails, ClaimDelivery, SendResult, ConfirmDelivery,
         DeliveryFails, ListenerCrash
<1> QED
  BY <1>1, <1>2, <1>3 DEF vars

LEMMA LeadStep ==
  ASSUME LeadTyping, [Next]_vars
  PROVE  LeadTypes'
<1> USE LeadAssumption
<1>1. CASE Recover
  BY <1>1, RecoverTyped DEF LeadTyping
<1>2. status' \in [Message -> Statuses]
  <2>1. CASE \E m \in Message : EnqueueLead(m)
    BY <2>1, EnqueueTyped DEF LeadTyping
  <2>2. CASE \E w \in Worker : Complete(w) \/ \E m \in Message : Claim(w, m)
    BY <2>2 DEF Complete, Claim, LeadTyping, LeadTypes, Statuses
  <2>3. CASE status' = status
    BY <2>3 DEF LeadTyping, LeadTypes
  <2> QED
    BY <1>1, <2>1, <2>2, <2>3, StatusWriters DEF vars, leadVars, LeadTypes
<1>3. receipts' \in [Message -> Seq(Receipt)]
  <2>1. ASSUME NEW w \in Worker, StartAttempt(w) PROVE receipts' \in [Message -> Seq(Receipt)]
    <3> DEFINE r == [role |-> job[w].role, try |-> job[w].try, outcome |-> "started"]
    <3>1. job[w].lead \in Message /\ r \in Receipt
      BY <2>1, JobCounts DEF StartAttempt, LeadTyping, WorkTypes, Busy, Receipt, Outcomes
    <3>2. Append(receipts[job[w].lead], r) \in Seq(Receipt)
      BY <3>1, AppendProperties DEF LeadTyping, LeadTypes
    <3> QED
      BY <2>1, <3>1, <3>2 DEF StartAttempt, LeadTyping, LeadTypes
  <2>2. ASSUME NEW w \in Worker, FinishAttempt(w) PROVE receipts' \in [Message -> Seq(Receipt)]
    <3>1. PICK o \in {"accepted", "rejected", "error"} :
            receipts' = [receipts EXCEPT ![job[w].lead] = Close(job[w].lead, o)]
      BY <2>2 DEF FinishAttempt
    <3>2. job[w].lead \in Message /\ Ledger(job[w].lead) # <<>>
      BY <2>2 DEF FinishAttempt, StillOpen, IsOpen, LeadTyping, WorkTypes, Busy
    <3>3. Close(job[w].lead, o) \in Seq(Receipt)
      BY <3>2, CloseTyped DEF LeadTyping, Outcomes
    <3> QED
      BY <3>1, <3>3 DEF LeadTyping, LeadTypes
  <2>3. CASE receipts' = receipts
    BY <2>3 DEF LeadTyping, LeadTypes
  <2> QED
    BY <1>1, <2>1, <2>2, <2>3, ReceiptWriters DEF vars, leadVars, LeadTypes
<1>4. stale' \in [Message -> BOOLEAN]
  <2>1. \/ stale' = stale \/ Recover
        \/ \E m : stale' = [stale EXCEPT ![m] = FALSE] \/ stale' = [stale EXCEPT ![m] = TRUE]
    BY DEF Next, WorkerStep, DeliveryStep, Post, OnMessage, OnMessageFails, AttemptAges,
       Connect, ReplayMessage, ReplayFails, ClaimDelivery, SendResult, ConfirmDelivery,
       DeliveryFails, ListenerCrash, Start, BeginCycle, NoLeadToClaim, Claim, Resolve,
       StartAttempt, FinishAttempt, FinishRefused, ReadReceipts, RecordResult, Complete,
       StartRefused, Escapes, WorkerCrash, leadVars, vars
  <2> QED
    BY <1>1, <2>1 DEF LeadTyping, LeadTypes
<1> QED
  BY <1>2, <1>3, <1>4 DEF LeadTypes

LEMMA RemoveAtTyped ==
  ASSUME NEW S, NEW s \in Seq(S), NEW i \in DOMAIN s
  PROVE  /\ RemoveAt(s, i) \in Seq(S)
         /\ \A j \in DOMAIN RemoveAt(s, i) : \E k \in DOMAIN s : RemoveAt(s, i)[j] = s[k]
<1> DEFINE a == SubSeq(s, 1, i - 1)
           b == SubSeq(s, i + 1, Len(s))
<1>1. Len(s) \in Nat /\ DOMAIN s = 1..Len(s) /\ i \in 1..Len(s)
  BY LenProperties
<1>2. /\ a \in Seq(S) /\ Len(a) = i - 1
      /\ \A j \in 1..(i - 1) : a[j] = s[j]
  BY <1>1, SubSeqProperties, ElementOfSeq
<1>3. /\ b \in Seq(S) /\ Len(b) = Len(s) - i
      /\ \A j \in 1..(Len(s) - i) : b[j] = s[i + j]
  BY <1>1, SubSeqProperties, ElementOfSeq
<1> HIDE DEF a, b
<1>4. /\ a \o b \in Seq(S) /\ Len(a \o b) = Len(s) - 1
      /\ \A j \in 1..(Len(s) - 1) : (a \o b)[j] = IF j <= i - 1 THEN a[j] ELSE b[j - (i - 1)]
  <2>1. /\ a \o b \in Seq(S) /\ Len(a \o b) = Len(a) + Len(b)
        /\ \A j \in 1..(Len(a) + Len(b)) : (a \o b)[j] =
             IF j <= Len(a) THEN a[j] ELSE b[j - Len(a)]
    BY <1>2, <1>3, ConcatProperties
  <2>2. Len(a) + Len(b) = Len(s) - 1 /\ Len(a) = i - 1
    BY <1>1, <1>2, <1>3
  <2> QED
    BY <2>1, <2>2
<1>5. RemoveAt(s, i) = a \o b
  BY DEF RemoveAt, a, b
<1>6. ASSUME NEW j \in 1..(Len(s) - 1) PROVE \E k \in DOMAIN s : (a \o b)[j] = s[k]
  <2>1. CASE j <= i - 1
    <3>1. j \in 1..(i - 1) /\ j \in 1..Len(s)
      BY <1>1, <2>1
    <3>2. (a \o b)[j] = a[j]
      BY <1>4, <2>1
    <3> QED
      BY <1>1, <1>2, <3>1, <3>2
  <2>2. CASE ~(j <= i - 1)
    <3>1. j - (i - 1) \in 1..(Len(s) - i) /\ i + (j - (i - 1)) = j + 1 /\ j + 1 \in 1..Len(s)
      BY <1>1, <2>2
    <3> QED
      BY <1>1, <1>3, <1>4, <2>2, <3>1
  <2> QED
    BY <2>1, <2>2
<1>7. DOMAIN (a \o b) = 1..(Len(s) - 1)
  BY <1>4, LenProperties
<1> QED
  BY <1>4, <1>5, <1>6, <1>7

LEMMA ReplayedTyped ==
  ASSUME channel \in Seq(Message)
  PROVE  Replayed \in Seq(Message)
<1> DEFINE first == IF Len(channel) > HistoryLimit THEN Len(channel) - HistoryLimit + 1 ELSE 1
           s == SubSeq(channel, first, Len(channel))
<1>1. Len(channel) \in Nat /\ first \in 1..(Len(channel) + 1)
  BY LeadAssumption, LenProperties
<1>2. s \in Seq(Message)
  BY <1>1, SubSeqProperties, ElementOfSeq
<1> HIDE DEF s
<1>3. Reverse(s) \in Seq(Message)
  BY <1>2 DEF Reverse
<1> QED
  BY <1>3 DEF Replayed, s

(* What the listener holds are messages.                                     *)
LEMMA ListenerStep ==
  ASSUME LeadTyping, [Next]_vars
  PROVE  ListenerTypes'
<1> USE LeadAssumption DEF LeadTyping, ListenerTypes
<1>1. ASSUME NEW m \in Message, Post(m) \/ OnMessage(m) \/ OnMessageFails(m) \/ AttemptAges(m)
      PROVE  ListenerTypes'
  <2>1. CASE Post(m)
    <3>1. Append(channel, m) \in Seq(Message)
      BY AppendProperties
    <3> QED
      BY <2>1, <3>1 DEF Post, deliveryVars
  <2>2. CASE OnMessage(m) \/ OnMessageFails(m)
    BY <2>2 DEF OnMessage, OnMessageFails, deliveryVars
  <2>3. CASE AttemptAges(m)
    BY <2>3 DEF AttemptAges, deliveryVars, listenerVars
  <2> QED
    BY <1>1, <2>1, <2>2, <2>3
<1>2. CASE Connect
  BY <1>2, ReplayedTyped DEF Connect, deliveryVars
<1>3. CASE ReplayMessage \/ ReplayFails
  BY <1>3, HeadTailProperties, EmptySeq DEF ReplayMessage, ReplayFails, deliveryVars
<1>4. CASE ClaimDelivery
  <2>1. Head(outbox) \in Message /\ Tail(outbox) \in Seq(Message)
    BY <1>4, HeadTailProperties DEF ClaimDelivery
  <2>2. Rotated \in Seq(Message)
    BY <2>1, AppendProperties DEF Rotated
  <2> QED
    BY <1>4, <2>1, <2>2 DEF ClaimDelivery
<1>5. CASE SendResult
  BY <1>5 DEF SendResult
<1>6. CASE ConfirmDelivery
  <2>1. outbox' \in Seq(Message)
    BY <1>6, RemoveAtTyped DEF ConfirmDelivery
  <2> QED
    BY <1>6, <2>1 DEF ConfirmDelivery
<1>7. CASE DeliveryFails \/ ListenerCrash
  BY <1>7, EmptySeq DEF DeliveryFails, ListenerCrash, deliveryVars
<1>8. ASSUME NEW w \in Worker, RecordResult(w) PROVE ListenerTypes'
  <2>1. job[w].lead \in Message
    BY <1>8 DEF RecordResult, WorkTypes, Busy
  <2>2. Append(outbox, job[w].lead) \in Seq(Message)
    BY <2>1, AppendProperties
  <2> QED
    BY <1>8, <2>2 DEF RecordResult, listenerVars
<1>9. CASE UNCHANGED <<channel, deliveryVars, listenerVars>>
  BY <1>9 DEF deliveryVars, listenerVars
<1>10. ASSUME NEW w \in Worker, WorkerStep(w) \/ StartRefused(w) \/ Escapes(w) \/ WorkerCrash(w),
              ~RecordResult(w)
       PROVE  UNCHANGED <<channel, deliveryVars, listenerVars>>
  BY <1>10 DEF WorkerStep, Start, BeginCycle, NoLeadToClaim, Claim, Resolve, StartAttempt,
       FinishAttempt, FinishRefused, ReadReceipts, Complete, StartRefused, Escapes, WorkerCrash
<1> QED
  BY <1>1, <1>2, <1>3, <1>4, <1>5, <1>6, <1>7, <1>8, <1>9, <1>10
     DEF Next, DeliveryStep, vars

LEMMA FaultStep ==
  ASSUME LeadTyping, [Next]_vars
  PROVE  FaultTypes'
<1> USE LeadAssumption DEF LeadTyping, FaultTypes
<1>1. UNCHANGED faultVars \/ Crashes \/ Restarts \/ Faults
  BY DEF Next, WorkerStep, DeliveryStep, Post, OnMessage, OnMessageFails, AttemptAges,
       Connect, ReplayMessage, ReplayFails, ClaimDelivery, SendResult, ConfirmDelivery,
       DeliveryFails, ListenerCrash, Start, BeginCycle, NoLeadToClaim, Claim, Resolve,
       StartAttempt, FinishAttempt, FinishRefused, ReadReceipts, RecordResult, Complete,
       StartRefused, Escapes, WorkerCrash, vars
<1> QED
  BY <1>1 DEF faultVars, Crashes, Restarts, Faults

LEMMA TypingStep ==
  ASSUME LeadTyping, [Next]_vars
  PROVE  LeadTyping'
BY LeadStep, WorkStep, ListenerStep, FaultStep DEF LeadTyping

LEMMA TypingImpliesTypeOK == LeadTyping => TypeOK
<1> SUFFICES ASSUME LeadTyping PROVE TypeOK
  OBVIOUS
<1> USE DEF LeadTyping
<1>1. \A i \in DOMAIN channel : channel[i] \in Message
  BY ElementOfSeq, LenProperties DEF ListenerTypes
<1>2. \A m \in Message : \A i \in DOMAIN Ledger(m) : Ledger(m)[i] \in Receipt
  BY ElementOfSeq, LenProperties DEF LeadTypes, Ledger
<1>3. ToSet(outbox) \subseteq Message /\ ToSet(replay) \subseteq Message
  BY ElementOfSeq, LenProperties DEF ListenerTypes, ToSet
<1>4. \A w \in Worker : job[w].role \in 1..Role /\ job[w].try \in 1..Tries
  BY JobCounts DEF WorkTypes
<1> QED
  BY <1>1, <1>2, <1>3, <1>4 DEF TypeOK, LeadTypes, WorkTypes, ListenerTypes, FaultTypes

-----------------------------------------------------------------------------
(* What the rows know of each other *)

(* A lead with an attempt, or with a worker on it, has been claimed.         *)
WorkIsKnown ==
  /\ \A m \in Message : Ledger(m) # <<>> => status[m] \in Taken
  /\ \A w \in Worker : pc[w] \in Busy => status[job[w].lead] \in Taken

OneLeadPerHypothesis ==
  \A m, n \in Message :
    m # n /\ Hypothesis[m] = Hypothesis[n] => status[m] = "absent" \/ status[n] = "absent"

(* Whatever is or was delivered has a lead.                                  *)
DeliveryIsKnown ==
  /\ \A m \in Message : posts[m] > 0 => status[m] # "absent"
  /\ \A i \in DOMAIN outbox : status[outbox[i]] # "absent"
  /\ lpc \in {"send", "confirm"} => status[sending] # "absent"

LeadInv ==
  /\ LeadTyping /\ WorkIsKnown /\ OneLeadPerHypothesis /\ DeliveryIsKnown
  /\ InterruptedLeadsAreResolved

LEMMA LeadInvInit == Init => LeadInv
<1> SUFFICES ASSUME Init PROVE LeadInv
  OBVIOUS
<1>1. LeadTyping
  BY TypingInit
<1>2. WorkIsKnown /\ OneLeadPerHypothesis /\ InterruptedLeadsAreResolved
  BY DEF Init, WorkIsKnown, OneLeadPerHypothesis, InterruptedLeadsAreResolved, Ledger, Busy
<1>3. DeliveryIsKnown
  BY LenProperties, EmptySeq DEF Init, DeliveryIsKnown
<1> QED
  BY <1>1, <1>2, <1>3 DEF LeadInv

(* A row of research_human_leads never leaves the table, a claimed one never *)
(* returns to the queue and a terminal one stays terminal.                   *)
LEMMA StatusGrows ==
  ASSUME LeadTyping, WorkIsKnown, [Next]_vars, NEW m \in Message
  PROVE  /\ status[m] # "absent" => status'[m] # "absent"
         /\ status[m] \in Taken => status'[m] \in Taken
         /\ status[m] \in {"failed", "completed"} => status'[m] \in {"failed", "completed"}
<1> USE DEF LeadTyping, LeadTypes, Taken
<1>1. ASSUME NEW n \in Message, EnqueueLead(n)
      PROVE  status' = status \/ (status[n] = "absent" /\ status' = [status EXCEPT ![n] = "queued"])
  BY <1>1 DEF EnqueueLead, Duplicate
<1>2. CASE Recover
  BY <1>2 DEF Recover, RecoveredStatus
<1>3. CASE \E w \in Worker : Complete(w) \/ \E n \in Message : Claim(w, n)
  BY <1>3 DEF Complete, Claim, Claimable
<1> QED
  BY <1>1, <1>2, <1>3, StatusWriters DEF vars, leadVars

(* A message becomes a lead only when no lead shares its hypothesis.         *)
LEMMA OneLeadStep ==
  ASSUME LeadInv, [Next]_vars
  PROVE  OneLeadPerHypothesis'
<1> USE DEF LeadInv, LeadTyping, LeadTypes
<1>1. ASSUME NEW n \in Message, EnqueueLead(n) PROVE OneLeadPerHypothesis'
  BY <1>1 DEF EnqueueLead, Duplicate, OneLeadPerHypothesis
<1>2. CASE Recover
  BY <1>2 DEF Recover, RecoveredStatus, OneLeadPerHypothesis
<1>3. ASSUME NEW w \in Worker, Complete(w) PROVE OneLeadPerHypothesis'
  <2>1. job[w].lead \in Message /\ status[job[w].lead] # "absent"
    BY <1>3 DEF Complete, WorkTypes, WorkIsKnown, Busy, Taken
  <2> QED
    BY <1>3, <2>1 DEF Complete, OneLeadPerHypothesis
<1>4. ASSUME NEW w \in Worker, NEW n \in Message, Claim(w, n) PROVE OneLeadPerHypothesis'
  BY <1>4 DEF Claim, Claimable, OneLeadPerHypothesis
<1>5. CASE status' = status
  BY <1>5 DEF OneLeadPerHypothesis
<1> QED
  BY <1>1, <1>2, <1>3, <1>4, <1>5, StatusWriters DEF vars, leadVars

(* A busy worker was busy with the same lead before, or has just claimed it. *)
LEMMA LeadIsKept ==
  ASSUME LeadTyping, [Next]_vars, NEW v \in Worker, pc'[v] \in Busy
  PROVE  \/ pc[v] \in Busy /\ job'[v].lead = job[v].lead
         \/ \E m \in Message : Claim(v, m) /\ job'[v].lead = m
<1> USE DEF LeadTyping, WorkTypes, Busy
<1>1. ASSUME NEW w \in Worker, w # v,
             WorkerStep(w) \/ StartRefused(w) \/ Escapes(w) \/ WorkerCrash(w)
      PROVE  pc'[v] = pc[v] /\ job'[v] = job[v]
  BY <1>1 DEF WorkerStep, Start, BeginCycle, NoLeadToClaim, Claim, Resolve, StartAttempt,
       FinishAttempt, Continue, NextRole, RepairTry, FinishRefused, ReadReceipts, RecordResult,
       Complete, StartRefused, Escapes, WorkerCrash, Goto
<1>2. CASE Start(v) \/ BeginCycle(v) \/ NoLeadToClaim(v) \/ Complete(v) \/ Escapes(v)
           \/ WorkerCrash(v)
  BY <1>2 DEF Start, BeginCycle, NoLeadToClaim, Complete, Escapes, WorkerCrash, Goto,
              WorkerStages
<1>3. ASSUME NEW m \in Message, Claim(v, m) PROVE job'[v].lead = m
  BY <1>3 DEF Claim, NoJob
<1>4. CASE StartAttempt(v) \/ StartRefused(v) \/ FinishRefused(v) \/ RecordResult(v)
  BY <1>4 DEF StartAttempt, StartRefused, FinishRefused, RecordResult
<1>5. CASE Resolve(v)
  <2>1. [job[v] EXCEPT !.invoked = TRUE].lead = job[v].lead
    BY InvokedEdit
  <2> QED
    BY <1>5, <2>1 DEF Resolve
<1>6. CASE ReadReceipts(v)
  <2> DEFINE s == IF job[v].invoked THEN Lineage(job[v].lead) ELSE <<>>
  <2>1. [job[v] EXCEPT !.read = s].lead = job[v].lead
    BY ReadEdit
  <2>2. job'[v] = [job[v] EXCEPT !.read = s] /\ pc[v] = "read"
    BY <1>6 DEF ReadReceipts
  <2> QED
    BY <2>1, <2>2
<1>7. CASE FinishAttempt(v)
  <2>1. PICK outcome : Continue(v, outcome)
    BY <1>7 DEF FinishAttempt
  <2>2. \/ job' = job
        \/ job' = [job EXCEPT ![v].role = job[v].role + 1, ![v].try = 1]
        \/ job' = [job EXCEPT ![v].try = job[v].try + 1]
    BY <2>1 DEF Continue, NextRole, RepairTry
  <2>3. job'[v].lead = job[v].lead
    <3>1. IsJob(job[v])
      OBVIOUS
    <3>2. [job[v] EXCEPT !.role = job[v].role + 1, !.try = 1].lead = job[v].lead
          /\ [job[v] EXCEPT !.try = job[v].try + 1].lead = job[v].lead
      BY <3>1 DEF IsJob, Job
    <3>3. \/ job'[v] = job[v]
          \/ job'[v] = [job[v] EXCEPT !.role = job[v].role + 1, !.try = 1]
          \/ job'[v] = [job[v] EXCEPT !.try = job[v].try + 1]
      BY <2>2
    <3> QED
      BY <3>2, <3>3
  <2>4. pc[v] = "answer"
    BY <1>7 DEF FinishAttempt
  <2> QED
    BY <2>3, <2>4
<1>8. CASE UNCHANGED workerVars
  BY <1>8 DEF workerVars
<1>9. Next /\ ~(UNCHANGED workerVars)
        => \E w \in Worker : WorkerStep(w) \/ StartRefused(w) \/ Escapes(w) \/ WorkerCrash(w)
  BY DEF Next, DeliveryStep, Post, OnMessage, OnMessageFails, AttemptAges, Connect,
         ReplayMessage, ReplayFails, ClaimDelivery, SendResult, ConfirmDelivery,
         DeliveryFails, ListenerCrash
<1>10. CASE WorkerStep(v) \/ StartRefused(v) \/ Escapes(v) \/ WorkerCrash(v)
  BY <1>2, <1>3, <1>4, <1>5, <1>6, <1>7, <1>10 DEF WorkerStep
<1> QED
  BY <1>1, <1>8, <1>9, <1>10 DEF vars

LEMMA WorkIsKnownStep ==
  ASSUME LeadInv, [Next]_vars
  PROVE  WorkIsKnown'
<1> USE DEF LeadInv, LeadTyping, WorkIsKnown
<1>1. ASSUME NEW m \in Message, receipts'[m] # <<>> PROVE status'[m] \in Taken
  <2>1. CASE Ledger(m) # <<>>
    BY <2>1, StatusGrows
  <2>2. CASE Ledger(m) = <<>> /\ Recover
    BY <1>1, <2>2 DEF Recover, Interrupted, IsOpen, LeadTypes
  <2>3. ASSUME Ledger(m) = <<>>, NEW w \in Worker, StartAttempt(w) \/ FinishAttempt(w)
        PROVE  status'[m] \in Taken
    <3>1. job[w].lead \in Message /\ status[job[w].lead] \in Taken
      BY <2>3 DEF StartAttempt, FinishAttempt, WorkTypes, Busy
    <3>2. m = job[w].lead
      BY <1>1, <2>3 DEF StartAttempt, FinishAttempt, Ledger, LeadTypes
    <3> QED
      BY <3>1, <3>2, StatusGrows
  <2>4. CASE receipts' = receipts
    BY <1>1, <2>1, <2>4 DEF Ledger
  <2> QED
    BY <2>1, <2>2, <2>3, <2>4, ReceiptWriters DEF vars, leadVars
<1>2. ASSUME NEW v \in Worker, pc'[v] \in Busy PROVE status'[job'[v].lead] \in Taken
  <2>1. CASE pc[v] \in Busy /\ job'[v].lead = job[v].lead
    <3>1. job[v].lead \in Message
      BY <2>1 DEF WorkTypes
    <3> QED
      BY <2>1, <3>1, StatusGrows
  <2>2. ASSUME NEW m \in Message, Claim(v, m), job'[v].lead = m PROVE status'[m] = "analyzing"
    BY <2>2 DEF Claim, LeadTypes
  <2> QED
    BY <1>2, <2>1, <2>2, LeadIsKept DEF Taken
<1> QED
  BY <1>1, <1>2 DEF Ledger

LEMMA NotLast ==
  ASSUME NEW n \in Nat, NEW i \in 1..n, i # n
  PROVE  i \in 1..(n - 1) /\ i + 1 \in 1..n
OBVIOUS

LEMMA AppendElements ==
  ASSUME NEW S, NEW s \in Seq(S), NEW e \in S
  PROVE  \A i \in DOMAIN Append(s, e) :
           Append(s, e)[i] = e \/ (i \in DOMAIN s /\ Append(s, e)[i] = s[i])
<1>1. Len(s) \in Nat /\ DOMAIN s = 1..Len(s)
  BY LenProperties
<1>2. /\ Append(s, e) \in Seq(S) /\ Len(Append(s, e)) = Len(s) + 1
      /\ Append(s, e)[Len(s) + 1] = e
      /\ \A i \in 1..Len(s) : Append(s, e)[i] = s[i]
  BY AppendProperties
<1>3. DOMAIN Append(s, e) = 1..(Len(s) + 1)
  BY <1>2, LenProperties
<1>4. \A i \in 1..(Len(s) + 1) : i = Len(s) + 1 \/ i \in 1..Len(s)
  BY <1>1
<1> QED
  BY <1>1, <1>2, <1>3, <1>4

LEMMA DeliveryIsKnownStep ==
  ASSUME LeadInv, [Next]_vars
  PROVE  DeliveryIsKnown'
<1> USE DEF LeadInv, LeadTyping, ListenerTypes
<1>1. /\ \A m \in Message : status[m] # "absent" => status'[m] # "absent"
      /\ \A i \in DOMAIN outbox : outbox[i] \in Message
  BY StatusGrows, ElementOfSeq, LenProperties
<1>2. CASE UNCHANGED <<posts, outbox, lpc, sending>>
  BY <1>1, <1>2 DEF DeliveryIsKnown
<1>3. CASE ClaimDelivery
  <2>1. /\ Head(outbox) = outbox[1] /\ 1 \in DOMAIN outbox
        /\ Tail(outbox) \in Seq(Message) /\ Len(Tail(outbox)) = Len(outbox) - 1
        /\ \A i \in 1..(Len(outbox) - 1) : Tail(outbox)[i] = outbox[i + 1]
        /\ Len(outbox) \in Nat /\ DOMAIN outbox = 1..Len(outbox)
    BY <1>3, HeadTailProperties, LenProperties, EmptySeq DEF ClaimDelivery
  <2>2. /\ Len(Rotated) = Len(outbox) /\ Rotated[Len(outbox)] = outbox[1]
        /\ \A i \in 1..(Len(outbox) - 1) : Rotated[i] = outbox[i + 1]
        /\ DOMAIN Rotated = 1..Len(outbox)
    BY <2>1, AppendProperties, LenProperties DEF Rotated
  <2>3. \A i \in DOMAIN Rotated : \E k \in DOMAIN outbox : Rotated[i] = outbox[k]
    <3> SUFFICES ASSUME NEW i \in 1..Len(outbox)
                 PROVE  \E k \in DOMAIN outbox : Rotated[i] = outbox[k]
      BY <2>2
    <3>1. CASE i = Len(outbox)
      BY <2>1, <2>2, <3>1
    <3>2. CASE i # Len(outbox)
      <4>1. i \in 1..(Len(outbox) - 1) /\ i + 1 \in DOMAIN outbox
        BY <2>1, <3>2, NotLast
      <4> QED
        BY <2>2, <4>1
    <3> QED
      BY <3>1, <3>2
  <2>4. outbox' = Rotated /\ sending' = outbox[1] /\ posts' = posts /\ status' = status
    BY <1>3, <2>1 DEF ClaimDelivery, leadVars
  <2> QED
    BY <2>1, <2>3, <2>4 DEF DeliveryIsKnown
<1>4. CASE SendResult
  BY <1>1, <1>4 DEF SendResult, DeliveryIsKnown
<1>5. CASE ConfirmDelivery
  <2>1. \A i \in DOMAIN outbox' : \E k \in DOMAIN outbox : outbox'[i] = outbox[k]
    BY <1>5, RemoveAtTyped DEF ConfirmDelivery
  <2> QED
    BY <1>1, <1>5, <2>1 DEF ConfirmDelivery, DeliveryIsKnown
<1>6. CASE DeliveryFails \/ ListenerCrash \/ Connect
  BY <1>1, <1>6 DEF DeliveryFails, ListenerCrash, Connect, deliveryVars, DeliveryIsKnown
<1>7. ASSUME NEW w \in Worker, RecordResult(w) PROVE DeliveryIsKnown'
  <2>1. job[w].lead \in Message /\ status[job[w].lead] # "absent"
    BY <1>7 DEF RecordResult, WorkTypes, WorkIsKnown, Busy, Taken
  <2>2. CASE outbox' = Append(outbox, job[w].lead)
    <3>1. \A i \in DOMAIN outbox' :
            outbox'[i] = job[w].lead \/ (i \in DOMAIN outbox /\ outbox'[i] = outbox[i])
      BY <2>1, <2>2, AppendElements
    <3> QED
      BY <1>1, <1>7, <2>1, <3>1 DEF RecordResult, listenerVars, DeliveryIsKnown
  <2>3. CASE outbox' = outbox
    BY <1>1, <1>7, <2>3 DEF RecordResult, listenerVars, DeliveryIsKnown
  <2> QED
    BY <1>7, <2>2, <2>3 DEF RecordResult
<1>8. Next => \/ UNCHANGED <<posts, outbox, lpc, sending>>
              \/ ClaimDelivery \/ SendResult \/ ConfirmDelivery
              \/ DeliveryFails \/ ListenerCrash \/ Connect
              \/ \E w \in Worker : RecordResult(w)
  BY DEF Next, WorkerStep, DeliveryStep, Post, OnMessage, OnMessageFails, AttemptAges,
       ReplayMessage, ReplayFails, Start, BeginCycle, NoLeadToClaim, Claim, Resolve,
       StartAttempt, FinishAttempt, FinishRefused, ReadReceipts, Complete, StartRefused,
       Escapes, WorkerCrash, deliveryVars, listenerVars
<1> QED
  BY <1>2, <1>3, <1>4, <1>5, <1>6, <1>7, <1>8 DEF vars, deliveryVars, listenerVars

(* Recovery resolves what it closes, and nothing reopens a resolved lead.    *)
LEMMA ResolvedStep ==
  ASSUME LeadInv, [Next]_vars
  PROVE  InterruptedLeadsAreResolved'
<1> USE DEF LeadInv, LeadTyping
<1> SUFFICES ASSUME NEW m \in Message, receipts'[m] # <<>>,
                    Last(receipts'[m]).outcome = "interrupted"
             PROVE  status'[m] \in {"failed", "completed"}
  BY DEF InterruptedLeadsAreResolved, Ledger
<1>1. CASE receipts'[m] = receipts[m]
  BY <1>1, StatusGrows DEF InterruptedLeadsAreResolved, Ledger
<1>2. CASE Recover /\ Interrupted(m)
  BY <1>2 DEF Recover, RecoveredStatus, Interrupted, IsOpen, LeadTypes, WorkIsKnown, Taken
<1>3. CASE Recover /\ ~Interrupted(m)
  BY <1>1, <1>3 DEF Recover, LeadTypes, Ledger
<1>4. ASSUME NEW w \in Worker, StartAttempt(w), receipts'[m] # receipts[m] PROVE FALSE
  <2> DEFINE r == [role |-> job[w].role, try |-> job[w].try, outcome |-> "started"]
  <2>1. m = job[w].lead /\ receipts'[m] = Append(receipts[m], r)
    BY <1>4 DEF StartAttempt, LeadTypes
  <2>2. r \in Receipt
    BY JobCounts DEF WorkTypes, Receipt, Outcomes
  <2>3. Last(receipts'[m]) = r
    BY <2>1, <2>2, AppendProperties DEF Last, LeadTypes
  <2> QED
    BY <2>3
<1>5. ASSUME NEW w \in Worker, FinishAttempt(w), receipts'[m] # receipts[m] PROVE FALSE
  <2>1. PICK o \in {"accepted", "rejected", "error"} :
          receipts' = [receipts EXCEPT ![job[w].lead] = Close(job[w].lead, o)]
    BY <1>5 DEF FinishAttempt
  <2>2. m = job[w].lead /\ receipts'[m] = Close(m, o) /\ Ledger(m) # <<>>
    BY <1>5, <2>1 DEF FinishAttempt, StillOpen, IsOpen, LeadTypes
  <2>3. Last(Close(m, o)).outcome = o
    BY <2>2, CloseTyped DEF Last, Outcomes
  <2> QED
    BY <2>2, <2>3
<1>6. \/ receipts'[m] = receipts[m] \/ Recover
      \/ \E w \in Worker : StartAttempt(w) \/ FinishAttempt(w)
  BY ReceiptWriters DEF vars, leadVars
<1> QED
  BY <1>1, <1>2, <1>3, <1>4, <1>5, <1>6

LEMMA LeadInvariant == Spec => []LeadInv
<1>1. LeadInv /\ [Next]_vars => LeadInv'
  BY TypingStep, WorkIsKnownStep, OneLeadStep, DeliveryIsKnownStep, ResolvedStep DEF LeadInv
<1> QED
  BY <1>1, LeadInvInit, PTL DEF Spec

-----------------------------------------------------------------------------
(* What a result lists *)

EarlierClosed(s) == \A i \in 1..(Len(s) - 1) : s[i].outcome # "started"

LEMMA PrefixGrows ==
  ASSUME NEW s \in Seq(Receipt), NEW i \in 1..Len(s)
  PROVE  /\ SubSeq(s, 1, i - 1) \in Seq(Receipt) /\ Len(SubSeq(s, 1, i - 1)) = i - 1
         /\ \A j \in 1..(i - 1) : SubSeq(s, 1, i - 1)[j] = s[j]
         /\ Append(SubSeq(s, 1, i - 1), s[i]) = SubSeq(s, 1, i)
<1> DEFINE a == SubSeq(s, 1, i - 1)
           b == SubSeq(s, 1, i)
<1>1. Len(s) \in Nat /\ s[i] \in Receipt
  BY ElementOfSeq
<1>2. a \in Seq(Receipt) /\ Len(a) = i - 1 /\ \A j \in 1..(i - 1) : a[j] = s[j]
  BY <1>1, SubSeqProperties, ElementOfSeq
<1>3. b \in Seq(Receipt) /\ Len(b) = i /\ \A j \in 1..i : b[j] = s[j]
  BY <1>1, SubSeqProperties, ElementOfSeq
<1> HIDE DEF a, b
<1>4. /\ Append(a, s[i]) \in Seq(Receipt) /\ Len(Append(a, s[i])) = i
      /\ \A j \in 1..i : Append(a, s[i])[j] = s[j]
  <2>1. /\ Append(a, s[i]) \in Seq(Receipt) /\ Len(Append(a, s[i])) = Len(a) + 1
        /\ Append(a, s[i])[Len(a) + 1] = s[i]
        /\ \A j \in 1..Len(a) : Append(a, s[i])[j] = a[j]
    BY <1>1, <1>2, AppendProperties
  <2> QED
    BY <1>1, <1>2, <2>1
<1>5. Append(a, s[i]) = b
  BY <1>1, <1>3, <1>4, SeqEqual
<1> QED
  BY <1>2, <1>5 DEF a, b

(* The receipts of a ledger that are closed: all of them, or all but the     *)
(* last (human_analyst_attempt_receipts).                                    *)
LEMMA CompletedIs ==
  ASSUME NEW s \in Seq(Receipt), EarlierClosed(s)
  PROVE  Completed(s) = IF s # <<>> /\ s[Len(s)].outcome = "started"
                        THEN SubSeq(s, 1, Len(s) - 1) ELSE s
<1> DEFINE n == Len(s)
           Step(f) == [i \in 0..n |->
                         IF i = 0 THEN <<>>
                         ELSE IF s[i].outcome # "started" THEN Append(f[i - 1], s[i]) ELSE f[i - 1]]
           w == [i \in 0..n |-> IF i = 0 THEN <<>>
                                ELSE IF s[i].outcome # "started" THEN SubSeq(s, 1, i)
                                ELSE SubSeq(s, 1, i - 1)]
<1>1. n \in Nat /\ SubSeq(s, 1, 0) = <<>>
  <2>1. n \in Nat
    OBVIOUS
  <2>2. SubSeq(s, 1, 0) \in Seq(Receipt) /\ Len(SubSeq(s, 1, 0)) = 0
    BY <2>1, SubSeqProperties, ElementOfSeq
  <2> QED
    BY <2>1, <2>2, EmptySeq
<1>2. \A i \in 1..n : w[i - 1] = SubSeq(s, 1, i - 1)
  <2> SUFFICES ASSUME NEW i \in 1..n PROVE w[i - 1] = SubSeq(s, 1, i - 1)
    OBVIOUS
  <2>1. CASE i = 1
    BY <1>1, <2>1
  <2>2. CASE i # 1
    <3>1. i - 1 \in 1..(n - 1) /\ i - 1 \in 0..n /\ i - 1 # 0
      BY <1>1, <2>2
    <3>2. s[i - 1].outcome # "started"
      BY <3>1 DEF EarlierClosed
    <3> QED
      BY <3>1, <3>2
  <2> QED
    BY <2>1, <2>2
<1>3. ASSUME NEW f PROVE
        /\ DOMAIN Step(f) = 0..n /\ Step(f)[0] = <<>>
        /\ \A i \in 1..n : Step(f)[i] = IF s[i].outcome # "started"
                                        THEN Append(f[i - 1], s[i]) ELSE f[i - 1]
  BY <1>1
<1>4. /\ DOMAIN w = 0..n /\ w[0] = <<>> /\ w = [i \in 0..n |-> w[i]]
      /\ \A i \in 1..n : w[i] = IF s[i].outcome # "started"
                                THEN SubSeq(s, 1, i) ELSE SubSeq(s, 1, i - 1)
  BY <1>1
<1>5. \A f : Step(f) = [i \in 0..n |-> Step(f)[i]]
  OBVIOUS
<1>6. Completed(s) = (CHOOSE f : f = Step(f))[n]
  BY DEF Completed
<1> HIDE DEF Step, w
<1>7. \A i \in 1..n : w[i] = IF s[i].outcome # "started"
                             THEN Append(w[i - 1], s[i]) ELSE w[i - 1]
  BY <1>2, <1>4, PrefixGrows
<1>8. w = Step(w)
  <2>1. \A i \in 0..n : i = 0 \/ i \in 1..n
    BY <1>1
  <2>2. w[0] = Step(w)[0] /\ \A i \in 1..n : w[i] = Step(w)[i]
    BY <1>3, <1>4, <1>7
  <2>3. \A i \in 0..n : w[i] = Step(w)[i]
    BY <2>1, <2>2
  <2> QED
    BY <1>4, <1>5, <2>3
<1>9. ASSUME NEW f, f = Step(f) PROVE f = w
  <2>1. f[0] = w[0] /\ f = [i \in 0..n |-> f[i]]
    BY <1>3, <1>4, <1>5, <1>9
  <2>2. \A i \in 1..n : f[i] = IF s[i].outcome # "started"
                               THEN Append(f[i - 1], s[i]) ELSE f[i - 1]
    BY <1>3, <1>9
  <2> DEFINE T == {i \in 0..n : f[i] = w[i]}
  <2>3. 0 \in T /\ \A i \in 1..n : i - 1 \in T => i \in T
    <3>1. 0 \in 0..n /\ \A i \in 1..n : i \in 0..n
      BY <1>1
    <3> QED
      BY <1>7, <2>1, <2>2, <3>1
  <2> HIDE DEF T
  <2>4. \A i \in 0..n : i \in T
    BY <1>1, <2>3, BoundedInduction
  <2> QED
    BY <1>4, <2>1, <2>4 DEF T
<1>10. Completed(s) = w[n]
  BY <1>6, <1>8, <1>9
<1>11. SubSeq(s, 1, n) = s /\ (s = <<>> <=> n = 0) /\ n = Len(s)
  BY EmptySeq, SubSeqFull, LenProperties
<1> HIDE DEF n
<1> QED
  BY <1>1, <1>4, <1>10, <1>11

AllClosed(s) == \A i \in 1..Len(s) : s[i].outcome # "started"

(* What the receipts r, read from the ledger s, list of it: everything, or   *)
(* everything before one attempt whose answer was never stored.              *)
Listed(r, s) ==
  \/ r = s /\ AllClosed(s)
  \/ /\ s # <<>> /\ r = SubSeq(s, 1, Len(s) - 1)
     /\ s[Len(s)].outcome \in {"started", "interrupted"}

(* The receipts of a lead and the result they are listed in.                 *)
LeadLineage(m) ==
  /\ EarlierClosed(Ledger(m))
  /\ status[m] \in {"absent", "queued"} => result[m] = NoResult
  /\ result[m] # NoResult => Listed(result[m], Ledger(m))
  /\ status[m] = "completed" => result[m] # NoResult

(* What a worker knows of its lead, stage by stage.                          *)
WorkerLineage(w) ==
  LET m == job[w].lead
      s == Ledger(m)
  IN  /\ pc[w] = "resolve" => s = <<>> /\ job[w].invoked = FALSE
      /\ pc[w] = "invoke" => job[w].invoked = TRUE /\ AllClosed(s)
      /\ pc[w] = "answer" => job[w].invoked = TRUE
      /\ pc[w] = "read" => job[w].invoked = TRUE \/ s = <<>>
      /\ pc[w] = "record" => Listed(job[w].read, s)
      /\ pc[w] = "complete" <=> result[m] # NoResult

OneWorkerPerLead ==
  \A v, w \in Worker : v # w /\ pc[v] \in Busy /\ pc[w] \in Busy => job[v].lead # job[w].lead

(* A result is delivered or waiting, and only a result is ever sent.         *)
DeliveryLineage ==
  /\ \A m \in Message : posts[m] > 0 => result[m] # NoResult
  /\ \A m \in delivered : posts[m] > 0
  /\ \A m \in Message : result[m] # NoResult <=> m \in delivered \/ m \in ToSet(outbox)
  /\ lpc \in {"send", "confirm"} => result[sending] # NoResult
  /\ lpc = "confirm" => posts[sending] > 0

LineageInv ==
  /\ LeadInv
  /\ result = [m \in Message |-> result[m]]
  /\ \A m \in Message : LeadLineage(m)
  /\ \A w \in Worker : pc[w] \in Busy => WorkerLineage(w)
  /\ OneWorkerPerLead
  /\ DeliveryLineage

(* The last attempt of a ledger is the only one that closing changes.        *)
LEMMA ClosedLedger ==
  ASSUME LeadTypes, NEW m \in Message, EarlierClosed(Ledger(m)), IsOpen(m),
         NEW o \in Outcomes \ {"started"}
  PROVE  /\ AllClosed(Close(m, o)) /\ EarlierClosed(Close(m, o))
         /\ \A r : Listed(r, Ledger(m)) /\ o = "interrupted" => Listed(r, Close(m, o))
<1> DEFINE s == Ledger(m)
           c == Close(m, o)
           n == Len(s)
<1>1. s \in Seq(Receipt) /\ s # <<>> /\ s[n].outcome = "started" /\ n \in Nat /\ n > 0
  BY EmptySeq, LenProperties DEF IsOpen, Ledger, LeadTypes, Last
<1>2. /\ c \in Seq(Receipt) /\ Len(c) = n /\ c[n].outcome = o
      /\ \A i \in 1..(n - 1) : c[i] = s[i]
  BY CloseTyped, <1>1
<1>3. c # <<>> /\ n \in 1..n
  BY <1>1, <1>2, EmptySeq
<1>4. SubSeq(c, 1, n - 1) = SubSeq(s, 1, n - 1)
  <2> DEFINE a == SubSeq(s, 1, n - 1)
             b == SubSeq(c, 1, n - 1)
  <2>1. a \in Seq(Receipt) /\ Len(a) = n - 1 /\ \A j \in 1..(n - 1) : a[j] = s[j]
    BY <1>1, <1>3, PrefixGrows
  <2>2. b \in Seq(Receipt) /\ Len(b) = n - 1 /\ \A j \in 1..(n - 1) : b[j] = c[j]
    BY <1>2, <1>3, PrefixGrows
  <2> HIDE DEF a, b
  <2>3. a = b
    BY <1>2, <2>1, <2>2, SeqEqual
  <2> QED
    BY <2>3 DEF a, b
<1>5. \A i \in 1..(n - 1) : s[i].outcome # "started"
  BY DEF EarlierClosed
<1>6. \A i \in 1..n : i = n \/ i \in 1..(n - 1)
  BY <1>1
<1> HIDE DEF s, c, n
<1>7. EarlierClosed(c) /\ AllClosed(c)
  BY <1>2, <1>5, <1>6 DEF EarlierClosed, AllClosed
<1>8. ASSUME NEW r, Listed(r, s), o = "interrupted" PROVE Listed(r, c)
  <2>1. ~AllClosed(s)
    BY <1>1, <1>3 DEF AllClosed, n
  <2>2. r = SubSeq(s, 1, n - 1)
    BY <1>8, <2>1 DEF Listed, n
  <2> QED
    BY <1>2, <1>3, <1>4, <1>8, <2>2 DEF Listed
<1> QED
  BY <1>7, <1>8 DEF s, c

(* A new attempt follows closed ones.                                        *)
LEMMA StartedLedger ==
  ASSUME NEW s \in Seq(Receipt), AllClosed(s), NEW r \in Receipt
  PROVE  EarlierClosed(Append(s, r))
<1>1. Len(s) \in Nat
  BY LenProperties
<1>2. Len(Append(s, r)) = Len(s) + 1 /\ \A i \in 1..Len(s) : Append(s, r)[i] = s[i]
  BY AppendProperties
<1>3. (Len(s) + 1) - 1 = Len(s)
  BY <1>1
<1> QED
  BY <1>2, <1>3 DEF EarlierClosed, AllClosed

(* What ReadReceipts reads is listed from the ledger it reads.               *)
LEMMA ReadIsListed ==
  ASSUME NEW s \in Seq(Receipt), EarlierClosed(s)
  PROVE  Listed(Completed(s), s)
<1>1. Len(s) \in Nat /\ \A i \in 1..Len(s) : i = Len(s) \/ i \in 1..(Len(s) - 1)
  BY LenProperties
<1>2. CASE s # <<>> /\ s[Len(s)].outcome = "started"
  BY <1>2, CompletedIs DEF Listed
<1>3. CASE ~(s # <<>> /\ s[Len(s)].outcome = "started")
  <2>1. AllClosed(s)
    <3>1. CASE s = <<>>
      BY <3>1, EmptySeq DEF AllClosed
    <3>2. CASE s # <<>>
      BY <1>1, <1>3, <3>2 DEF AllClosed, EarlierClosed
    <3> QED
      BY <3>1, <3>2
  <2> QED
    BY <1>3, <2>1, CompletedIs DEF Listed
<1> QED
  BY <1>2, <1>3

LEMMA ListedIsASequence ==
  ASSUME NEW s \in Seq(Receipt), NEW r, Listed(r, s)
  PROVE  r \in Seq(Receipt) /\ r # NoResult
<1>1. ASSUME s # <<>> PROVE SubSeq(s, 1, Len(s) - 1) \in Seq(Receipt)
  <2>1. Len(s) \in 1..Len(s)
    BY <1>1, EmptySeq, LenProperties
  <2> QED
    BY <2>1, PrefixGrows
<1> QED
  BY <1>1, NoResultAssumption DEF Listed

(* The three ways a ledger changes, and that a result is written once.       *)
LEMMA LedgerStep ==
  ASSUME LeadInv, Next, NEW m \in Message
  PROVE  \/ receipts'[m] = receipts[m]
         \/ Recover /\ IsOpen(m) /\ receipts'[m] = Close(m, "interrupted")
         \/ \E w \in Worker : StartAttempt(w) /\ job[w].lead = m
              /\ \E r \in Receipt : receipts'[m] = Append(Ledger(m), r)
         \/ \E w \in Worker : FinishAttempt(w) /\ job[w].lead = m /\ IsOpen(m)
              /\ \E o \in {"accepted", "rejected", "error"} : receipts'[m] = Close(m, o)
<1> USE DEF LeadInv, LeadTyping, LeadTypes
<1>1. CASE Recover
  BY <1>1 DEF Recover, Interrupted, Ledger
<1>2. ASSUME NEW w \in Worker, StartAttempt(w), receipts'[m] # receipts[m]
      PROVE  job[w].lead = m /\ \E r \in Receipt : receipts'[m] = Append(Ledger(m), r)
  <2> DEFINE r == [role |-> job[w].role, try |-> job[w].try, outcome |-> "started"]
  <2>1. r \in Receipt
    BY JobCounts DEF WorkTypes, Receipt, Outcomes
  <2>2. job[w].lead = m /\ receipts'[m] = Append(Ledger(m), r)
    BY <1>2 DEF StartAttempt, Ledger
  <2> QED
    BY <2>1, <2>2
<1>3. ASSUME NEW w \in Worker, FinishAttempt(w), receipts'[m] # receipts[m]
      PROVE  /\ job[w].lead = m /\ IsOpen(m)
             /\ \E o \in {"accepted", "rejected", "error"} : receipts'[m] = Close(m, o)
  <2>1. PICK o \in {"accepted", "rejected", "error"} :
          receipts' = [receipts EXCEPT ![job[w].lead] = Close(job[w].lead, o)]
    BY <1>3 DEF FinishAttempt
  <2> QED
    BY <1>3, <2>1 DEF FinishAttempt, StillOpen
<1> QED
  BY <1>1, <1>2, <1>3, ReceiptWriters

LEMMA ResultWriters ==
  ASSUME Next
  PROVE  result' = result \/ \E w \in Worker : RecordResult(w)
BY DEF Next, WorkerStep, DeliveryStep, Post, OnMessage, OnMessageFails, AttemptAges,
       Connect, ReplayMessage, ReplayFails, ClaimDelivery, SendResult, ConfirmDelivery,
       DeliveryFails, ListenerCrash, Start, BeginCycle, NoLeadToClaim, Claim, Resolve,
       StartAttempt, FinishAttempt, FinishRefused, ReadReceipts, Complete, StartRefused,
       Escapes, WorkerCrash, leadVars

(* A worker records what it read, for the lead it holds, which has no result. *)
LEMMA RecordedResult ==
  ASSUME LineageInv, NEW w \in Worker, RecordResult(w)
  PROVE  /\ job[w].lead \in Message /\ status[job[w].lead] \in Taken
         /\ result[job[w].lead] = NoResult /\ job[w].read # NoResult
         /\ Listed(job[w].read, Ledger(job[w].lead))
         /\ result' = [result EXCEPT ![job[w].lead] = job[w].read]
         /\ result'[job[w].lead] = job[w].read
         /\ outbox' = Append(outbox, job[w].lead)
         /\ receipts' = receipts /\ status' = status
<1>1. pc[w] \in Busy /\ pc[w] = "record"
  BY DEF RecordResult, Busy
<1>2. job[w].lead \in Message /\ status[job[w].lead] \in Taken
  BY <1>1 DEF LineageInv, LeadInv, LeadTyping, WorkTypes, WorkIsKnown
<1>3. Listed(job[w].read, Ledger(job[w].lead)) /\ result[job[w].lead] = NoResult
  BY <1>1 DEF LineageInv, WorkerLineage
<1>4. Ledger(job[w].lead) \in Seq(Receipt)
  BY <1>2 DEF LineageInv, LeadInv, LeadTyping, LeadTypes, Ledger
<1>5. job[w].read # NoResult
  BY <1>3, <1>4, ListedIsASequence
<1>6. /\ result' = [result EXCEPT ![job[w].lead] = job[w].read]
      /\ outbox' = Append(outbox, job[w].lead)
      /\ receipts' = receipts /\ status' = status
  BY <1>3 DEF RecordResult
<1>7. result'[job[w].lead] = job[w].read
  BY <1>2, <1>6 DEF LineageInv
<1> QED
  BY <1>2, <1>3, <1>5, <1>6, <1>7

LEMMA ResultGrows ==
  ASSUME LineageInv, Next
  PROVE  /\ result' = [m \in Message |-> result'[m]]
         /\ \A m \in Message : result[m] # NoResult => result'[m] = result[m]
         /\ \A m \in Message : result'[m] # result[m] =>
              \E w \in Worker : RecordResult(w) /\ job[w].lead = m
<1>1. CASE result' = result
  BY <1>1 DEF LineageInv
<1>2. ASSUME NEW w \in Worker, RecordResult(w)
      PROVE  /\ result' = [m \in Message |-> result'[m]]
             /\ \A m \in Message : m # job[w].lead => result'[m] = result[m]
  BY <1>2, RecordedResult DEF LineageInv
<1> QED
  BY <1>1, <1>2, RecordedResult, ResultWriters

LEMMA LeadLineageStep ==
  ASSUME LineageInv, Next, NEW m \in Message
  PROVE  LeadLineage(m)'
<1> USE DEF LineageInv, LeadInv
<1>1. LeadLineage(m) /\ Ledger(m) \in Seq(Receipt) /\ status[m] \in Statuses
  BY DEF LeadTyping, LeadTypes, Ledger
<1>2. ASSUME NEW w \in Worker, job[w].lead = m, pc[w] \in {"invoke", "answer"}
      PROVE  result[m] = NoResult
  BY <1>2 DEF WorkerLineage, Busy
<1>3. ASSUME status'[m] \in {"absent", "queued"} PROVE result'[m] = NoResult
  <2>1. status[m] \notin Taken /\ result[m] = NoResult
    BY <1>1, <1>3, StatusGrows DEF LeadLineage, Taken, Statuses
  <2> QED
    BY <2>1, ResultGrows, RecordedResult
<1>4. ASSUME status'[m] = "completed" PROVE result'[m] # NoResult
  <2>1. CASE status[m] = "completed"
    BY <1>1, <2>1, ResultGrows DEF LeadLineage
  <2>2. ASSUME NEW w \in Worker, Complete(w), status'[m] # status[m] PROVE result'[m] # NoResult
    <3>1. m = job[w].lead
      BY <2>2 DEF Complete, LeadTyping, LeadTypes
    <3>2. result[m] # NoResult
      BY <2>2, <3>1 DEF Complete, WorkerLineage, Busy
    <3> QED
      BY <3>2, ResultGrows
  <2>3. CASE Recover
    BY <1>4, <2>1, <2>3 DEF Recover, RecoveredStatus
  <2>4. ASSUME NEW w \in Worker, NEW n \in Message, Claim(w, n) PROVE status[m] = "completed"
    BY <1>4, <2>4 DEF Claim, LeadTyping, LeadTypes
  <2>5. ASSUME NEW n \in Message, EnqueueLead(n) PROVE status[m] = "completed"
    BY <1>4, <2>5 DEF EnqueueLead, LeadTyping, LeadTypes
  <2> QED
    BY <1>4, <2>1, <2>2, <2>3, <2>4, <2>5, StatusWriters
<1>5. CASE receipts'[m] = receipts[m]
  <2>1. ASSUME result'[m] # NoResult PROVE Listed(result'[m], Ledger(m))
    <3>1. CASE result'[m] = result[m]
      BY <1>1, <2>1, <3>1 DEF LeadLineage
    <3>2. ASSUME NEW w \in Worker, RecordResult(w), job[w].lead = m
          PROVE  Listed(result'[m], Ledger(m))
      BY <3>2, RecordedResult
    <3> QED
      BY <3>1, <3>2, ResultGrows
  <2> QED
    BY <1>1, <1>3, <1>4, <1>5, <2>1 DEF LeadLineage, Ledger
<1>6. CASE Recover /\ IsOpen(m) /\ receipts'[m] = Close(m, "interrupted")
  <2>1. /\ EarlierClosed(Close(m, "interrupted"))
        /\ \A r : Listed(r, Ledger(m)) => Listed(r, Close(m, "interrupted"))
    BY <1>1, <1>6, ClosedLedger DEF LeadLineage, LeadTyping, Outcomes
  <2>2. \A w \in Worker : RecordResult(w) => job[w].lead \in Message /\ receipts' = receipts
    BY RecordedResult
  <2>3. Ledger(m) # Close(m, "interrupted")
    <3>1. Last(Close(m, "interrupted")).outcome = "interrupted"
      BY <1>6, CloseTyped DEF IsOpen, LeadTyping, Last, Outcomes
    <3> QED
      BY <1>6, <3>1 DEF IsOpen
  <2>4. result'[m] = result[m]
    BY <1>6, <2>2, <2>3, ResultGrows DEF Ledger
  <2> QED
    BY <1>1, <1>3, <1>4, <1>6, <2>1, <2>4 DEF LeadLineage, Ledger
<1>7. ASSUME NEW w \in Worker, StartAttempt(w), job[w].lead = m,
             NEW r \in Receipt, receipts'[m] = Append(Ledger(m), r)
      PROVE  LeadLineage(m)'
  <2>1. result'[m] = NoResult /\ AllClosed(Ledger(m))
    BY <1>2, <1>7 DEF StartAttempt, WorkerLineage, Busy
  <2>2. EarlierClosed(receipts'[m])
    BY <1>1, <1>7, <2>1, StartedLedger
  <2> QED
    BY <1>4, <2>1, <2>2 DEF LeadLineage, Ledger
<1>8. ASSUME NEW w \in Worker, FinishAttempt(w), job[w].lead = m, IsOpen(m),
             NEW o \in {"accepted", "rejected", "error"}, receipts'[m] = Close(m, o)
      PROVE  LeadLineage(m)'
  <2>1. result'[m] = NoResult
    BY <1>2, <1>8 DEF FinishAttempt
  <2>2. EarlierClosed(receipts'[m])
    BY <1>1, <1>8, ClosedLedger DEF LeadLineage, LeadTyping, Outcomes
  <2> QED
    BY <1>4, <2>1, <2>2 DEF LeadLineage, Ledger
<1> QED
  BY <1>5, <1>6, <1>7, <1>8, LedgerStep

LEMMA JobFields ==
  ASSUME NEW j, IsJob(j)
  PROVE  /\ [j EXCEPT !.invoked = TRUE].invoked = TRUE
         /\ [j EXCEPT !.invoked = TRUE].lead = j.lead
         /\ \A s : [j EXCEPT !.read = s].read = s /\ [j EXCEPT !.read = s].lead = j.lead
BY DEF IsJob, Job

(* What a worker knows stands while the others move: nobody else writes the  *)
(* rows of its lead, and recovery only closes an attempt it left open.       *)
LEMMA OthersKeepWork ==
  ASSUME LineageInv, Next, NEW v \in Worker, pc[v] \in Busy, pc'[v] = pc[v], job'[v] = job[v]
  PROVE  WorkerLineage(v)'
<1> DEFINE m == job[v].lead
<1> USE DEF LineageInv, LeadInv
<1>1. m \in Message /\ WorkerLineage(v) /\ LeadLineage(m) /\ Ledger(m) \in Seq(Receipt)
  BY DEF LeadTyping, LeadTypes, WorkTypes, Ledger
<1>2. ~StartAttempt(v) /\ ~FinishAttempt(v) /\ ~RecordResult(v)
  BY DEF StartAttempt, FinishAttempt, Continue, NextRole, RepairTry, RecordResult, Goto,
         LeadTyping, WorkTypes
<1>3. ASSUME NEW w \in Worker, pc[w] \in Busy, job[w].lead = m PROVE w = v
  BY <1>3 DEF OneWorkerPerLead
<1>4. result'[m] = result[m]
  BY <1>1, <1>2, <1>3, ResultGrows DEF RecordResult, Busy
<1>5. \/ receipts'[m] = receipts[m]
      \/ IsOpen(m) /\ receipts'[m] = Close(m, "interrupted")
  <2>1. \A w \in Worker : StartAttempt(w) \/ FinishAttempt(w) => pc[w] \in Busy
    BY DEF StartAttempt, FinishAttempt, Busy
  <2> QED
    BY <1>1, <1>2, <1>3, <2>1, LedgerStep
<1>6. CASE receipts'[m] = receipts[m]
  BY <1>1, <1>4, <1>6 DEF WorkerLineage, Ledger
<1>7. CASE IsOpen(m) /\ receipts'[m] = Close(m, "interrupted")
  <2>1. \A r : Listed(r, Ledger(m)) => Listed(r, Close(m, "interrupted"))
    BY <1>1, <1>7, ClosedLedger DEF LeadLineage, LeadTyping, Outcomes
  <2>2. Ledger(m) # <<>> /\ ~AllClosed(Ledger(m))
    <3>1. Ledger(m) # <<>> /\ Len(Ledger(m)) \in 1..Len(Ledger(m))
      BY <1>1, <1>7, CloseTyped DEF IsOpen, LeadTyping, Outcomes
    <3> QED
      BY <1>7, <3>1 DEF IsOpen, AllClosed, Last
  <2> QED
    BY <1>1, <1>4, <1>7, <2>1, <2>2 DEF WorkerLineage, Ledger
<1> QED
  BY <1>5, <1>6, <1>7

(* What a worker knows after a step of its own.                              *)
LEMMA OwnStep ==
  ASSUME LineageInv, Next, NEW v \in Worker, pc'[v] \in Busy,
         WorkerStep(v) \/ StartRefused(v) \/ Escapes(v) \/ WorkerCrash(v)
  PROVE  WorkerLineage(v)'
<1> DEFINE m == job[v].lead
<1> USE DEF LineageInv, LeadInv
<1>1. IsJob(job[v]) /\ job = [w \in Worker |-> job[w]] /\ pc \in [Worker -> WorkerStages]
  BY DEF LeadTyping, WorkTypes
<1>2. ASSUME pc[v] \in Busy
      PROVE  m \in Message /\ WorkerLineage(v) /\ LeadLineage(m) /\ Ledger(m) \in Seq(Receipt)
  BY <1>2 DEF LeadTyping, LeadTypes, WorkTypes, Ledger
<1>3. CASE Start(v) \/ BeginCycle(v) \/ NoLeadToClaim(v) \/ Complete(v) \/ Escapes(v)
           \/ WorkerCrash(v)
  BY <1>1, <1>3 DEF Start, BeginCycle, NoLeadToClaim, Complete, Escapes, WorkerCrash, Goto, Busy
<1>4. ASSUME NEW n \in Message, Claim(v, n) PROVE WorkerLineage(v)'
  <2>1. /\ pc'[v] = "resolve" /\ job'[v].lead = n /\ job'[v].invoked = FALSE
        /\ receipts' = receipts /\ result' = result /\ status[n] = "queued"
    BY <1>1, <1>4 DEF Claim, Claimable, Goto, NoJob
  <2>2. Ledger(n) = <<>> /\ result[n] = NoResult
    BY <2>1 DEF WorkIsKnown, Taken, LeadLineage
  <2> QED
    BY <2>1, <2>2 DEF WorkerLineage, Ledger
<1>5. CASE Resolve(v)
  <2>1. pc[v] = "resolve" /\ receipts' = receipts /\ result' = result
    BY <1>5 DEF Resolve, leadVars
  <2>2. Ledger(m) = <<>> /\ result[m] = NoResult /\ AllClosed(<<>>)
    BY <1>2, <2>1, EmptySeq DEF WorkerLineage, Busy, AllClosed
  <2>3. \/ pc'[v] = "invoke" /\ job'[v] = [job[v] EXCEPT !.invoked = TRUE]
        \/ pc'[v] = "read" /\ job'[v] = job[v]
    BY <1>1, <1>5 DEF Resolve, Goto
  <2>4. job'[v].lead = m /\ (pc'[v] = "invoke" => job'[v].invoked = TRUE)
    BY <1>1, <2>3, JobFields
  <2> QED
    BY <2>1, <2>2, <2>3, <2>4 DEF WorkerLineage, Ledger
<1>6. CASE StartAttempt(v) \/ StartRefused(v) \/ FinishRefused(v)
  <2>1. /\ pc[v] \in {"invoke", "answer"} /\ pc'[v] \in {"answer", "read"}
        /\ job' = job /\ result' = result
    BY <1>1, <1>6 DEF StartAttempt, StartRefused, FinishRefused, Goto, leadVars
  <2>2. job[v].invoked = TRUE /\ result[m] = NoResult
    BY <1>2, <2>1 DEF WorkerLineage, Busy
  <2> QED
    BY <2>1, <2>2 DEF WorkerLineage
<1>7. CASE FinishAttempt(v)
  <2>1. pc[v] = "answer" /\ result' = result /\ IsOpen(m)
    BY <1>7 DEF FinishAttempt, StillOpen
  <2>2. PICK o \in {"accepted", "rejected", "error"} :
          receipts' = [receipts EXCEPT ![m] = Close(m, o)] /\ Continue(v, o)
    BY <1>7 DEF FinishAttempt
  <2>3. /\ pc'[v] \in {"invoke", "read"}
        /\ \/ job'[v] = job[v]
           \/ job'[v] = [job[v] EXCEPT !.role = job[v].role + 1, !.try = 1]
           \/ job'[v] = [job[v] EXCEPT !.try = job[v].try + 1]
    BY <1>1, <2>2 DEF Continue, NextRole, RepairTry, Goto
  <2>4. job'[v].lead = m /\ job'[v].invoked = job[v].invoked
    <3> DEFINE a == [job[v] EXCEPT !.role = job[v].role + 1, !.try = 1]
               b == [job[v] EXCEPT !.try = job[v].try + 1]
    <3>1. a.invoked = job[v].invoked /\ a.lead = m /\ b.invoked = job[v].invoked /\ b.lead = m
      BY <1>1 DEF IsJob, Job
    <3> HIDE DEF a, b
    <3>2. job'[v] = job[v] \/ job'[v] = a \/ job'[v] = b
      BY <2>3 DEF a, b
    <3> QED
      BY <3>1, <3>2
  <2>5. job[v].invoked = TRUE /\ result[m] = NoResult /\ m \in Message
    BY <1>2, <2>1 DEF WorkerLineage, Busy
  <2>6. AllClosed(Close(m, o))
    BY <1>2, <2>1, ClosedLedger DEF LeadLineage, LeadTyping, Outcomes, Busy
  <2>7. receipts'[m] = Close(m, o)
    BY <2>2, <2>5 DEF LeadTyping, LeadTypes
  <2> QED
    BY <2>1, <2>3, <2>4, <2>5, <2>6, <2>7 DEF WorkerLineage, Ledger
<1>8. CASE ReadReceipts(v)
  <2> DEFINE s == IF job[v].invoked THEN Lineage(m) ELSE <<>>
  <2>1. /\ pc[v] = "read" /\ pc'[v] = "record" /\ job'[v] = [job[v] EXCEPT !.read = s]
        /\ receipts' = receipts /\ result' = result
    BY <1>1, <1>8 DEF ReadReceipts, Goto, leadVars
  <2>2. job'[v].lead = m /\ job'[v].read = s
    BY <1>1, <2>1, JobFields
  <2>3. Listed(s, Ledger(m)) /\ result[m] = NoResult
    <3>1. CASE job[v].invoked = TRUE
      BY <1>2, <2>1, <3>1, ReadIsListed DEF Lineage, LeadLineage, WorkerLineage, Busy
    <3>2. CASE job[v].invoked # TRUE
      <4>1. Ledger(m) = <<>> /\ result[m] = NoResult
        BY <1>2, <2>1, <3>2 DEF WorkerLineage, Busy
      <4>2. AllClosed(<<>>) /\ job[v].invoked \in BOOLEAN
        BY <1>1, EmptySeq DEF AllClosed, IsJob, Job
      <4> QED
        BY <3>2, <4>1, <4>2 DEF Listed
    <3> QED
      BY <3>1, <3>2
  <2> HIDE DEF s
  <2> QED
    BY <2>1, <2>2, <2>3 DEF WorkerLineage, Ledger
<1>9. CASE RecordResult(v)
  <2>1. pc'[v] = "complete" /\ job' = job
    BY <1>1, <1>9 DEF RecordResult, Goto
  <2>2. result'[m] # NoResult
    BY <1>9, RecordedResult
  <2> QED
    BY <2>1, <2>2 DEF WorkerLineage
<1> QED
  BY <1>3, <1>4, <1>5, <1>6, <1>7, <1>8, <1>9 DEF WorkerStep

LEMMA WorkerLineageStep ==
  ASSUME LineageInv, Next, NEW v \in Worker, pc'[v] \in Busy
  PROVE  WorkerLineage(v)'
<1> USE DEF LineageInv, LeadInv, LeadTyping, WorkTypes
<1>1. CASE WorkerStep(v) \/ StartRefused(v) \/ Escapes(v) \/ WorkerCrash(v)
  BY <1>1, OwnStep
<1>2. ASSUME NEW w \in Worker, w # v,
             WorkerStep(w) \/ StartRefused(w) \/ Escapes(w) \/ WorkerCrash(w)
      PROVE  pc'[v] = pc[v] /\ job'[v] = job[v]
  BY <1>2 DEF WorkerStep, Start, BeginCycle, NoLeadToClaim, Claim, Resolve, StartAttempt,
       FinishAttempt, Continue, NextRole, RepairTry, FinishRefused, ReadReceipts, RecordResult,
       Complete, StartRefused, Escapes, WorkerCrash, Goto
<1>3. UNCHANGED workerVars
      \/ \E w \in Worker : WorkerStep(w) \/ StartRefused(w) \/ Escapes(w) \/ WorkerCrash(w)
  BY DEF Next, DeliveryStep, Post, OnMessage, OnMessageFails, AttemptAges, Connect,
         ReplayMessage, ReplayFails, ClaimDelivery, SendResult, ConfirmDelivery,
         DeliveryFails, ListenerCrash
<1> QED
  BY <1>1, <1>2, <1>3, OthersKeepWork DEF workerVars

LEMMA OneWorkerStep ==
  ASSUME LineageInv, Next
  PROVE  OneWorkerPerLead'
<1> SUFFICES ASSUME NEW v \in Worker, NEW w \in Worker, v # w, pc'[v] \in Busy, pc'[w] \in Busy
             PROVE  job'[v].lead # job'[w].lead
  BY DEF OneWorkerPerLead
<1> USE DEF LineageInv, LeadInv
<1>1. ASSUME NEW a \in Worker, NEW b \in Worker, a # b, NEW m \in Message, Claim(a, m),
             job'[a].lead = m, pc'[b] \in Busy
      PROVE  pc[b] \in Busy /\ job'[b].lead = job[b].lead /\ job[b].lead # m
  <2>1. \A n \in Message : ~Claim(b, n)
    BY <1>1 DEF Claim, Goto, LeadTyping, WorkTypes
  <2>2. pc[b] \in Busy /\ job'[b].lead = job[b].lead
    BY <1>1, <2>1, LeadIsKept
  <2>3. status[m] \notin Taken /\ status[job[b].lead] \in Taken
    BY <1>1, <2>2 DEF Claim, Claimable, Taken, WorkIsKnown
  <2> QED
    BY <2>2, <2>3
<1>2. CASE /\ pc[v] \in Busy /\ job'[v].lead = job[v].lead
           /\ pc[w] \in Busy /\ job'[w].lead = job[w].lead
  BY <1>2 DEF OneWorkerPerLead
<1> QED
  BY <1>1, <1>2, LeadIsKept

(* The elements of a queue: what rotating, appending and removing do to them. *)
LEMMA RotateElements ==
  ASSUME NEW S, NEW s \in Seq(S), s # <<>>
  PROVE  Head(s) \in ToSet(s) /\ ToSet(Append(Tail(s), Head(s))) = ToSet(s)
<1> DEFINE t == Append(Tail(s), Head(s))
<1>1. /\ Len(s) \in Nat /\ Len(s) > 0 /\ DOMAIN s = 1..Len(s) /\ Head(s) = s[1] /\ Head(s) \in S
      /\ Tail(s) \in Seq(S) /\ Len(Tail(s)) = Len(s) - 1
      /\ \A i \in 1..(Len(s) - 1) : Tail(s)[i] = s[i + 1]
  BY HeadTailProperties, LenProperties, EmptySeq
<1>2. /\ DOMAIN t = 1..Len(s) /\ t[Len(s)] = s[1]
      /\ \A i \in 1..(Len(s) - 1) : t[i] = s[i + 1]
  BY <1>1, AppendProperties, LenProperties
<1> HIDE DEF t
<1>3. ASSUME NEW i \in 1..Len(s) PROVE t[i] \in {s[k] : k \in 1..Len(s)}
  <2>1. CASE i = Len(s)
    BY <1>1, <1>2, <2>1
  <2>2. CASE i # Len(s)
    BY <1>1, <1>2, <2>2, NotLast
  <2> QED
    BY <2>1, <2>2
<1>4. ASSUME NEW k \in 1..Len(s) PROVE s[k] \in {t[i] : i \in 1..Len(s)}
  <2>1. CASE k = 1
    BY <1>1, <1>2, <2>1
  <2>2. CASE k # 1
    <3>1. k - 1 \in 1..(Len(s) - 1) /\ k - 1 \in 1..Len(s) /\ (k - 1) + 1 = k
      BY <1>1, <2>2
    <3> QED
      BY <1>2, <3>1
  <2> QED
    BY <2>1, <2>2
<1>5. ToSet(t) = {t[i] : i \in 1..Len(s)} /\ ToSet(s) = {s[k] : k \in 1..Len(s)}
  BY <1>1, <1>2 DEF ToSet
<1>6. Head(s) \in {s[k] : k \in 1..Len(s)}
  BY <1>1
<1>7. {t[i] : i \in 1..Len(s)} = {s[k] : k \in 1..Len(s)}
  BY <1>3, <1>4
<1> QED
  BY <1>5, <1>6, <1>7 DEF t

LEMMA AppendToSet ==
  ASSUME NEW S, NEW s \in Seq(S), NEW e \in S
  PROVE  ToSet(Append(s, e)) = ToSet(s) \cup {e}
<1>1. /\ Len(s) \in Nat /\ DOMAIN s = 1..Len(s) /\ DOMAIN Append(s, e) = 1..(Len(s) + 1)
      /\ Append(s, e)[Len(s) + 1] = e /\ \A i \in 1..Len(s) : Append(s, e)[i] = s[i]
  BY AppendProperties, LenProperties
<1>2. \A i : i \in 1..(Len(s) + 1) <=> i = Len(s) + 1 \/ i \in 1..Len(s)
  BY <1>1
<1> QED
  BY <1>1, <1>2 DEF ToSet

LEMMA RemoveElements ==
  ASSUME NEW S, NEW s \in Seq(S), NEW i \in DOMAIN s
  PROVE  ToSet(RemoveAt(s, i)) \subseteq ToSet(s)
         /\ ToSet(s) \subseteq ToSet(RemoveAt(s, i)) \cup {s[i]}
<1> DEFINE a == SubSeq(s, 1, i - 1)
           b == SubSeq(s, i + 1, Len(s))
           c == a \o b
<1>1. Len(s) \in Nat /\ DOMAIN s = 1..Len(s) /\ i \in 1..Len(s)
  BY LenProperties
<1>2. a \in Seq(S) /\ Len(a) = i - 1 /\ \A j \in 1..(i - 1) : a[j] = s[j]
  BY <1>1, SubSeqProperties, ElementOfSeq
<1>3. b \in Seq(S) /\ Len(b) = Len(s) - i /\ \A j \in 1..(Len(s) - i) : b[j] = s[i + j]
  BY <1>1, SubSeqProperties, ElementOfSeq
<1> HIDE DEF a, b
<1>4. /\ c \in Seq(S) /\ Len(c) = Len(a) + Len(b)
      /\ \A j \in 1..(Len(a) + Len(b)) : c[j] = IF j <= Len(a) THEN a[j] ELSE b[j - Len(a)]
  BY <1>2, <1>3, ConcatProperties
<1>5. Len(a) + Len(b) = Len(s) - 1
  BY <1>1, <1>2, <1>3
<1>6. DOMAIN c = 1..(Len(s) - 1)
  BY <1>4, <1>5, LenProperties
<1> HIDE DEF c
<1>7. ASSUME NEW k \in 1..Len(s), k # i PROVE \E j \in 1..(Len(s) - 1) : c[j] = s[k]
  <2>1. CASE k < i
    <3>1. k \in 1..(Len(s) - 1) /\ k <= Len(a) /\ k \in 1..(i - 1)
      BY <1>1, <1>2, <2>1
    <3> QED
      BY <1>2, <1>4, <1>5, <3>1
  <2>2. CASE k > i
    <3>1. /\ k - 1 \in 1..(Len(s) - 1) /\ ~(k - 1 <= Len(a))
          /\ (k - 1) - Len(a) = k - i /\ k - i \in 1..(Len(s) - i) /\ i + (k - i) = k
      BY <1>1, <1>2, <2>2
    <3> QED
      BY <1>3, <1>4, <1>5, <3>1
  <2> QED
    BY <1>1, <1>7, <2>1, <2>2
<1>8. RemoveAt(s, i) = c
  BY DEF RemoveAt, a, b, c
<1>9. \A j \in DOMAIN RemoveAt(s, i) : \E k \in DOMAIN s : RemoveAt(s, i)[j] = s[k]
  BY RemoveAtTyped
<1>10. ToSet(c) \subseteq ToSet(s)
  BY <1>8, <1>9 DEF ToSet
<1>11. ToSet(c) = {c[j] : j \in 1..(Len(s) - 1)} /\ ToSet(s) = {s[k] : k \in 1..Len(s)}
  BY <1>1, <1>6 DEF ToSet
<1>12. ToSet(s) \subseteq ToSet(c) \cup {s[i]}
  BY <1>7, <1>11
<1> QED
  BY <1>8, <1>10, <1>12

LEMMA DeliveryLineageStep ==
  ASSUME LineageInv, Next
  PROVE  DeliveryLineage'
<1> USE DEF LineageInv
<1>1. outbox \in Seq(Message) /\ posts \in [Message -> Nat] /\ delivered \subseteq Message
  BY DEF LeadInv, LeadTyping, ListenerTypes
<1>2. CASE UNCHANGED <<posts, outbox, delivered, result>> /\ (lpc' \in {"down", "ready"} \/ UNCHANGED <<lpc, sending>>)
  BY <1>2 DEF DeliveryLineage
<1>3. CASE ClaimDelivery
  <2>1. Head(outbox) \in ToSet(outbox) /\ ToSet(outbox') = ToSet(outbox)
    BY <1>1, <1>3, RotateElements DEF ClaimDelivery, Rotated
  <2>2. Head(outbox) \in Message
    BY <1>1, <1>3, HeadTailProperties DEF ClaimDelivery
  <2>3. UNCHANGED <<posts, delivered, result>> /\ sending' = Head(outbox) /\ lpc' = "send"
    BY <1>3 DEF ClaimDelivery, leadVars
  <2> QED
    BY <2>1, <2>2, <2>3 DEF DeliveryLineage
<1>4. CASE SendResult
  <2>1. /\ sending \in Message /\ result[sending] # NoResult /\ sending' = sending
        /\ UNCHANGED <<delivered, outbox, result>> /\ lpc' = "confirm"
        /\ posts' = [posts EXCEPT ![sending] = @ + 1]
    BY <1>4 DEF SendResult, leadVars, DeliveryLineage, LeadInv, LeadTyping, ListenerTypes
  <2>2. posts'[sending] > 0 /\ \A m \in Message : m # sending => posts'[m] = posts[m]
    BY <1>1, <2>1
  <2> QED
    BY <1>1, <2>1, <2>2 DEF DeliveryLineage
<1>5. CASE ConfirmDelivery
  <2>1. /\ sending \in Message /\ result[sending] # NoResult /\ posts[sending] > 0
        /\ UNCHANGED <<posts, result>> /\ lpc' = "ready" /\ delivered' = delivered \cup {sending}
    BY <1>5 DEF ConfirmDelivery, leadVars, DeliveryLineage, LeadInv, LeadTyping, ListenerTypes
  <2>2. ToSet(outbox') \subseteq ToSet(outbox) /\ ToSet(outbox) \subseteq ToSet(outbox') \cup {sending}
    BY <1>1, <1>5, RemoveElements DEF ConfirmDelivery
  <2> QED
    BY <2>1, <2>2 DEF DeliveryLineage
<1>6. ASSUME NEW w \in Worker, RecordResult(w) PROVE DeliveryLineage'
  <2>1. /\ job[w].lead \in Message /\ outbox' = Append(outbox, job[w].lead)
        /\ result'[job[w].lead] # NoResult
        /\ \A m \in Message : m # job[w].lead => result'[m] = result[m]
    BY <1>6, RecordedResult
  <2>2. ToSet(outbox') = ToSet(outbox) \cup {job[w].lead}
    BY <1>1, <2>1, AppendToSet
  <2>3. UNCHANGED <<posts, delivered, lpc, sending>>
    BY <1>6 DEF RecordResult, listenerVars
  <2>4. lpc \in {"send", "confirm"} => sending \in Message
    BY DEF LeadInv, LeadTyping, ListenerTypes
  <2>5. \A m \in Message : result[m] # NoResult => result'[m] # NoResult
    BY <2>1
  <2> QED
    BY <2>1, <2>2, <2>3, <2>4, <2>5 DEF DeliveryLineage
<1>7. \/ /\ UNCHANGED <<posts, outbox, delivered, result>>
         /\ lpc' \in {"down", "ready"} \/ UNCHANGED <<lpc, sending>>
      \/ ClaimDelivery \/ SendResult \/ ConfirmDelivery
      \/ \E w \in Worker : RecordResult(w)
  <2> DEFINE Quiet == /\ UNCHANGED <<posts, outbox, delivered, result>>
                      /\ lpc' \in {"down", "ready"} \/ UNCHANGED <<lpc, sending>>
  <2>1. ASSUME NEW m \in Message, Post(m) \/ OnMessage(m) \/ OnMessageFails(m) \/ AttemptAges(m)
        PROVE  Quiet
    BY <2>1 DEF Post, OnMessage, OnMessageFails, AttemptAges, deliveryVars, listenerVars, leadVars
  <2>2. ASSUME Connect \/ ReplayMessage \/ ReplayFails \/ DeliveryFails \/ ListenerCrash
        PROVE  Quiet
    BY <2>2 DEF Connect, ReplayMessage, ReplayFails, DeliveryFails, ListenerCrash, deliveryVars,
                listenerVars, leadVars
  <2>3. ASSUME NEW w \in Worker, WorkerStep(w) \/ StartRefused(w) \/ Escapes(w) \/ WorkerCrash(w)
        PROVE  Quiet \/ RecordResult(w)
    BY <2>3 DEF WorkerStep, Start, BeginCycle, NoLeadToClaim, Claim, Resolve, StartAttempt,
                FinishAttempt, FinishRefused, ReadReceipts, Complete, StartRefused, Escapes,
                WorkerCrash, deliveryVars, listenerVars, leadVars
  <2> HIDE DEF Quiet
  <2>4. Quiet \/ ClaimDelivery \/ SendResult \/ ConfirmDelivery \/ \E w \in Worker : RecordResult(w)
    BY <2>1, <2>2, <2>3 DEF Next, DeliveryStep
  <2> QED
    BY <2>4 DEF Quiet
<1> QED
  BY <1>2, <1>3, <1>4, <1>5, <1>6, <1>7

LEMMA LineageInvariant == Spec => []LineageInv
<1>1. Init => LineageInv
  <2> SUFFICES ASSUME Init PROVE LineageInv
    OBVIOUS
  <2>1. Len(<<>>) = 0 /\ ToSet(<<>>) = {}
    BY EmptySeq, LenProperties DEF ToSet
  <2>2. \A m \in Message : LeadLineage(m)
    BY <2>1 DEF Init, LeadLineage, EarlierClosed, Ledger
  <2>3. \A w \in Worker : pc[w] \notin Busy
    BY DEF Init, Busy
  <2>4. DeliveryLineage
    BY <2>1 DEF Init, DeliveryLineage
  <2>5. result = [m \in Message |-> result[m]]
    BY DEF Init
  <2> QED
    BY <2>2, <2>3, <2>4, <2>5, LeadInvInit DEF LineageInv, OneWorkerPerLead
<1>2. ASSUME LineageInv, [Next]_vars PROVE LineageInv'
  <2>1. LeadInv'
    BY <1>2, TypingStep, WorkIsKnownStep, OneLeadStep, DeliveryIsKnownStep, ResolvedStep
       DEF LineageInv, LeadInv
  <2>2. CASE Next
    BY <1>2, <2>1, <2>2, ResultGrows, LeadLineageStep, WorkerLineageStep, OneWorkerStep,
       DeliveryLineageStep DEF LineageInv
  <2>3. CASE UNCHANGED vars
    BY <1>2, <2>1, <2>3 DEF LineageInv, LeadLineage, WorkerLineage, OneWorkerPerLead,
       DeliveryLineage, Ledger, vars, leadVars, deliveryVars, workerVars, listenerVars
  <2> QED
    BY <1>2, <2>2, <2>3
<1> QED
  BY <1>1, <1>2, PTL DEF Spec

-----------------------------------------------------------------------------
(* Theorems *)

(* Every variable keeps its type: no interleaving of recovery and slow       *)
(* workers asks a role, or a try of a role, beyond the limits.               *)
THEOREM LeadsTypeCorrect == Spec => []TypeOK
BY LeadInvariant, TypingImpliesTypeOK, PTL DEF LeadInv

(* Of the messages that state one hypothesis only one is ever investigated   *)
(* or answered (enqueue_human_lead).                                         *)
THEOREM OneInvestigation == Spec => []InvestigatedOnce
<1>1. LeadInv => InvestigatedOnce
  <2> SUFFICES ASSUME LeadInv, NEW m \in Message, NEW n \in Message,
                      m # n, Hypothesis[m] = Hypothesis[n]
               PROVE  /\ Ledger(m) = <<>> \/ Ledger(n) = <<>>
                      /\ posts[m] = 0 \/ posts[n] = 0
    BY DEF InvestigatedOnce
  <2>1. status[m] = "absent" \/ status[n] = "absent"
    BY DEF LeadInv, OneLeadPerHypothesis
  <2>2. \A k \in Message : status[k] = "absent" => Ledger(k) = <<>> /\ posts[k] = 0
    <3> SUFFICES ASSUME NEW k \in Message, status[k] = "absent" PROVE Ledger(k) = <<>> /\ posts[k] = 0
      OBVIOUS
    <3>1. status[k] \notin Taken
      BY DEF Taken
    <3>2. Ledger(k) = <<>>
      BY <3>1 DEF LeadInv, WorkIsKnown
    <3>3. posts[k] \in Nat
      BY DEF LeadInv, LeadTyping, ListenerTypes
    <3>4. ~(posts[k] > 0)
      BY DEF LeadInv, DeliveryIsKnown
    <3> QED
      BY <3>2, <3>3, <3>4
  <2> QED
    BY <2>1, <2>2
<1> QED
  BY <1>1, LeadInvariant, PTL

(* Recovery leaves no lead behind with an attempt it closed                  *)
(* (_recover_stale_analyst_attempts).                                        *)
THEOREM RecoveryResolves == Spec => []InterruptedLeadsAreResolved
BY LeadInvariant, PTL DEF LeadInv

(* A completed attempt never changes, however late a worker answers          *)
(* (_finish_analyst_attempt).                                                *)
THEOREM AttemptsAreFinal == Spec => AttemptsCloseOnce
<1>1. LeadInv /\ [Next]_vars =>
        [\A m \in Message : \A i \in DOMAIN Ledger(m) :
           Ledger(m)[i].outcome # "started" => receipts'[m][i] = Ledger(m)[i]]_vars
  <2> SUFFICES ASSUME LeadInv, Next, NEW m \in Message, NEW i \in DOMAIN Ledger(m),
                      Ledger(m)[i].outcome # "started"
               PROVE  receipts'[m][i] = Ledger(m)[i]
    OBVIOUS
  <2> USE DEF LeadInv, LeadTyping
  <2>1. Ledger(m) \in Seq(Receipt) /\ DOMAIN Ledger(m) = 1..Len(Ledger(m)) /\ Len(Ledger(m)) \in Nat
    BY LenProperties DEF LeadTypes, Ledger
  <2>2. ASSUME IsOpen(m), NEW o \in Outcomes PROVE Close(m, o)[i] = Ledger(m)[i]
    <3>1. i # Len(Ledger(m)) /\ Ledger(m) # <<>>
      BY <2>2 DEF IsOpen, Last
    <3>2. i \in 1..(Len(Ledger(m)) - 1)
      BY <2>1, <3>1
    <3> QED
      BY <3>1, <3>2, CloseTyped
  <2>3. CASE receipts'[m] = receipts[m]
    BY <2>3 DEF Ledger
  <2>4. CASE Recover
    BY <2>2, <2>4 DEF Recover, Interrupted, Outcomes, LeadTypes, Ledger
  <2>5. ASSUME NEW w \in Worker, StartAttempt(w), receipts'[m] # receipts[m]
        PROVE  receipts'[m][i] = Ledger(m)[i]
    <3> DEFINE r == [role |-> job[w].role, try |-> job[w].try, outcome |-> "started"]
    <3>1. receipts'[m] = Append(Ledger(m), r)
      BY <2>5 DEF StartAttempt, LeadTypes, Ledger
    <3>2. r \in Receipt
      BY <2>5, JobCounts DEF WorkTypes, Receipt, Outcomes
    <3> QED
      BY <2>1, <3>1, <3>2, AppendProperties
  <2>6. ASSUME NEW w \in Worker, FinishAttempt(w), receipts'[m] # receipts[m]
        PROVE  receipts'[m][i] = Ledger(m)[i]
    <3>1. PICK o \in {"accepted", "rejected", "error"} :
            receipts' = [receipts EXCEPT ![job[w].lead] = Close(job[w].lead, o)]
      BY <2>6 DEF FinishAttempt
    <3>2. m = job[w].lead /\ receipts'[m] = Close(m, o) /\ IsOpen(m)
      BY <2>6, <3>1 DEF FinishAttempt, StillOpen, LeadTypes
    <3> QED
      BY <2>2, <3>2 DEF Outcomes
  <2> QED
    BY <2>3, <2>4, <2>5, <2>6, ReceiptWriters
<1> QED
  BY <1>1, LeadInvariant, PTL DEF Spec, AttemptsCloseOnce

(* A result lists, in order, the attempts closed when it was written, all of *)
(* them but one whose answer was never stored, and they stand as it lists    *)
(* them ever after (human_analyst_attempt_receipts, migration 0012).         *)
THEOREM ResultsStandByTheirAttempts == Spec => []LineageStands
<1>1. LineageInv => LineageStands
  <2> SUFFICES ASSUME LineageInv, NEW m \in Message, result[m] # NoResult
               PROVE  /\ IsPrefix(result[m], Ledger(m))
                      /\ Len(Ledger(m)) <= Len(result[m]) + 1
                      /\ Len(Ledger(m)) > Len(result[m]) =>
                           Last(Ledger(m)).outcome \in {"started", "interrupted"}
    BY DEF LineageStands
  <2> DEFINE s == Ledger(m)
             r == result[m]
  <2>1. s \in Seq(Receipt) /\ Listed(r, s)
    BY DEF LineageInv, LeadInv, LeadTyping, LeadTypes, LeadLineage, Ledger
  <2> HIDE DEF s, r
  <2>2. CASE r = s
    <3>1. Len(s) \in Nat /\ IsPrefix(s, s)
      BY <2>1, LenProperties, SubSeqFull DEF IsPrefix
    <3> QED
      BY <2>2, <3>1 DEF s, r
  <2>3. CASE s # <<>> /\ r = SubSeq(s, 1, Len(s) - 1) /\ s[Len(s)].outcome \in {"started", "interrupted"}
    <3>1. Len(s) \in Nat /\ Len(s) \in 1..Len(s)
      BY <2>1, <2>3, EmptySeq, LenProperties
    <3>2. r \in Seq(Receipt) /\ Len(r) = Len(s) - 1 /\ \A j \in 1..(Len(s) - 1) : r[j] = s[j]
      BY <2>1, <2>3, <3>1, PrefixGrows
    <3>3. Len(r) <= Len(s) /\ Len(s) <= Len(r) + 1 /\ Last(s) = s[Len(s)]
      BY <3>1, <3>2 DEF Last
    <3>4. IsPrefix(r, s)
      BY <2>3, <3>2, <3>3 DEF IsPrefix
    <3> QED
      BY <2>3, <3>3, <3>4 DEF s, r
  <2> QED
    BY <2>1, <2>2, <2>3 DEF Listed
<1> QED
  BY <1>1, LineageInvariant, PTL

(* Only recorded results reach the channel, no completed lead lacks one, and *)
(* each is delivered or still waiting: a restart of the listener loses none  *)
(* (record_human_result, claim_human_result_delivery).                       *)
THEOREM ResultsReachTheChannel == Spec => []DeliveriesFollowResults
<1>1. LineageInv => DeliveriesFollowResults
  BY DEF LineageInv, LeadLineage, DeliveryLineage, DeliveriesFollowResults
<1> QED
  BY <1>1, LineageInvariant, PTL
=============================================================================
