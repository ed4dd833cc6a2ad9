-------------------------- MODULE NotificationsProofs --------------------------
(***************************************************************************)
(* Proofs about Notifications, for every number of briefs and every finite  *)
(* set of processes.                                                        *)
(*                                                                         *)
(* PostedOncePerProcess is not inductive: it does not say who posted.  The  *)
(* strengthening charges each post of a brief to a process that remembers   *)
(* it or to a crash that made a process forget it.  What the batch of a     *)
(* process holds does not matter to it; only type correctness speaks of it.  *)
(***************************************************************************)
EXTENDS Notifications, FiniteSetTheorems, SequenceTheorems, InductionLemmas, TLAPS

Stages == {"down", "cycle", "check", "send", "record"}

PassTypes ==
  /\ pc \in [Worker -> Stages]
  /\ batch = [w \in Worker |-> batch[w]]

PostTypes ==
  /\ posts \in [Brief -> Nat]
  /\ crashes \in Nat
  /\ suppressed = [w \in Worker |-> suppressed[w]]

(* The processes whose notifier holds the key of the brief.                  *)
Remembers(b) == {w \in Worker : b \in suppressed[w]}

PostsAreCharged == \A b \in Brief : posts[b] <= crashes + Cardinality(Remembers(b))

(* A process that ended has no memory.                                       *)
MemoryIsAlive == \A w \in Worker : suppressed[w] # {} => pc[w] # "down"

PostInv == PassTypes /\ PostTypes /\ PostsAreCharged /\ MemoryIsAlive

LEMMA RememberedIsFinite ==
  ASSUME NEW b
  PROVE  IsFiniteSet(Remembers(b)) /\ Cardinality(Remembers(b)) \in Nat
<1>1. Remembers(b) \in SUBSET Worker
  BY DEF Remembers
<1>2. IsFiniteSet(Remembers(b))
  BY <1>1, FS_Subset, NotificationAssumption
<1> QED
  BY <1>2, FS_CardinalityType

LEMMA PostInvInit == Init => PostInv
<1> SUFFICES ASSUME Init PROVE PostInv
  OBVIOUS
<1>1. PassTypes /\ PostTypes /\ MemoryIsAlive
  BY DEF Init, PassTypes, PostTypes, MemoryIsAlive, Stages
<1>2. ASSUME NEW b \in Brief PROVE posts[b] <= crashes + Cardinality(Remembers(b))
  BY RememberedIsFinite DEF Init
<1> QED
  BY <1>1, <1>2 DEF PostInv, PostsAreCharged

-----------------------------------------------------------------------------
(* The inductive step *)

(* Every action but Settle and Crash leaves what is posted and remembered.  *)
LEMMA OnlySettleAndCrash ==
  ASSUME Next, ~(\E w \in Worker : Settle(w) \/ Crash(w))
  PROVE  UNCHANGED <<posts, suppressed, crashes>>
BY DEF Next, WorkerStep, Publish, Start, BeginPass, EndPass, Check, Duplicate, Defer, Refuse,
       Record, RecordFails, AbandonPass, workerVars, faultVars

LEMMA PassTypesStep ==
  ASSUME PassTypes, [Next]_vars
  PROVE  PassTypes'
<1>1. ASSUME NEW w \in Worker, WorkerStep(w) PROVE PassTypes'
  <2>1. CASE Start(w) \/ BeginPass(w) \/ EndPass(w)
    BY <2>1 DEF Start, BeginPass, EndPass, Goto, PassTypes, Stages
  <2>2. CASE Check(w)
    BY <2>2 DEF Check, Goto, PassTypes, Stages
  <2>3. CASE Duplicate(w) \/ Settle(w) \/ Defer(w) \/ Refuse(w)
    BY <2>3 DEF Duplicate, Settle, Defer, Refuse, Return, Goto, PassTypes, Stages
  <2>4. CASE Record(w) \/ RecordFails(w)
    BY <2>4 DEF Record, RecordFails, AbandonPass, Goto, PassTypes, Stages
  <2> QED
    BY <1>1, <2>1, <2>2, <2>3, <2>4 DEF WorkerStep
<1>2. ASSUME NEW w \in Worker, Crash(w) PROVE PassTypes'
  BY <1>2 DEF Crash, AbandonPass, Goto, PassTypes, Stages
<1>3. CASE Publish \/ UNCHANGED vars
  BY <1>3 DEF Publish, PassTypes, workerVars, vars
<1> QED
  BY <1>1, <1>2, <1>3 DEF Next

(* A process starts to remember only when it sends, and forgets when it ends *)
LEMMA MemoryStep ==
  ASSUME PassTypes, PostTypes, MemoryIsAlive, [Next]_vars
  PROVE  MemoryIsAlive'
<1>1. CASE \E w \in Worker : Settle(w)
  <2>1. PICK w \in Worker : Settle(w)
    BY <1>1
  <2>2. \A v \in Worker \ {w} : suppressed'[v] = suppressed[v] /\ pc'[v] = pc[v]
    BY <2>1 DEF Settle, Return, Goto, PostTypes, PassTypes
  <2>3. pc'[w] = "record"
    BY <2>1 DEF Settle, Return, Goto, PassTypes
  <2> QED
    BY <2>2, <2>3 DEF MemoryIsAlive
<1>2. CASE \E w \in Worker : Crash(w)
  <2>1. PICK w \in Worker : Crash(w)
    BY <1>2
  <2>2. \A v \in Worker \ {w} : suppressed'[v] = suppressed[v] /\ pc'[v] = pc[v]
    BY <2>1 DEF Crash, Goto, PostTypes, PassTypes
  <2>3. suppressed'[w] = {}
    BY <2>1 DEF Crash, PostTypes
  <2> QED
    BY <2>2, <2>3 DEF MemoryIsAlive
<1>3. CASE Next /\ ~(\E w \in Worker : Settle(w) \/ Crash(w))
  <2>1. suppressed' = suppressed
    BY <1>3, OnlySettleAndCrash
  <2>2. \A v \in Worker : pc[v] # "down" => pc'[v] # "down"
    BY <1>3 DEF Next, WorkerStep, Publish, Start, BeginPass, EndPass, Check, Duplicate, Defer,
                Refuse, Return, Record, RecordFails, Goto, PassTypes, workerVars
  <2> QED
    BY <2>1, <2>2 DEF MemoryIsAlive
<1>4. CASE UNCHANGED vars
  BY <1>4 DEF MemoryIsAlive, vars, workerVars
<1> QED
  BY <1>1, <1>2, <1>3, <1>4

(* A post is charged to the process that sent it, and a crash takes over    *)
(* the charges of the process it ended.                                     *)
LEMMA ChargeStep ==
  ASSUME PassTypes, PostTypes, PostsAreCharged, [Next]_vars
  PROVE  PostTypes' /\ PostsAreCharged'
<1>1. CASE \E w \in Worker : Settle(w)
  <2>1. PICK w \in Worker : Settle(w)
    BY <1>1
  <2> DEFINE b == Head(batch[w])
  <2>2. PICK row \in TerminalRows, accepted \in {0, 1} :
          /\ posts' = [posts EXCEPT ![b] = @ + accepted]
          /\ suppressed' = [suppressed EXCEPT ![w] =
                               IF Suppresses(row) THEN @ \cup {b} ELSE @]
    BY <2>1 DEF Settle
  <2>3. b \notin suppressed[w] /\ crashes' = crashes
    BY <2>1 DEF Settle, faultVars
  <2>4. suppressed' = [suppressed EXCEPT ![w] = @ \cup {b}]
    BY <2>2 DEF Suppresses
  <2> HIDE DEF b
  <2>5. PostTypes'
    <3>1. posts' \in [Brief -> Nat]
      <4>1. posts' = [c \in Brief |-> IF c = b THEN posts[c] + accepted ELSE posts[c]]
        BY <2>2 DEF PostTypes
      <4> QED
        BY <4>1 DEF PostTypes
    <3>2. crashes' \in Nat
      BY <2>3 DEF PostTypes
    <3>3. suppressed' = [v \in Worker |-> suppressed'[v]]
      BY <2>4 DEF PostTypes
    <3> QED
      BY <3>1, <3>2, <3>3 DEF PostTypes
  <2>6. ASSUME NEW c \in Brief PROVE posts'[c] <= crashes' + Cardinality(Remembers(c)')
    <3>1. CASE c # b
      <4>1. posts'[c] = posts[c] /\ Remembers(c)' = Remembers(c)
        BY <2>2, <2>4, <3>1 DEF PostTypes, Remembers
      <4> QED
        BY <4>1, <2>3 DEF PostsAreCharged
    <3>2. CASE c = b
      <4>1. posts'[c] <= posts[c] + 1 /\ posts[c] \in Nat /\ posts'[c] \in Nat
        BY <2>2, <3>2 DEF PostTypes
      <4>2. Remembers(c)' = Remembers(c) \cup {w} /\ w \notin Remembers(c)
        BY <2>3, <2>4, <3>2 DEF PostTypes, Remembers
      <4>3. Cardinality(Remembers(c)') = Cardinality(Remembers(c)) + 1
        BY <4>2, RememberedIsFinite, FS_AddElement
      <4> QED
        BY <4>1, <4>3, <2>3, RememberedIsFinite DEF PostsAreCharged, PostTypes
    <3> QED
      BY <3>1, <3>2
  <2> QED
    BY <2>5, <2>6 DEF PostsAreCharged
<1>2. CASE \E w \in Worker : Crash(w)
  <2>1. PICK w \in Worker : Crash(w)
    BY <1>2
  <2>2. /\ posts' = posts /\ crashes' = crashes + 1
        /\ suppressed' = [suppressed EXCEPT ![w] = {}]
    BY <2>1 DEF Crash, AbandonPass
  <2>3. PostTypes'
    <3>1. posts' \in [Brief -> Nat] /\ crashes' \in Nat
      BY <2>2 DEF PostTypes
    <3>2. suppressed' = [v \in Worker |-> suppressed'[v]]
      BY <2>2 DEF PostTypes
    <3> QED
      BY <3>1, <3>2 DEF PostTypes
  <2>4. ASSUME NEW c \in Brief PROVE posts'[c] <= crashes' + Cardinality(Remembers(c)')
    <3>1. Remembers(c)' = Remembers(c) \ {w}
      BY <2>2 DEF PostTypes, Remembers
    <3>2. Cardinality(Remembers(c)') >= Cardinality(Remembers(c)) - 1
      BY <3>1, RememberedIsFinite, FS_RemoveElement
    <3>3. Cardinality(Remembers(c)') \in Nat
      BY <3>1, RememberedIsFinite, FS_RemoveElement, FS_CardinalityType
    <3> QED
      BY <2>2, <3>2, <3>3, RememberedIsFinite DEF PostsAreCharged, PostTypes
  <2> QED
    BY <2>3, <2>4 DEF PostsAreCharged
<1>3. CASE UNCHANGED <<posts, suppressed, crashes>>
  BY <1>3 DEF PostTypes, PostsAreCharged, Remembers
<1>4. UNCHANGED vars => UNCHANGED <<posts, suppressed, crashes>>
  BY DEF vars, workerVars, faultVars
<1> QED
  BY <1>1, <1>2, <1>3, <1>4, OnlySettleAndCrash

(* The invariant holds throughout.                                          *)
LEMMA PostInvariant == Spec => []PostInv
<1>1. PostInv /\ [Next]_vars => PostInv'
  BY PassTypesStep, MemoryStep, ChargeStep DEF PostInv
<1> QED
  BY <1>1, PostInvInit, PTL DEF Spec

-----------------------------------------------------------------------------
(* Types *)

(* A worker that sends or records holds a brief, and one that records holds  *)
(* what the notifier returned for it.                                        *)
WorkTypes ==
  /\ pc \in [Worker -> Stages]
  /\ batch \in [Worker -> Seq(Brief)]
  /\ tries \in [Worker -> 0..(MaxAttempts - 1)]
  /\ outcome \in [Worker -> Rows \cup {NoOutcome}]
  /\ suppressed \in [Worker -> SUBSET Brief]
  /\ \A w \in Worker :
       /\ Len(batch[w]) <= Limit
       /\ pc[w] \in {"send", "record"} => batch[w] # <<>>
       /\ pc[w] = "record" => outcome[w] \in Rows

LedgerTypes ==
  /\ published \in 0..MaxBriefs
  /\ recorded \in [Brief -> SUBSET Rows]
  /\ posts \in [Brief -> Nat]
  /\ crashes \in 0..MaxCrashes /\ faults \in 0..MaxFaults

Typing == WorkTypes /\ LedgerTypes

(* The pass reads at most Limit briefs, whatever rows the ledger holds.      *)
LEMMA PendingTyped ==
  ASSUME LedgerTypes
  PROVE  Pending \in Seq(Brief) /\ Len(Pending) <= Limit
<1> DEFINE n == published
           S == {s \in Seq(Brief) : Len(s) <= Limit}
           Next1(i, s) == IF ~Settled(i) /\ Len(s) < Limit THEN Append(s, i) ELSE s
           Step(f) == [b \in 0..n |-> IF b = 0 THEN <<>>
                                      ELSE IF ~Settled(b) /\ Len(f[b - 1]) < Limit
                                           THEN Append(f[b - 1], b) ELSE f[b - 1]]
           g == [i \in 1..n |-> [s \in S |-> Next1(i, s)]]
<1>1. n \in Nat /\ Limit \in Nat \ {0} /\ \A i \in 1..n : i \in Brief
  BY NotificationAssumption DEF LedgerTypes, Brief
<1>2. <<>> \in S
  BY <1>1, EmptySeq, LenProperties
<1>3. ASSUME NEW i \in 1..n, NEW s \in S PROVE Next1(i, s) \in S
  <2>1. Append(s, i) \in Seq(Brief) /\ Len(Append(s, i)) = Len(s) + 1 /\ Len(s) \in Nat
    BY <1>1, AppendProperties, LenProperties
  <2> QED
    BY <1>1, <2>1
<1>4. \A f : /\ Step(f) = [b \in 0..n |-> Step(f)[b]]
             /\ Step(f)[0] = <<>>
             /\ \A i \in 1..n : Step(f)[i] = Next1(i, f[i - 1])
  BY <1>1
<1>5. Pending = (CHOOSE f : f = Step(f))[n]
  BY DEF Pending
<1> HIDE DEF S, Step, Next1
<1>6. g \in [1..n -> [S -> S]] /\ \A i \in 1..n, s \in S : g[i][s] = Next1(i, s)
  BY <1>3
<1> HIDE DEF g
<1>7. PICK f \in [0..n -> S] : f[0] = <<>> /\ \A i \in 1..n : f[i] = g[i][f[i - 1]]
  <2>1. n \in Nat /\ <<>> \in S /\ g \in [1..n -> [S -> S]]
    BY <1>1, <1>2, <1>6
  <2>2. PICK f : SolvesRecursion(f, n, S, <<>>, g)
    BY <2>1, RecursionSolved
  <2> QED
    BY <2>2 DEF SolvesRecursion
<1>8. f = Step(f)
  <2>1. ASSUME NEW i \in 1..n PROVE f[i] = Step(f)[i]
    <3>1. f[i - 1] \in S
      BY <1>1, <1>7
    <3> QED
      BY <1>4, <1>6, <1>7, <3>1
  <2>2. \A i \in 0..n : i = 0 \/ i \in 1..n
    BY <1>1
  <2>3. \A i \in 0..n : f[i] = Step(f)[i]
    BY <1>4, <1>7, <2>1, <2>2
  <2>4. f = [i \in 0..n |-> f[i]] /\ Step(f) = [i \in 0..n |-> Step(f)[i]]
    BY <1>4, <1>7
  <2> QED
    BY <2>3, <2>4
<1>9. PICK w : w = Step(w) /\ Pending = w[n]
  BY <1>5, <1>8
<1>10. w[0] = <<>> /\ \A i \in 1..n : w[i] = Next1(i, w[i - 1])
  BY <1>4, <1>9
<1> DEFINE T == {i \in 0..n : w[i] \in S}
<1>11. 0 \in T /\ \A i \in 1..n : i - 1 \in T => i \in T
  <2>1. 0 \in 0..n /\ \A i \in 1..n : i \in 0..n
    BY <1>1
  <2> QED
    BY <1>2, <1>3, <1>10, <2>1
<1> HIDE DEF T
<1>12. n \in T
  BY <1>1, <1>11, BoundedInduction
<1> QED
  BY <1>9, <1>12 DEF T, S

LEMMA TypingStep ==
  ASSUME Typing, [Next]_vars
  PROVE  Typing'
<1> USE NotificationAssumption DEF Typing, WorkTypes, LedgerTypes
<1>1. ASSUME NEW w \in Worker, batch[w] # <<>>
      PROVE  /\ Head(batch[w]) \in Brief /\ Tail(batch[w]) \in Seq(Brief)
             /\ Len(Tail(batch[w])) <= Limit
  <2>1. batch[w] \in Seq(Brief) /\ Len(batch[w]) \in Nat /\ Len(batch[w]) <= Limit
    BY LenProperties
  <2>2. /\ Head(batch[w]) \in Brief /\ Tail(batch[w]) \in Seq(Brief)
        /\ Len(Tail(batch[w])) = Len(batch[w]) - 1
    BY <1>1, <2>1, HeadTailProperties
  <2> QED
    BY <2>1, <2>2
<1>2. <<>> \in Seq(Brief) /\ Len(<<>>) <= Limit
  BY EmptySeq, LenProperties
<1>3. ASSUME NEW w \in Worker, WorkerStep(w) PROVE Typing'
  <2>1. CASE Start(w) \/ EndPass(w)
    BY <2>1 DEF Start, EndPass, Goto, Stages, faultVars
  <2>2. CASE BeginPass(w)
    <3>1. Pending \in Seq(Brief) /\ Len(Pending) <= Limit
      BY PendingTyped
    <3> QED
      BY <2>2, <3>1 DEF BeginPass, Goto, Stages, faultVars
  <2>3. CASE Check(w)
    BY <1>1, <2>3 DEF Check, Goto, Stages, faultVars
  <2>4. CASE Duplicate(w) \/ Refuse(w)
    <3>1. /\ pc[w] = "send" /\ Return(w, "unsettled") /\ "unsettled" \in Rows
          /\ UNCHANGED <<published, recorded, posts, batch, suppressed, faultVars>>
      BY <2>4 DEF Duplicate, Refuse, Rows
    <3>2. /\ pc' = [pc EXCEPT ![w] = "record"] /\ tries' = [tries EXCEPT ![w] = 0]
          /\ outcome' = [outcome EXCEPT ![w] = "unsettled"] /\ 0 \in 0..(MaxAttempts - 1)
      BY <3>1 DEF Return, Goto
    <3> QED
      BY <3>1, <3>2 DEF Stages, faultVars
  <2>5. CASE Settle(w)
    BY <1>1, <2>5 DEF Settle, Return, Goto, Stages, Rows, faultVars
  <2>6. CASE Defer(w)
    BY <2>6 DEF Defer, faultVars
  <2>7. CASE Record(w)
    BY <1>1, <2>7 DEF Record, Goto, Stages, faultVars
  <2>8. CASE RecordFails(w)
    BY <1>2, <2>8 DEF RecordFails, AbandonPass, Goto, Stages
  <2> QED
    BY <1>3, <2>1, <2>2, <2>3, <2>4, <2>5, <2>6, <2>7, <2>8 DEF WorkerStep
<1>4. ASSUME NEW w \in Worker, Crash(w) PROVE Typing'
  BY <1>2, <1>4 DEF Crash, AbandonPass, Goto, Stages
<1>5. CASE Publish \/ UNCHANGED vars
  BY <1>5 DEF Publish, workerVars, faultVars, vars
<1> QED
  BY <1>3, <1>4, <1>5 DEF Next

-----------------------------------------------------------------------------
(* Theorems *)

(* Every variable keeps its type: a pass never holds more than Limit briefs, *)
(* and a worker that sends always has one to send.                           *)
THEOREM NotificationsTypeCorrect == Spec => []TypeOK
<1>1. Init => Typing
  BY NotificationAssumption, EmptySeq, LenProperties
     DEF Init, Typing, WorkTypes, LedgerTypes, Stages, Rows
<1>2. Typing /\ [Next]_vars => Typing'
  BY TypingStep
<1>3. Typing => TypeOK
  <2> SUFFICES ASSUME Typing PROVE TypeOK
    OBVIOUS
  <2>1. \A w \in Worker : ToSet(batch[w]) \subseteq Brief
    BY ElementOfSeq, LenProperties DEF Typing, WorkTypes, ToSet
  <2> QED
    BY <2>1 DEF Typing, WorkTypes, LedgerTypes, TypeOK, Stages
<1> QED
  BY <1>1, <1>2, <1>3, PTL DEF Spec

(* Whatever the number of processes, and however their inserts into the     *)
(* ledger fail or race, Discord accepts a brief at most once per running    *)
(* process and once more per crash (_suppressed_keys of DiscordNotifier).   *)
THEOREM PostsSafe == Spec => []PostedOncePerProcess
<1>1. PostInv => PostedOncePerProcess
  <2> SUFFICES ASSUME PostInv, NEW b \in Brief
               PROVE  posts[b] <= crashes + Cardinality({w \in Worker : pc[w] # "down"})
    BY DEF PostedOncePerProcess
  <2> DEFINE alive == {w \in Worker : pc[w] # "down"}
  <2>1. Remembers(b) \in SUBSET alive
    BY DEF Remembers, PostInv, MemoryIsAlive
  <2>2. IsFiniteSet(alive)
    BY FS_Subset, NotificationAssumption
  <2>3. Cardinality(Remembers(b)) <= Cardinality(alive) /\ Cardinality(alive) \in Nat
    BY <2>1, <2>2, FS_Subset, FS_CardinalityType
  <2>4. posts[b] <= crashes + Cardinality(Remembers(b)) /\ posts[b] \in Nat /\ crashes \in Nat
    BY DEF PostInv, PostsAreCharged, PostTypes
  <2> QED
    BY <2>3, <2>4, RememberedIsFinite
<1> QED
  BY <1>1, PostInvariant, PTL

(* No process starts to send a brief that has a terminal row, not even one  *)
(* whose batch was read before another process wrote the row                *)
(* (notification_is_terminal before each send).                             *)
THEOREM SettledIsQuiet == Spec => SettledStaysQuiet
<1>1. PostInv /\ [Next]_vars =>
        [\A b \in Brief, w \in Worker : HasTerminalRow(b) /\ Sending(w, b)' => Sending(w, b)]_vars
  <2> SUFFICES ASSUME PostInv, Next, NEW b \in Brief, NEW w \in Worker,
                      HasTerminalRow(b), Sending(w, b)'
               PROVE  Sending(w, b)
    BY DEF vars
  <2> USE DEF PostInv, PassTypes, Sending
  <2>1. ASSUME NEW v \in Worker, v # w, WorkerStep(v) \/ Crash(v) PROVE Sending(w, b)
    <3>1. pc'[w] = pc[w] /\ batch'[w] = batch[w]
      BY <2>1 DEF WorkerStep, Start, BeginPass, EndPass, Check, Duplicate, Settle, Defer, Refuse,
                  Return, Record, RecordFails, Crash, AbandonPass, Goto
    <3> QED
      BY <3>1
  <2>2. CASE Check(w)
    <3>1. ~Settled(Head(batch[w])) /\ batch'[w] = batch[w]
      BY <2>2 DEF Check, Goto
    <3> QED
      BY <3>1 DEF Settled, HasTerminalRow
  <2>3. CASE Defer(w)
    BY <2>3 DEF Defer
  <2>4. CASE Start(w) \/ BeginPass(w) \/ EndPass(w) \/ Duplicate(w) \/ Settle(w) \/ Refuse(w)
              \/ Record(w) \/ RecordFails(w) \/ Crash(w)
    <3>1. pc'[w] # "send"
      BY <2>4 DEF Start, BeginPass, EndPass, Duplicate, Settle, Refuse, Return, Record,
                  RecordFails, Crash, Goto
    <3> QED
      BY <3>1
  <2>5. CASE Publish
    BY <2>5 DEF Publish, workerVars
  <2> QED
    BY <2>1, <2>2, <2>3, <2>4, <2>5 DEF Next, WorkerStep
<1> QED
  BY <1>1, PostInvariant, PTL DEF Spec, SettledStaysQuiet
=============================================================================
