---------------------------- MODULE BoundedRetries ----------------------------
(***************************************************************************)
(* What a queue of jobs with a limited number of attempts promises, however *)
(* many processes hold a job at once and whatever they lose: attempts are   *)
(* spent one by one, the last of them on a result; a result is given once   *)
(* and stands; and what is kept for ever of a job is written in the step    *)
(* that gives the result, and is the result it names.                       *)
(***************************************************************************)
EXTENDS Naturals

CONSTANTS
  Job,
  AttemptLimit,
  Result,      (* how a job may end                                        *)
  Exhausting,  (* the results only the last attempt has                    *)
  Recorded     (* the results of which a record is kept                    *)

VARIABLES spent, result, record

Init ==
  /\ spent = [j \in Job |-> 0]
  /\ result = [j \in Job |-> "none"]
  /\ record = [j \in Job |-> "none"]

(* The next attempt of an open job; it is one of the AttemptLimit.           *)
Spend(j) ==
  /\ result[j] = "none"
  /\ spent[j] < AttemptLimit
  /\ spent' = [spent EXCEPT ![j] = @ + 1]

(* Only an attempt that is not the last leaves the job open.                 *)
Retry(j) ==
  /\ Spend(j)
  /\ spent'[j] < AttemptLimit
  /\ UNCHANGED <<result, record>>

End(j, r) ==
  /\ Spend(j)
  /\ r \in Exhausting => spent'[j] = AttemptLimit
  /\ result' = [result EXCEPT ![j] = r]
  /\ record' = IF r \in Recorded THEN [record EXCEPT ![j] = r] ELSE record

Next == \E j \in Job : Retry(j) \/ \E r \in Result : End(j, r)

Spec == Init /\ [][Next]_<<spent, result, record>>
=============================================================================
