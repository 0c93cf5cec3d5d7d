----------------------------- MODULE LeasedWork -----------------------------
(***************************************************************************)
(* What the job queue promises those who post jobs, with tables, tokens,   *)
(* clocks and processes left out.  A posted job is worked on by at most    *)
(* one authoritative holder at a time and granted at most MaxAttempts      *)
(* times; only its holder can make it succeed; its result, once decided,   *)
(* stands.  Without a holder a job can only be withdrawn, or given up when *)
(* its grants are used up.  (State-machine contract, sections 1 and 2.)    *)
(***************************************************************************)
EXTENDS Naturals

CONSTANTS Jobs, Workers, MaxAttempts, None

VARIABLES
  holder,  \* who may act for the job now, or None
  grants,  \* how often the job has been handed out
  result   \* "absent", "undecided", or how the job ended

work == <<holder, grants, result>>

Init ==
  /\ holder = [j \in Jobs |-> None]
  /\ grants = [j \in Jobs |-> 0]
  /\ result = [j \in Jobs |-> "absent"]

Post(j) ==
  /\ result[j] = "absent"
  /\ result' = [result EXCEPT ![j] = "undecided"]
  /\ UNCHANGED <<holder, grants>>

Grant(j, w) ==
  /\ result[j] = "undecided" /\ holder[j] = None /\ grants[j] < MaxAttempts
  /\ \A k \in Jobs : holder[k] # w
  /\ holder' = [holder EXCEPT ![j] = w]
  /\ grants' = [grants EXCEPT ![j] = @ + 1]
  /\ UNCHANGED result

\* The holder gives the job back, its time runs out, or it dies.
Lose(w) ==
  /\ \E j \in Jobs : holder[j] = w
  /\ holder' = [j \in Jobs |-> IF holder[j] = w THEN None ELSE holder[j]]
  /\ UNCHANGED <<grants, result>>

Decide(j, r) ==
  /\ holder[j] # None
  /\ holder' = [holder EXCEPT ![j] = None]
  /\ result' = [result EXCEPT ![j] = r]
  /\ UNCHANGED grants

Close(j, r) ==
  /\ result[j] = "undecided" /\ holder[j] = None
  /\ r # "succeeded"
  /\ r = "failed" => grants[j] = MaxAttempts
  /\ result' = [result EXCEPT ![j] = r]
  /\ UNCHANGED <<holder, grants>>

Next ==
  \/ \E j \in Jobs :
       \/ Post(j)
       \/ \E w \in Workers : Grant(j, w)
       \/ \E r \in {"succeeded", "failed", "cancelled"} : Decide(j, r) \/ Close(j, r)
  \/ \E w \in Workers : Lose(w)

Spec == Init /\ [][Next]_work
=============================================================================
