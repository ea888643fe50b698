---------------------------- MODULE JobLifecycle ----------------------------
(***************************************************************************)
(* What the job queue promises for each job (src/src/jobs.ts, JobStatus and *)
(* Job): a job is pending until one of its attempts succeeds or the last    *)
(* one fails, and then nothing happens to it any more.                      *)
(***************************************************************************)
EXTENDS Naturals

CONSTANTS
  Jobs,          \* the jobs that are enqueued, one id each
  MaxAttempts    \* attempts allowed before a job is dead-lettered

VARIABLES
  status,        \* for each job "absent", "pending", "completed" or "failed"
  tries          \* for each job, how many attempts have ended

vars == <<status, tries>>

Init ==
  /\ status = [j \in Jobs |-> "absent"]
  /\ tries = [j \in Jobs |-> 0]

(* A job is accepted. *)
Enqueue(j) ==
  /\ status[j] = "absent"
  /\ status' = [status EXCEPT ![j] = "pending"]
  /\ UNCHANGED tries

(* An attempt of a pending job ends, one of at most MaxAttempts. *)
Attempt(j) ==
  /\ status[j] = "pending"
  /\ tries[j] < MaxAttempts
  /\ tries' = [tries EXCEPT ![j] = @ + 1]

Succeed(j) ==
  /\ Attempt(j)
  /\ status' = [status EXCEPT ![j] = "completed"]

(* A failed attempt leaves the job pending, unless it was the last one. *)
Fail(j) ==
  /\ Attempt(j)
  /\ status' = [status EXCEPT ![j] = IF tries'[j] = MaxAttempts THEN "failed" ELSE @]

Next == \E j \in Jobs : Enqueue(j) \/ Succeed(j) \/ Fail(j)

Spec == Init /\ [][Next]_vars
=============================================================================
