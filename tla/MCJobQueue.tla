----------------------------- MODULE MCJobQueue -----------------------------
(* Small instances of JobQueue for TLC. *)
EXTENDS JobQueue, TLC

(* The default backoff doubles: here one unit before attempt 2, two before 3. *)
MCBackoff == [n \in 2..MaxAttempts |-> IF n = 2 THEN 1 ELSE 2]
=============================================================================
