---------------------------- MODULE OneTimeCode -----------------------------
(***************************************************************************)
(* What Passwordless (src/src/passwordless.ts) promises of the codes of one *)
(* identifier: the newest one may be pending; it is used once, or burned    *)
(* after MaxAttempts wrong tries, or expires.                               *)
(***************************************************************************)
EXTENDS Naturals

CONSTANT MaxAttempts

VARIABLES
  issued,        \* how many codes were issued; the newest one has this number
  pending,       \* the newest code may still be used
  misses,        \* wrong tries at the newest code
  uses           \* how often the newest code was accepted

vars == <<issued, pending, misses, uses>>

Init == issued = 0 /\ pending = FALSE /\ misses = 0 /\ uses = 0

Issue ==
  /\ issued' = issued + 1
  /\ pending' = TRUE /\ misses' = 0 /\ uses' = 0

Use ==
  /\ pending
  /\ pending' = FALSE /\ uses' = uses + 1
  /\ UNCHANGED <<issued, misses>>

Miss ==
  /\ pending
  /\ misses' = misses + 1
  /\ pending' = (misses' < MaxAttempts)
  /\ UNCHANGED <<issued, uses>>

Expire ==
  /\ pending
  /\ pending' = FALSE
  /\ UNCHANGED <<issued, misses, uses>>

Next == Issue \/ Use \/ Miss \/ Expire

Spec == Init /\ [][Next]_vars
=============================================================================
