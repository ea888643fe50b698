---------------------------- MODULE Passwordless ----------------------------
(***************************************************************************)
(* One-time codes (src/src/passwordless.ts) over the memory store, whose    *)
(* records are shared objects, and the Redis store (redisOtpStore in        *)
(* src/src/redis.ts), which parses a copy for every call.                   *)
(*                                                                         *)
(* One identifier: records of different identifiers never meet.  Codes are  *)
(* numbered in the order of issue, and no two codes are equal; of the code  *)
(* that a user submits only matters whether it is that of the record read.  *)
(*                                                                         *)
(* A call of verify() awaits the store twice.  The memory store changes its *)
(* map before it returns the promise, so there the second await is no step; *)
(* a Redis command takes effect some time after it was sent.                *)
(***************************************************************************)
EXTENDS Integers

CONSTANTS
  Calls,         \* the calls of verify() that may be in progress together
  MaxAttempts,   \* the option maxAttempts
  Ttl,           \* the option ttl
  MaxCodes       \* bound: how many codes are issued

ASSUME AttemptsAssumption == MaxAttempts \in Nat \ {0}
ASSUME TtlAssumption == Ttl \in Nat
ASSUME CodesAssumption == MaxCodes \in Nat

Codes == 1..MaxCodes

VARIABLES
  shared,        \* TRUE: memory store, FALSE: Redis store; chosen once
  alone,         \* TRUE: no call starts while another is in progress; chosen once
  store,         \* the code whose record the store holds, 0 if none
  attempts,      \* attempts[n]: the attempts of the record of code n, in the record
                 \* object (memory) or as last written to the store (Redis)
  left,          \* left[n]: time until expiresAt of code n, -1 when it is past
  issued,        \* how many codes were issued
  call,          \* call[c]: the call c of verify()
  wrong,         \* history: how many guesses at code n were wrong
  accepted       \* history: how many calls returned true for code n

vars == <<shared, alone, store, attempts, left, issued, call, wrong, accepted>>

(* pc: "check" has the record, "delete" and "set" have sent that Redis command;
   code and attempts: of the record read; match: the guess is the code. *)
Call == [pc : {"idle", "check", "delete", "set"}, code : 0..MaxCodes,
         attempts : Nat, match : BOOLEAN]

NoCall == [pc |-> "idle", code |-> 0, attempts |-> 0, match |-> FALSE]

Init ==
  /\ shared \in BOOLEAN /\ alone \in BOOLEAN
  /\ store = 0
  /\ attempts = [n \in Codes |-> 0]
  /\ left = [n \in Codes |-> -1]
  /\ issued = 0
  /\ call = [c \in Calls |-> NoCall]
  /\ wrong = [n \in Codes |-> 0]
  /\ accepted = [n \in Codes |-> 0]

-----------------------------------------------------------------------------
MayStart == alone => \A c \in Calls : call[c].pc = "idle"

(* issue(): a new record, with no attempts, replaces the pending one. *)
Issue ==
  /\ MayStart
  /\ issued < MaxCodes
  /\ issued' = issued + 1
  /\ store' = issued'
  /\ left' = [left EXCEPT ![issued'] = Ttl]
  /\ UNCHANGED <<attempts, call, wrong, accepted>>

(* verify() reads the record.  Without one it returns false at once. *)
Read(c, match) ==
  /\ MayStart
  /\ call[c].pc = "idle"
  /\ store # 0
  /\ call' = [call EXCEPT ![c] = [pc |-> "check", code |-> store,
                                  attempts |-> attempts[store], match |-> match]]
  /\ UNCHANGED <<store, attempts, left, issued, wrong, accepted>>

(* The attempts of the record that call c holds. *)
Attempts(c) == IF shared THEN attempts[call[c].code] ELSE call[c].attempts

(* Mutant of Spent: > for >=. *)
SpentLate(c) == left[call[c].code] < 0 \/ Attempts(c) > MaxAttempts

Spent(c) == left[call[c].code] < 0 \/ Attempts(c) >= MaxAttempts

(* Call c returns whether its guess was right. *)
Return(c, right) ==
  /\ call' = [call EXCEPT ![c] = NoCall]
  /\ accepted' = IF right THEN [accepted EXCEPT ![call[c].code] = @ + 1] ELSE accepted

(* Mutant of Delete: a code is not consumed. *)
DeleteForgets(c, right) == Return(c, right) /\ UNCHANGED store

(* Call c deletes the record and then returns. *)
Delete(c, right) ==
  IF shared
  THEN store' = 0 /\ Return(c, right)
  ELSE /\ call' = [call EXCEPT ![c].pc = "delete", ![c].match = right]
       /\ UNCHANGED <<store, accepted>>

(* The record is past its expiry or has no attempts left. *)
Reject(c) ==
  /\ call[c].pc = "check"
  /\ Spent(c)
  /\ Delete(c, FALSE)
  /\ UNCHANGED <<attempts, left, issued, wrong>>

(* The guess is right: the code is consumed. *)
Accept(c) ==
  /\ call[c].pc = "check"
  /\ ~ Spent(c)
  /\ call[c].match
  /\ Delete(c, TRUE)
  /\ UNCHANGED <<attempts, left, issued, wrong>>

(* The guess is wrong and it was the last attempt: the code is burned. *)
Burn(c) ==
  /\ call[c].pc = "check"
  /\ ~ Spent(c)
  /\ ~ call[c].match
  /\ Attempts(c) + 1 >= MaxAttempts
  /\ attempts' = IF shared THEN [attempts EXCEPT ![call[c].code] = @ + 1] ELSE attempts
  /\ wrong' = [wrong EXCEPT ![call[c].code] = @ + 1]
  /\ Delete(c, FALSE)
  /\ UNCHANGED <<left, issued>>

(* Mutants of Miss: <= for <; the record is not written back. *)
MissPastLimit(c) ==
  /\ call[c].pc = "check"
  /\ ~ Spent(c)
  /\ ~ call[c].match
  /\ Attempts(c) + 1 <= MaxAttempts
  /\ wrong' = [wrong EXCEPT ![call[c].code] = @ + 1]
  /\ attempts' = [attempts EXCEPT ![call[c].code] = @ + 1]
  /\ store' = call[c].code
  /\ Return(c, FALSE)
  /\ UNCHANGED <<left, issued>>
MissNotCounted(c) ==
  /\ call[c].pc = "check"
  /\ ~ Spent(c)
  /\ ~ call[c].match
  /\ Attempts(c) + 1 < MaxAttempts
  /\ wrong' = [wrong EXCEPT ![call[c].code] = @ + 1]
  /\ Return(c, FALSE)
  /\ UNCHANGED <<store, attempts, left, issued>>

(* The guess is wrong: the record, with one attempt more, is set again. *)
Miss(c) ==
  /\ call[c].pc = "check"
  /\ ~ Spent(c)
  /\ ~ call[c].match
  /\ Attempts(c) + 1 < MaxAttempts
  /\ wrong' = [wrong EXCEPT ![call[c].code] = @ + 1]
  /\ IF shared
     THEN /\ attempts' = [attempts EXCEPT ![call[c].code] = @ + 1]
          /\ store' = call[c].code
          /\ Return(c, FALSE)
     ELSE /\ call' = [call EXCEPT ![c].pc = "set"]
          /\ UNCHANGED <<store, attempts, accepted>>
  /\ UNCHANGED <<left, issued>>

(* Redis carries out the command that call c sent, and c returns. *)
Deleted(c) ==
  /\ call[c].pc = "delete"
  /\ store' = 0
  /\ Return(c, call[c].match)
  /\ UNCHANGED <<attempts, left, issued, wrong>>

Written(c) ==
  /\ call[c].pc = "set"
  /\ store' = call[c].code
  /\ attempts' = [attempts EXCEPT ![call[c].code] = call[c].attempts + 1]
  /\ Return(c, FALSE)
  /\ UNCHANGED <<left, issued, wrong>>

(* Redis drops the key of an expired code at some time. *)
Evict ==
  /\ ~ shared
  /\ store # 0
  /\ left[store] < 0
  /\ store' = 0
  /\ UNCHANGED <<attempts, left, issued, call, wrong, accepted>>

Tick ==
  /\ left' = [n \in Codes |-> IF left[n] >= 0 THEN left[n] - 1 ELSE -1]
  /\ UNCHANGED <<store, attempts, issued, call, wrong, accepted>>

Verify(c) ==
  \/ \E match \in BOOLEAN : Read(c, match)
  \/ Reject(c) \/ Accept(c) \/ Burn(c) \/ Miss(c)
  \/ Deleted(c) \/ Written(c)

Next ==
  /\ Issue \/ Evict \/ Tick \/ \E c \in Calls : Verify(c)
  /\ UNCHANGED <<shared, alone>>

Spec == Init /\ [][Next]_vars

-----------------------------------------------------------------------------
(* Properties. *)

(* Every variable has its type: the life of a code never exceeds Ttl, and a call
   of verify() only works on a code of this store (passwordless.ts). *)
TypeOK ==
  /\ shared \in BOOLEAN /\ alone \in BOOLEAN
  /\ store \in 0..MaxCodes
  /\ attempts \in [Codes -> Nat]
  /\ left \in [Codes -> -1..Ttl]
  /\ issued \in 0..MaxCodes
  /\ call \in [Calls -> Call]
  /\ wrong \in [Codes -> Nat] /\ accepted \in [Codes -> Nat]

(* "single-use (consumed on success)" (Passwordless). *)
UsedOnce == \A n \in Codes : accepted[n] <= 1

(* "burn after maxAttempts wrong tries" (Passwordless): the memory store counts every
   wrong try, however calls overlap. *)
WrongTriesBounded == shared => \A n \in Codes : wrong[n] <= MaxAttempts

(* The store never keeps a record whose attempts are used up, nor one of a code
   that was not issued, however calls overlap. *)
NoSpentCode == store # 0 => store <= issued /\ attempts[store] < MaxAttempts

(* With the memory store a burned code is never accepted again, although a call that
   read its record earlier is still to compare its guess. *)
BurnedStaysBurned ==
  [][shared => \A n \in Codes : wrong[n] >= MaxAttempts => accepted'[n] = accepted[n]]_vars

(* Calls that are made one at a time implement a one-time code, with either store.
   A call takes effect when it compares the guess. *)
Deleting == \E c \in Calls : call[c].pc = "delete"
Accepting == \E c \in Calls : call[c].pc = "delete" /\ call[c].match

Code == INSTANCE OneTimeCode WITH
          issued <- IF alone THEN issued ELSE 0,
          pending <- alone /\ store # 0 /\ left[store] >= 0 /\ ~ Deleting,
          misses <- IF alone /\ issued > 0 THEN wrong[issued] ELSE 0,
          uses <- IF alone /\ issued > 0
                  THEN accepted[issued] + (IF Accepting THEN 1 ELSE 0)
                  ELSE 0
ImplementsCode == Code!Spec
=============================================================================
