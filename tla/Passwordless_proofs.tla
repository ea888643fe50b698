------------------------- MODULE Passwordless_proofs -------------------------
(* Proofs about Passwordless, for any calls, limits and number of codes. *)
EXTENDS Passwordless, TLAPS

(* A call holds the record of an issued code; only with Redis does it send a
   command, and the record that it is about to set has attempts left. *)
CallInv ==
  \A c \in Calls :
    /\ call[c].pc # "idle" => call[c].code \in 1..issued
    /\ shared => call[c].pc \in {"idle", "check"}
    /\ call[c].pc = "set" => call[c].attempts + 1 < MaxAttempts

(* The record of a code that was not issued yet has no attempts. *)
FutureInv == \A n \in Codes : n > issued => attempts[n] = 0

(* The memory store counts every wrong guess: the calls share the record object,
   and each one checks and counts without an await in between. *)
CountInv ==
  shared => \A n \in Codes : attempts[n] = wrong[n] /\ wrong[n] <= MaxAttempts

IndInv == TypeOK /\ CallInv /\ FutureInv /\ NoSpentCode /\ CountInv

-----------------------------------------------------------------------------
(* How a call ends, and what the two ways to delete a record change. *)
LEMMA Returned ==
  ASSUME TypeOK, NEW c \in Calls, call[c].code \in Codes, NEW right \in BOOLEAN,
         Return(c, right)
  PROVE  /\ call' \in [Calls -> Call] /\ call'[c] = NoCall
         /\ \A d \in Calls \ {c} : call'[d] = call[d]
         /\ accepted' \in [Codes -> Nat]
         /\ \A n \in Codes : accepted'[n] = accepted[n] \/ (right /\ n = call[c].code)
<1>1. NoCall \in Call
  BY CodesAssumption DEF NoCall, Call
<1>2. /\ call' \in [Calls -> Call] /\ call'[c] = NoCall
      /\ \A d \in Calls \ {c} : call'[d] = call[d]
  BY <1>1 DEF Return, TypeOK
<1>3. CASE right
  BY <1>2, <1>3 DEF Return, TypeOK
<1>4. CASE ~ right
  BY <1>2, <1>4 DEF Return, TypeOK
<1>. QED
  BY <1>3, <1>4

LEMMA DeleteEffect ==
  ASSUME TypeOK, CallInv, NEW c \in Calls, call[c].pc # "idle", NEW right \in BOOLEAN,
         Delete(c, right)
  PROVE  /\ store' \in {0, store} /\ (shared => store' = 0)
         /\ call' \in [Calls -> Call]
         /\ call'[c].pc \in {"idle", "delete"} /\ (shared => call'[c].pc = "idle")
         /\ call'[c].pc # "idle" => call'[c].code = call[c].code
         /\ \A d \in Calls \ {c} : call'[d] = call[d]
         /\ accepted' \in [Codes -> Nat]
         /\ \A n \in Codes :
              accepted'[n] = accepted[n] \/ (shared /\ right /\ n = call[c].code)
<1>0. call[c].code \in Codes
  BY CodesAssumption DEF CallInv, TypeOK, Codes
<1>1. CASE shared
  BY <1>0, <1>1, Returned DEF Delete, NoCall
<1>2. CASE ~ shared
  <2>1. PICK rec \in Call : /\ rec = [call[c] EXCEPT !.pc = "delete", !.match = right]
                            /\ rec.pc = "delete" /\ rec.code = call[c].code
    <3>1. call[c] \in Call
      BY DEF TypeOK
    <3>2. [call[c] EXCEPT !.pc = "delete", !.match = right] \in Call
      BY <3>1 DEF Call
    <3>. QED
      BY <3>1, <3>2 DEF Call
  <2>2. call' = [call EXCEPT ![c] = rec] /\ UNCHANGED <<store, accepted>>
    BY <1>2, <2>1 DEF Delete, TypeOK
  <2>. QED
    BY <1>2, <2>1, <2>2 DEF TypeOK
<1>. QED
  BY <1>1, <1>2

-----------------------------------------------------------------------------
LEMMA InitEstablishes == Init => IndInv
<1> SUFFICES ASSUME Init PROVE IndInv
  OBVIOUS
<1>1. NoCall \in Call /\ NoCall.pc = "idle"
  BY CodesAssumption DEF NoCall, Call
<1>2. TypeOK
  BY <1>1, CodesAssumption, TtlAssumption DEF Init, TypeOK
<1>3. CallInv /\ FutureInv /\ NoSpentCode /\ CountInv
  BY <1>1, AttemptsAssumption DEF Init, CallInv, FutureInv, NoSpentCode, CountInv
<1>. QED
  BY <1>2, <1>3 DEF IndInv

LEMMA IssuePreserves == IndInv /\ Issue /\ UNCHANGED <<shared, alone>> => IndInv'
<1> SUFFICES ASSUME IndInv, Issue, UNCHANGED <<shared, alone>> PROVE IndInv'
  OBVIOUS
<1> USE DEF IndInv
<1>1. /\ issued' = issued + 1 /\ issued' \in Codes /\ store' = issued'
      /\ left' = [left EXCEPT ![issued'] = Ttl]
      /\ UNCHANGED <<attempts, call, wrong, accepted>>
  BY CodesAssumption DEF Issue, TypeOK, Codes
<1>2. TypeOK'
  <2>1. Ttl \in -1..Ttl
    BY TtlAssumption
  <2>2. left' \in [Codes -> -1..Ttl]
    BY <1>1, <2>1 DEF TypeOK
  <2>3. store' \in 0..MaxCodes /\ issued' \in 0..MaxCodes
    BY <1>1, CodesAssumption DEF Codes
  <2>. QED
    BY <1>1, <2>2, <2>3 DEF TypeOK
<1>3. CallInv'
  BY <1>1 DEF CallInv, TypeOK
<1>4. FutureInv' /\ CountInv'
  BY <1>1 DEF FutureInv, CountInv, TypeOK, Codes
<1>5. NoSpentCode'
  BY <1>1, AttemptsAssumption DEF FutureInv, NoSpentCode, TypeOK, Codes
<1>. QED
  BY <1>2, <1>3, <1>4, <1>5

LEMMA ReadPreserves ==
  ASSUME IndInv, NEW c \in Calls, NEW match \in BOOLEAN, Read(c, match),
         shared' = shared, alone' = alone
  PROVE  IndInv'
<1> USE DEF IndInv
<1>1. store \in Codes /\ store <= issued /\ attempts[store] \in Nat
  BY CodesAssumption DEF Read, TypeOK, NoSpentCode, Codes
<1>2. PICK rec \in Call : /\ rec.pc = "check" /\ rec.code = store
                          /\ call' = [call EXCEPT ![c] = rec]
  <2>1. [pc |-> "check", code |-> store, attempts |-> attempts[store], match |-> match]
          \in Call
    BY <1>1 DEF Call, Codes
  <2>. QED
    BY <2>1 DEF Read
<1>3. UNCHANGED <<store, attempts, left, issued, wrong, accepted>>
  BY DEF Read
<1>4. TypeOK'
  BY <1>2, <1>3 DEF TypeOK
<1>5. CallInv'
  BY <1>1, <1>2, <1>3 DEF CallInv, TypeOK, Codes
<1>6. FutureInv' /\ NoSpentCode' /\ CountInv'
  BY <1>3 DEF FutureInv, NoSpentCode, CountInv
<1>. QED
  BY <1>4, <1>5, <1>6

(* Reject, Accept and Burn: a call compares, and deletes the record. *)
LEMMA DeletePreserves ==
  ASSUME IndInv, NEW c \in Calls, call[c].pc = "check", NEW right \in BOOLEAN,
         Delete(c, right), UNCHANGED <<shared, alone, left, issued>>,
         \/ UNCHANGED <<attempts, wrong>>
         \/ Burn(c)
  PROVE  IndInv'
<1> USE DEF IndInv
<1>0. call[c].code \in 1..issued /\ call[c].code \in Codes
  BY CodesAssumption DEF CallInv, TypeOK, Codes
<1>1. /\ store' \in {0, store} /\ (shared => store' = 0)
      /\ call' \in [Calls -> Call]
      /\ call'[c].pc \in {"idle", "delete"} /\ (shared => call'[c].pc = "idle")
      /\ call'[c].pc # "idle" => call'[c].code = call[c].code
      /\ \A d \in Calls \ {c} : call'[d] = call[d]
      /\ accepted' \in [Codes -> Nat]
  BY DeleteEffect
<1>2. /\ attempts' \in [Codes -> Nat] /\ wrong' \in [Codes -> Nat]
      /\ \A n \in Codes : n > issued => attempts'[n] = attempts[n]
      /\ ~ shared => attempts' = attempts
      /\ CountInv'
  <2>1. CASE UNCHANGED <<attempts, wrong>>
    BY <2>1 DEF TypeOK, CountInv
  <2>2. CASE Burn(c)
    <3>1. /\ wrong' = [wrong EXCEPT ![call[c].code] = @ + 1]
          /\ shared => /\ attempts' = [attempts EXCEPT ![call[c].code] = @ + 1]
                       /\ attempts[call[c].code] < MaxAttempts
          /\ ~ shared => attempts' = attempts
      BY <1>0, <2>2, AttemptsAssumption DEF Burn, Spent, Attempts, TypeOK
    <3>2. CASE shared
      <4>1. /\ attempts[call[c].code] = wrong[call[c].code]
            /\ attempts[call[c].code] \in Nat /\ wrong' \in [Codes -> Nat]
            /\ attempts' \in [Codes -> Nat]
        BY <1>0, <3>1, <3>2 DEF TypeOK, CountInv
      <4>2. \A n \in Codes : /\ attempts'[n] = IF n = call[c].code THEN attempts[n] + 1
                                                                ELSE attempts[n]
                             /\ wrong'[n] = IF n = call[c].code THEN wrong[n] + 1
                                                             ELSE wrong[n]
        BY <3>1, <3>2 DEF TypeOK
      <4>3. wrong[call[c].code] + 1 <= MaxAttempts
        BY <3>1, <3>2, <4>1, AttemptsAssumption
      <4>4. CountInv'
        BY <3>2, <4>1, <4>2, <4>3 DEF CountInv
      <4>5. \A n \in Codes : n > issued => attempts'[n] = attempts[n]
        BY <1>0, <4>2 DEF TypeOK
      <4>. QED
        BY <3>2, <4>1, <4>4, <4>5
    <3>3. CASE ~ shared
      BY <1>0, <3>1, <3>3 DEF TypeOK, CountInv
    <3>. QED
      BY <3>2, <3>3
  <2>. QED
    BY <2>1, <2>2
<1>3. TypeOK'
  BY <1>1, <1>2, CodesAssumption DEF TypeOK
<1>4. CallInv'
  BY <1>0, <1>1 DEF CallInv
<1>5. FutureInv'
  BY <1>2 DEF FutureInv
<1>6. NoSpentCode'
  BY <1>1, <1>2 DEF NoSpentCode
<1>. QED
  BY <1>2, <1>3, <1>4, <1>5, <1>6

LEMMA MissPreserves ==
  ASSUME IndInv, NEW c \in Calls, Miss(c),
         shared' = shared, alone' = alone
  PROVE  IndInv'
<1> USE DEF IndInv
<1>0. call[c].code \in 1..issued /\ call[c].code \in Codes
  BY CodesAssumption DEF Miss, CallInv, TypeOK, Codes
<1>1. /\ wrong' = [wrong EXCEPT ![call[c].code] = @ + 1] /\ wrong' \in [Codes -> Nat]
      /\ UNCHANGED <<left, issued>>
  BY <1>0 DEF Miss, TypeOK
<1>2. CASE shared
  <2>1. /\ attempts' = [attempts EXCEPT ![call[c].code] = @ + 1]
        /\ attempts[call[c].code] + 1 < MaxAttempts
        /\ store' = call[c].code /\ Return(c, FALSE)
    BY <1>2 DEF Miss, Attempts
  <2>2. /\ call' \in [Calls -> Call] /\ call'[c] = NoCall
        /\ \A d \in Calls \ {c} : call'[d] = call[d]
        /\ accepted' \in [Codes -> Nat]
    BY <1>0, <2>1, Returned
  <2>3. TypeOK'
    <3>1. attempts' \in [Codes -> Nat]
      BY <1>0, <2>1 DEF TypeOK
    <3>2. left' \in [Codes -> -1..Ttl] /\ issued' \in 0..MaxCodes
      BY <1>1 DEF TypeOK
    <3>3. store' \in 0..MaxCodes
      BY <1>0, <2>1, CodesAssumption DEF Codes
    <3>4. shared' \in BOOLEAN /\ alone' \in BOOLEAN
      BY DEF TypeOK
    <3>. QED
      BY <1>1, <2>2, <3>1, <3>2, <3>3, <3>4 DEF TypeOK
  <2>4. CallInv'
    BY <1>1, <2>2 DEF CallInv, NoCall
  <2>5. FutureInv' /\ NoSpentCode' /\ CountInv'
    BY <1>0, <1>1, <1>2, <2>1, AttemptsAssumption
    DEF FutureInv, NoSpentCode, CountInv, TypeOK, Codes
  <2>. QED
    BY <2>3, <2>4, <2>5
<1>3. CASE ~ shared
  <2>1. /\ call' = [call EXCEPT ![c].pc = "set"]
        /\ call[c].attempts + 1 < MaxAttempts
        /\ UNCHANGED <<store, attempts, accepted>>
    BY <1>3 DEF Miss, Attempts
  <2>2. PICK rec \in Call : /\ rec.pc = "set" /\ rec.code = call[c].code
                            /\ rec.attempts = call[c].attempts
                            /\ call' = [call EXCEPT ![c] = rec]
    <3>1. call[c] \in Call
      BY DEF TypeOK
    <3>2. [call[c] EXCEPT !.pc = "set"] \in Call
      BY <3>1 DEF Call
    <3>. QED
      BY <2>1, <3>1, <3>2 DEF Call, TypeOK
  <2>3. TypeOK'
    BY <1>1, <2>1, <2>2 DEF TypeOK
  <2>4. CallInv'
    BY <1>0, <1>1, <1>3, <2>1, <2>2 DEF CallInv, TypeOK
  <2>5. FutureInv' /\ NoSpentCode' /\ CountInv'
    BY <1>1, <1>3, <2>1 DEF FutureInv, NoSpentCode, CountInv
  <2>. QED
    BY <2>3, <2>4, <2>5
<1>. QED
  BY <1>2, <1>3

LEMMA CommandPreserves ==
  ASSUME IndInv, NEW c \in Calls, Deleted(c) \/ Written(c),
         shared' = shared, alone' = alone
  PROVE  IndInv'
<1> USE DEF IndInv
<1>0. call[c].code \in 1..issued /\ call[c].code \in Codes /\ ~ shared
  <2>1. call[c].pc \in {"delete", "set"}
    BY DEF Deleted, Written
  <2>2. call[c].code \in 1..issued /\ ~ shared
    BY <2>1 DEF CallInv
  <2>. QED
    BY <2>2, CodesAssumption DEF TypeOK, Codes
<1>1. PICK right \in BOOLEAN : Return(c, right)
  BY DEF Deleted, Written, TypeOK, Call
<1>2. /\ call' \in [Calls -> Call] /\ call'[c] = NoCall
      /\ \A d \in Calls \ {c} : call'[d] = call[d]
      /\ accepted' \in [Codes -> Nat]
  BY <1>0, <1>1, Returned
<1>3. UNCHANGED <<left, issued, wrong>>
  BY DEF Deleted, Written
<1>4. CallInv'
  BY <1>2, <1>3 DEF CallInv, NoCall
<1>5. CASE Deleted(c)
  <2>1. store' = 0 /\ attempts' = attempts
    BY <1>5 DEF Deleted
  <2>2. TypeOK'
    BY <1>2, <1>3, <2>1, CodesAssumption DEF TypeOK
  <2>3. FutureInv' /\ NoSpentCode' /\ CountInv'
    BY <1>0, <1>3, <2>1 DEF FutureInv, NoSpentCode, CountInv
  <2>. QED
    BY <1>4, <2>2, <2>3
<1>6. CASE Written(c)
  <2>1. /\ store' = call[c].code /\ call[c].attempts \in Nat
        /\ attempts' = [attempts EXCEPT ![call[c].code] = call[c].attempts + 1]
        /\ call[c].attempts + 1 < MaxAttempts
    BY <1>6 DEF Written, CallInv, TypeOK, Call
  <2>2. TypeOK'
    <3>1. attempts' \in [Codes -> Nat]
      BY <1>0, <2>1 DEF TypeOK
    <3>2. store' \in 0..MaxCodes
      BY <1>0, <2>1, CodesAssumption DEF Codes
    <3>. QED
      BY <1>2, <1>3, <3>1, <3>2 DEF TypeOK
  <2>3. FutureInv' /\ NoSpentCode' /\ CountInv'
    BY <1>0, <1>3, <2>1 DEF FutureInv, NoSpentCode, CountInv, TypeOK, Codes
  <2>. QED
    BY <1>4, <2>2, <2>3
<1>. QED
  BY <1>5, <1>6

LEMMA TimePreserves == IndInv /\ (Tick \/ Evict) /\ UNCHANGED <<shared, alone>> => IndInv'
<1> SUFFICES ASSUME IndInv, Tick \/ Evict, UNCHANGED <<shared, alone>> PROVE IndInv'
  OBVIOUS
<1> USE DEF IndInv
<1>1. left' \in [Codes -> -1..Ttl] /\ store' \in {0, store}
  BY TtlAssumption DEF Tick, Evict, TypeOK
<1>2. UNCHANGED <<attempts, issued, call, wrong, accepted>>
  BY DEF Tick, Evict
<1>3. TypeOK'
  BY <1>1, <1>2, CodesAssumption DEF TypeOK
<1>4. CallInv' /\ FutureInv' /\ NoSpentCode' /\ CountInv'
  BY <1>1, <1>2 DEF CallInv, FutureInv, NoSpentCode, CountInv
<1>. QED
  BY <1>3, <1>4

LEMMA NextPreserves == IndInv /\ [Next]_vars => IndInv'
<1> SUFFICES ASSUME IndInv, [Next]_vars PROVE IndInv'
  OBVIOUS
<1>1. CASE UNCHANGED vars
  BY <1>1 DEF vars, IndInv, TypeOK, CallInv, FutureInv, NoSpentCode, CountInv
<1>2. ASSUME NEW c \in Calls, Verify(c), UNCHANGED <<shared, alone>>
      PROVE  IndInv'
  <2>1. CASE Reject(c)
    BY <1>2, <2>1, DeletePreserves DEF Reject
  <2>2. CASE Accept(c)
    BY <1>2, <2>2, DeletePreserves DEF Accept
  <2>3. CASE Burn(c)
    <3>1. call[c].pc = "check" /\ Delete(c, FALSE) /\ UNCHANGED <<left, issued>>
      BY <2>3 DEF Burn
    <3>. QED
      BY <1>2, <2>3, <3>1, DeletePreserves
  <2>. QED
    BY <1>2, <2>1, <2>2, <2>3, ReadPreserves, MissPreserves, CommandPreserves DEF Verify
<1>. QED
  BY <1>1, <1>2, IssuePreserves, TimePreserves DEF Next

-----------------------------------------------------------------------------
(* The invariant is inductive for both stores, whatever calls of issue() and
   verify() in passwordless.ts overlap. *)
THEOREM Inductive == Spec => []IndInv
<1>1. Init => IndInv
  BY InitEstablishes
<1>2. IndInv /\ [Next]_vars => IndInv'
  BY NextPreserves
<1>. QED
  BY <1>1, <1>2, PTL DEF Spec

(* Records, calls and counters keep their types. *)
THEOREM TypeCorrect == Spec => []TypeOK
<1>1. IndInv => TypeOK
  BY DEF IndInv
<1>. QED
  BY <1>1, Inductive, PTL

(* Neither store ever keeps a record whose attempts are used up: verify() deletes it
   or puts it back with attempts left. *)
THEOREM NoSpentCodeKept == Spec => []NoSpentCode
<1>1. IndInv => NoSpentCode
  BY DEF IndInv
<1>. QED
  BY <1>1, Inductive, PTL

(* With the memory store at most maxAttempts wrong guesses at a code are ever
   compared, however many calls of verify() overlap. *)
THEOREM MemoryTriesBounded == Spec => []WrongTriesBounded
<1>1. IndInv => WrongTriesBounded
  BY DEF IndInv, CountInv, WrongTriesBounded
<1>. QED
  BY <1>1, Inductive, PTL

(* With the memory store a burned code is never accepted again, not even by a call
   that read its record before it was burned. *)
THEOREM MemoryBurnedStaysBurned == Spec => BurnedStaysBurned
<1> DEFINE Kept == shared => \A n \in Codes : wrong[n] >= MaxAttempts => accepted'[n] = accepted[n]
<1>1. IndInv /\ [Next]_vars => Kept
  <2> SUFFICES ASSUME IndInv, [Next]_vars, shared, NEW n \in Codes, wrong[n] >= MaxAttempts
               PROVE  accepted'[n] = accepted[n]
    OBVIOUS
  <2>0. TypeOK /\ CallInv /\ CountInv
    BY DEF IndInv
  <2>1. attempts[n] >= MaxAttempts
    BY <2>0 DEF CountInv
  <2>2. ASSUME NEW c \in Calls, Verify(c)
        PROVE  accepted'[n] = accepted[n]
    <3>1. call[c].pc \in {"idle", "check"} /\ (call[c].pc = "check" => call[c].code \in Codes)
      <4>1. call[c].pc \in {"idle", "check"}
        BY <2>0 DEF CallInv
      <4>2. call[c].pc = "check" => call[c].code \in 1..issued
        BY <2>0 DEF CallInv
      <4>3. issued \in 0..MaxCodes
        BY <2>0 DEF TypeOK
      <4>. QED
        BY <4>1, <4>2, <4>3, CodesAssumption DEF Codes
    <3>2. CASE Reject(c) \/ Burn(c)
      BY <2>0, <3>1, <3>2, DeleteEffect DEF Reject, Burn
    <3>3. CASE Accept(c)
      <4>1. call[c].code # n
        BY <2>0, <2>1, <3>1, <3>3, AttemptsAssumption DEF Accept, Spent, Attempts, TypeOK
      <4>2. Delete(c, TRUE) /\ call[c].pc = "check"
        BY <3>3 DEF Accept
      <4>. QED
        BY <2>0, <4>1, <4>2, DeleteEffect
    <3>4. CASE Miss(c)
      BY <2>0, <3>1, <3>4, Returned DEF Miss
    <3>. QED
      BY <2>2, <3>1, <3>2, <3>3, <3>4 DEF Verify, Read, Deleted, Written
  <2>3. CASE ~ \E c \in Calls : Verify(c)
    BY <2>3 DEF Next, Issue, Evict, Tick, vars
  <2>. QED
    BY <2>2, <2>3
<1>2. IndInv /\ [Next]_vars => [Kept]_vars
  BY <1>1
<1>. QED
  BY <1>2, Inductive, PTL DEF Spec, BurnedStaysBurned
-----------------------------------------------------------------------------
(* What holds besides when calls are made one at a time: the store has the newest code
   or none, a call works on the newest one, and what it has read of the wrong tries
   is right. *)
Newest(c) ==
  /\ call[c].code = issued
  /\ store = issued \/ left[issued] < 0 \/ call[c].pc = "delete"
  /\ call[c].pc = "check" => Attempts(c) = wrong[issued]
  /\ call[c].pc = "set" => call[c].attempts + 1 = wrong[issued]

AloneInv ==
  alone =>
    /\ \A c, d \in Calls : call[c].pc # "idle" /\ call[d].pc # "idle" => c = d
    /\ store \in {0, issued}
    /\ \A n \in Codes : n > issued => wrong[n] = 0 /\ accepted[n] = 0
    /\ \A c \in Calls : call[c].pc # "idle" => Newest(c)
    /\ store # 0 /\ (\A c \in Calls : call[c].pc \in {"idle", "check"})
         => attempts[issued] = wrong[issued]

(* The state of the one-time code. *)
Issued == IF alone THEN issued ELSE 0
Pending == alone /\ store # 0 /\ left[store] >= 0 /\ ~ Deleting
Misses == IF alone /\ issued > 0 THEN wrong[issued] ELSE 0
Uses == IF alone /\ issued > 0
        THEN accepted[issued] + (IF Accepting THEN 1 ELSE 0)
        ELSE 0

LEMMA StutterMaps ==
  ASSUME Issued' = Issued, Pending' <=> Pending, Misses' = Misses, Uses' = Uses
  PROVE  [Code!Next]_(Code!vars)
<1>1. Pending' = Pending
  BY DEF Pending
<1>. QED
  BY <1>1 DEF Code!vars, Issued, Pending, Misses, Uses

LEMMA IssueMaps ==
  ASSUME Issued' = Issued + 1, Pending', Misses' = 0, Uses' = 0
  PROVE  [Code!Next]_(Code!vars)
<1>1. Pending' = TRUE
  BY DEF Pending
<1>2. Code!Issue
  BY <1>1 DEF Code!Issue, Issued, Pending, Misses, Uses
<1>. QED
  BY <1>2 DEF Code!Next

LEMMA UseMaps ==
  ASSUME Issued' = Issued, Pending, ~ Pending', Misses' = Misses, Uses' = Uses + 1
  PROVE  [Code!Next]_(Code!vars)
<1>1. Pending' = FALSE
  BY DEF Pending
<1>2. Code!Use
  BY <1>1 DEF Code!Use, Issued, Pending, Misses, Uses
<1>. QED
  BY <1>2 DEF Code!Next

LEMMA MissMaps ==
  ASSUME Issued' = Issued, Pending, Misses' = Misses + 1, Pending' <=> Misses' < MaxAttempts,
         Uses' = Uses
  PROVE  [Code!Next]_(Code!vars)
<1>1. Pending' = (Misses' < MaxAttempts)
  BY DEF Pending
<1>2. Code!Miss
  BY <1>1 DEF Code!Miss, Issued, Pending, Misses, Uses
<1>. QED
  BY <1>2 DEF Code!Next

LEMMA ExpireMaps ==
  ASSUME Issued' = Issued, Pending, ~ Pending', Misses' = Misses, Uses' = Uses
  PROVE  [Code!Next]_(Code!vars)
<1>1. Pending' = FALSE
  BY DEF Pending
<1>2. Code!Expire
  BY <1>1 DEF Code!Expire, Issued, Pending, Misses, Uses
<1>. QED
  BY <1>2 DEF Code!Next

LEMMA InitMaps == Init => AloneInv /\ Code!Init
<1> SUFFICES ASSUME Init PROVE AloneInv /\ Code!Init
  OBVIOUS
<1>1. \A c \in Calls : call[c].pc = "idle"
  BY DEF Init, NoCall
<1>2. AloneInv
  BY <1>1 DEF Init, AloneInv
<1>3. store = 0 /\ issued = 0 /\ ~ Pending
  BY DEF Init, Pending
<1>4. Pending = FALSE
  BY <1>3 DEF Pending
<1>. QED
  BY <1>2, <1>3, <1>4 DEF Code!Init, Pending

(* Without alone, nothing is promised. *)
LEMMA OverlapMaps ==
  ASSUME ~ alone, alone' = alone
  PROVE  AloneInv' /\ [Code!Next]_(Code!vars)
<1>1. AloneInv'
  BY DEF AloneInv
<1>. QED
  BY <1>1, StutterMaps DEF Issued, Pending, Misses, Uses

(* A step between calls. *)
LEMMA IssueMapped ==
  ASSUME IndInv, AloneInv, alone, Issue, alone' = alone, shared' = shared
  PROVE  AloneInv' /\ [Code!Next]_(Code!vars)
<1> USE DEF IndInv
<1>1. /\ issued' = issued + 1 /\ issued' \in Codes /\ store' = issued' /\ issued \in Nat
      /\ left'[issued'] = Ttl
      /\ UNCHANGED <<attempts, call, wrong, accepted>>
      /\ \A c \in Calls : call[c].pc = "idle"
  BY CodesAssumption DEF Issue, MayStart, TypeOK, Codes
<1>2. wrong[issued'] = 0 /\ accepted[issued'] = 0 /\ attempts[issued'] = 0
  BY <1>1 DEF AloneInv, FutureInv
<1>3. AloneInv'
  BY <1>1, <1>2 DEF AloneInv, Codes
<1>4. ~ Deleting' /\ ~ Accepting'
  BY <1>1 DEF Deleting, Accepting
<1>5. /\ Issued' = Issued + 1 /\ Misses' = 0 /\ Uses' = 0
  BY <1>1, <1>2, <1>4 DEF Issued, Misses, Uses
<1>6. Pending'
  BY <1>1, <1>4, TtlAssumption DEF Pending
<1>. QED
  BY <1>3, <1>5, <1>6, IssueMaps

LEMMA TimeMapped ==
  ASSUME IndInv, AloneInv, alone, Tick \/ Evict, alone' = alone, shared' = shared
  PROVE  AloneInv' /\ [Code!Next]_(Code!vars)
<1> USE DEF IndInv
<1>1. /\ UNCHANGED <<attempts, issued, call, wrong, accepted>>
      /\ \A n \in Codes : left[n] < 0 => left'[n] < 0
      /\ store' = store \/ (store' = 0 /\ store # 0 /\ left[store] < 0)
      /\ store \in 0..MaxCodes /\ issued \in 0..MaxCodes
  BY DEF Tick, Evict, TypeOK
<1>2. \A c \in Calls : call[c].pc # "idle" => call[c].code \in Codes
  BY <1>1, CodesAssumption DEF CallInv, Codes
<1>3. AloneInv'
  <2>1. ASSUME NEW c \in Calls, call'[c].pc # "idle"
        PROVE  Newest(c)'
    <3>1. Newest(c) /\ issued \in Codes
      BY <1>1, <1>2, <2>1 DEF AloneInv, Newest
    <3>2. store' = issued \/ left'[issued] < 0 \/ call[c].pc = "delete"
      BY <1>1, <3>1 DEF AloneInv, Newest
    <3>. QED
      BY <1>1, <3>1, <3>2 DEF Newest, Attempts
  <2>2. store' \in {0, issued}
    BY <1>1 DEF AloneInv
  <2>. QED
    BY <1>1, <2>1, <2>2 DEF AloneInv
<1>4. (Deleting' <=> Deleting) /\ (Accepting' <=> Accepting)
  BY <1>1 DEF Deleting, Accepting
<1>5. Issued' = Issued /\ Misses' = Misses /\ Uses' = Uses
  BY <1>1, <1>4 DEF Issued, Misses, Uses
<1>6. Pending' => Pending
  <2>1. store # 0 => store \in Codes
    BY <1>1, CodesAssumption DEF Codes
  <2>2. \A n \in Codes : left[n] \in -1..Ttl
    BY DEF TypeOK
  <2>3. \A n \in Codes : left'[n] >= 0 => left[n] >= 0
    BY <1>1, <2>2, TtlAssumption DEF Tick, Evict
  <2>. QED
    BY <1>1, <1>4, <2>1, <2>3 DEF Pending
<1>. QED
  BY <1>3, <1>5, <1>6, StutterMaps, ExpireMaps

(* The one call in progress. *)
LEMMA Solo ==
  ASSUME AloneInv, alone, NEW c \in Calls,
         call[c].pc # "idle" \/ \A d \in Calls : call[d].pc = "idle",
         \A d \in Calls \ {c} : call'[d] = call[d]
  PROVE  /\ \A d \in Calls \ {c} : call[d].pc = "idle" /\ call'[d].pc = "idle"
         /\ Deleting <=> call[c].pc = "delete"
         /\ Deleting' <=> call'[c].pc = "delete"
         /\ Accepting <=> call[c].pc = "delete" /\ call[c].match
         /\ Accepting' <=> call'[c].pc = "delete" /\ call'[c].match
<1>1. \A d \in Calls \ {c} : call[d].pc = "idle" /\ call'[d].pc = "idle"
  BY DEF AloneInv
<1>. QED
  BY <1>1 DEF Deleting, Accepting

(* What has to be shown of a step of that call. *)
LEMMA SoloKeeps ==
  ASSUME AloneInv, alone, alone' = alone, NEW c \in Calls, issued' = issued,
         call[c].pc # "idle" \/ \A d \in Calls : call[d].pc = "idle",
         \A d \in Calls \ {c} : call'[d] = call[d],
         store' \in {0, issued},
         \A n \in Codes : n > issued => wrong'[n] = wrong[n] /\ accepted'[n] = accepted[n],
         call'[c].pc # "idle" => Newest(c)',
         store' # 0 /\ call'[c].pc \in {"idle", "check"} => attempts'[issued] = wrong'[issued]
  PROVE  AloneInv'
BY Solo DEF AloneInv

LEMMA ReadMapped ==
  ASSUME IndInv, AloneInv, alone, NEW c \in Calls, NEW match \in BOOLEAN, Read(c, match),
         alone' = alone, shared' = shared
  PROVE  AloneInv' /\ [Code!Next]_(Code!vars)
<1> USE DEF IndInv
<1>1. /\ call[c].pc = "idle" /\ store # 0 /\ \A d \in Calls : call[d].pc = "idle"
      /\ UNCHANGED <<store, attempts, left, issued, wrong, accepted>>
  BY DEF Read, MayStart
<1>2. /\ call'[c] = [pc |-> "check", code |-> store, attempts |-> attempts[store],
                     match |-> match]
      /\ \A d \in Calls \ {c} : call'[d] = call[d]
  BY DEF Read, TypeOK
<1>3. store = issued /\ attempts[issued] = wrong[issued]
  BY <1>1 DEF AloneInv
<1>4. Newest(c)'
  BY <1>1, <1>2, <1>3 DEF Newest, Attempts
<1>5. AloneInv'
  BY <1>1, <1>2, <1>3, <1>4, SoloKeeps
<1>6. (Deleting' <=> Deleting) /\ (Accepting' <=> Accepting)
  BY <1>1, <1>2, Solo
<1>7. /\ Issued' = Issued /\ Misses' = Misses /\ Uses' = Uses /\ (Pending' <=> Pending)
  BY <1>1, <1>6 DEF Issued, Misses, Uses, Pending
<1>. QED
  BY <1>5, <1>7, StutterMaps

(* A call compares its guess while its record is pending, or finds it expired. *)
LEMMA Comparing ==
  ASSUME IndInv, AloneInv, alone, NEW c \in Calls, call[c].pc = "check"
  PROVE  /\ call[c].code = issued /\ issued \in Codes /\ issued # 0 /\ issued > 0
         /\ Attempts(c) = wrong[issued] /\ wrong[issued] \in Nat
         /\ left[issued] \in -1..Ttl /\ accepted[issued] \in Nat
         /\ Misses = wrong[issued] /\ Uses = accepted[issued]
         /\ ~ Spent(c) => Pending /\ store = issued
         /\ Spent(c) => left[issued] < 0 /\ ~ Pending
<1> USE DEF IndInv
<1>1. /\ call[c].code = issued /\ Attempts(c) = wrong[issued]
      /\ store = issued \/ left[issued] < 0
      /\ store \in {0, issued}
  BY DEF AloneInv, Newest
<1>2. issued \in Codes /\ issued # 0 /\ issued > 0
  <2>1. call[c].code \in 1..issued /\ issued \in 0..MaxCodes
    BY DEF CallInv, TypeOK
  <2>. QED
    BY <1>1, <2>1, CodesAssumption DEF Codes
<1>3. wrong[issued] \in Nat /\ left[issued] \in -1..Ttl /\ accepted[issued] \in Nat
  BY <1>2 DEF TypeOK
<1>4. ~ Deleting /\ ~ Accepting
  BY DEF AloneInv, Deleting, Accepting
<1>5. Misses = wrong[issued] /\ Uses = accepted[issued]
  BY <1>2, <1>3, <1>4 DEF Misses, Uses
<1>6. ASSUME ~ Spent(c) PROVE Pending /\ store = issued
  BY <1>1, <1>2, <1>3, <1>4, <1>6, TtlAssumption DEF Spent, Pending
<1>7. ASSUME Spent(c) PROVE left[issued] < 0 /\ ~ Pending
  <2>1. CASE left[issued] < 0
    BY <1>1, <1>3, <2>1, TtlAssumption DEF Pending
  <2>2. CASE ~ (left[issued] < 0)
    <3>1. store = issued /\ attempts[issued] < MaxAttempts
      BY <1>1, <1>2, <2>2 DEF NoSpentCode
    <3>2. attempts[issued] = wrong[issued]
      <4>1. \A d \in Calls : call[d].pc \in {"idle", "check"}
        BY DEF AloneInv
      <4>. QED
        BY <1>2, <3>1, <4>1 DEF AloneInv
    <3>3. Attempts(c) >= MaxAttempts
      BY <1>1, <1>7, <2>2 DEF Spent
    <3>. QED
      BY <1>1, <1>3, <3>1, <3>2, <3>3, AttemptsAssumption
  <2>. QED
    BY <2>1, <2>2
<1>. QED
  BY <1>1, <1>2, <1>3, <1>5, <1>6, <1>7

LEMMA Later ==
  ASSUME issued \in Codes
  PROVE  \A n \in Codes : n > issued => n \in Codes \ {issued}
BY CodesAssumption DEF Codes

(* Deleting the record ends what was pending. *)
LEMMA DeleteMapped ==
  ASSUME IndInv, AloneInv, alone, NEW c \in Calls, call[c].pc = "check", NEW right \in BOOLEAN,
         Delete(c, right), UNCHANGED <<shared, alone, left, issued>>,
         \A n \in Codes : n > issued => wrong'[n] = wrong[n]
  PROVE  /\ AloneInv' /\ (~ Pending' \/ left[issued] < 0)
         /\ Issued' = Issued /\ Misses' = wrong'[issued]
         /\ Uses' = Uses + (IF right THEN 1 ELSE 0)
<1> USE DEF IndInv
<1>1. call[c].code = issued /\ issued \in Codes /\ issued > 0 /\ accepted[issued] \in Nat
  BY Comparing
<1>2. CASE shared
  <2>1. store' = 0 /\ Return(c, right)
    BY <1>2 DEF Delete
  <2>2. /\ call'[c].pc = "idle" /\ \A d \in Calls \ {c} : call'[d] = call[d]
    BY <2>1 DEF Return, NoCall, TypeOK
  <2>3. /\ \A n \in Codes \ {issued} : accepted'[n] = accepted[n]
        /\ accepted'[issued] = accepted[issued] + (IF right THEN 1 ELSE 0)
    BY <1>1, <2>1 DEF Return, TypeOK
  <2>4. AloneInv'
    BY <1>1, <2>1, <2>2, <2>3, Later, SoloKeeps
  <2>5. ~ Pending' /\ ~ Accepting' /\ ~ Accepting
    BY <2>1, <2>2, Solo DEF Pending
  <2>. QED
    BY <1>1, <2>3, <2>4, <2>5 DEF Issued, Misses, Uses
<1>3. CASE ~ shared
  <2>1. /\ call' = [call EXCEPT ![c] = [call[c] EXCEPT !.pc = "delete", !.match = right]]
        /\ UNCHANGED <<store, accepted>>
    BY <1>3 DEF Delete, TypeOK
  <2>2. call[c] \in Call
    BY DEF TypeOK
  <2>3. /\ call'[c].pc = "delete" /\ call'[c].match = right /\ call'[c].code = issued
        /\ \A d \in Calls \ {c} : call'[d] = call[d]
    BY <1>1, <2>1, <2>2 DEF TypeOK, Call
  <2>4. Newest(c)'
    BY <2>3 DEF Newest
  <2>5. store \in {0, issued}
    BY DEF AloneInv
  <2>6. AloneInv'
    BY <2>1, <2>3, <2>4, <2>5, SoloKeeps
  <2>7. Deleting' /\ (Accepting' <=> right) /\ ~ Accepting
    BY <2>3, Solo
  <2>. QED
    BY <1>1, <2>1, <2>6, <2>7 DEF Issued, Misses, Uses, Pending
<1>. QED
  BY <1>2, <1>3

LEMMA MissMapped ==
  ASSUME IndInv, AloneInv, alone, NEW c \in Calls, Miss(c), alone' = alone, shared' = shared
  PROVE  AloneInv' /\ [Code!Next]_(Code!vars)
<1> USE DEF IndInv
<1>1. /\ call[c].pc = "check" /\ ~ Spent(c) /\ Attempts(c) + 1 < MaxAttempts
      /\ wrong' = [wrong EXCEPT ![call[c].code] = @ + 1]
      /\ UNCHANGED <<left, issued>>
  BY DEF Miss
<1>2. /\ call[c].code = issued /\ issued \in Codes /\ issued # 0 /\ issued > 0
      /\ Attempts(c) = wrong[issued] /\ wrong[issued] \in Nat
      /\ Misses = wrong[issued] /\ Uses = accepted[issued]
      /\ Pending /\ store = issued
  BY <1>1, Comparing
<1>3. /\ wrong'[issued] = wrong[issued] + 1 /\ wrong'[issued] < MaxAttempts
      /\ \A n \in Codes \ {issued} : wrong'[n] = wrong[n]
  BY <1>1, <1>2 DEF TypeOK
<1>4. /\ store' = issued /\ accepted' = accepted
      /\ \A d \in Calls \ {c} : call'[d] = call[d]
      /\ call'[c].pc # "delete"
      /\ AloneInv'
  <2>1. CASE shared
    <3>1. /\ attempts' = [attempts EXCEPT ![call[c].code] = @ + 1]
          /\ store' = call[c].code /\ Return(c, FALSE)
      BY <2>1 DEF Miss
    <3>2. /\ call'[c].pc = "idle" /\ \A d \in Calls \ {c} : call'[d] = call[d]
          /\ accepted' = accepted
      BY <3>1 DEF Return, NoCall, TypeOK
    <3>3. attempts'[issued] = wrong'[issued]
      BY <1>2, <1>3, <2>1, <3>1 DEF CountInv, TypeOK
    <3>4. AloneInv'
      BY <1>1, <1>2, <1>3, <3>1, <3>2, <3>3, Later, SoloKeeps
    <3>. QED
      BY <1>2, <3>1, <3>2, <3>4
  <2>2. CASE ~ shared
    <3>1. /\ call' = [call EXCEPT ![c] = [call[c] EXCEPT !.pc = "set"]]
          /\ UNCHANGED <<store, attempts, accepted>>
      BY <2>2 DEF Miss, TypeOK
    <3>2. call[c] \in Call
      BY DEF TypeOK
    <3>3. /\ call'[c].pc = "set" /\ call'[c].code = issued
          /\ call'[c].attempts = call[c].attempts
          /\ \A d \in Calls \ {c} : call'[d] = call[d]
      BY <1>2, <3>1, <3>2 DEF TypeOK, Call
    <3>4. call[c].attempts = wrong[issued]
      BY <1>2, <2>2 DEF Attempts
    <3>5. Newest(c)'
      BY <1>1, <1>2, <1>3, <3>1, <3>3, <3>4 DEF Newest
    <3>6. AloneInv'
      BY <1>1, <1>2, <1>3, <3>1, <3>3, <3>5, Later, SoloKeeps
    <3>. QED
      BY <1>2, <3>1, <3>3, <3>6
  <2>. QED
    BY <2>1, <2>2
<1>5. ~ Deleting' /\ ~ Accepting'
  BY <1>1, <1>4, Solo
<1>6. Issued' = Issued /\ Misses' = Misses + 1 /\ Uses' = Uses /\ Misses' < MaxAttempts
  BY <1>1, <1>2, <1>3, <1>4, <1>5 DEF Issued, Misses, Uses, TypeOK
<1>7. Pending'
  BY <1>1, <1>2, <1>4, <1>5 DEF Pending
<1>. QED
  BY <1>2, <1>4, <1>6, <1>7, MissMaps

(* Redis carries out the command: for the code it is already done. *)
LEMMA CommandMapped ==
  ASSUME IndInv, AloneInv, alone, NEW c \in Calls, Deleted(c) \/ Written(c),
         alone' = alone, shared' = shared
  PROVE  AloneInv' /\ [Code!Next]_(Code!vars)
<1> USE DEF IndInv
<1>1. call[c].pc \in {"delete", "set"} /\ UNCHANGED <<left, issued, wrong>>
  BY DEF Deleted, Written
<1>2. /\ Newest(c) /\ call[c].code = issued /\ store \in {0, issued}
  BY <1>1 DEF AloneInv, Newest
<1>3. issued \in Codes /\ issued # 0 /\ issued > 0
  <2>1. call[c].code \in 1..issued /\ issued \in 0..MaxCodes
    BY <1>1 DEF CallInv, TypeOK
  <2>. QED
    BY <1>2, <2>1, CodesAssumption DEF Codes
<1>4. call[c].match \in BOOLEAN /\ accepted[issued] \in Nat /\ left[issued] \in -1..Ttl
  BY <1>3 DEF TypeOK, Call
<1>5. CASE Deleted(c)
  <2>1. call[c].pc = "delete" /\ store' = 0 /\ Return(c, call[c].match)
    BY <1>5 DEF Deleted
  <2>2. call'[c].pc = "idle" /\ \A d \in Calls \ {c} : call'[d] = call[d]
    BY <2>1 DEF Return, NoCall, TypeOK
  <2>3. /\ \A n \in Codes \ {issued} : accepted'[n] = accepted[n]
        /\ accepted'[issued] = accepted[issued] + (IF call[c].match THEN 1 ELSE 0)
    BY <1>2, <1>3, <1>4, <2>1 DEF Return, TypeOK
  <2>4. AloneInv'
    BY <1>1, <1>3, <2>1, <2>2, <2>3, Later, SoloKeeps
  <2>5. Deleting /\ ~ Deleting' /\ ~ Accepting' /\ (Accepting <=> call[c].match)
    BY <2>1, <2>2, Solo
  <2>6. Issued' = Issued /\ Misses' = Misses /\ Uses' = Uses /\ (Pending' <=> Pending)
    BY <1>1, <1>3, <1>4, <2>1, <2>3, <2>5 DEF Issued, Misses, Uses, Pending
  <2>. QED
    BY <2>4, <2>6, StutterMaps
<1>6. CASE Written(c)
  <2>1. /\ call[c].pc = "set" /\ store' = issued /\ Return(c, FALSE)
        /\ attempts'[issued] = call[c].attempts + 1
    BY <1>2, <1>3, <1>6 DEF Written, TypeOK
  <2>2. /\ call'[c].pc = "idle" /\ \A d \in Calls \ {c} : call'[d] = call[d]
        /\ accepted' = accepted
    BY <2>1 DEF Return, NoCall, TypeOK
  <2>3. attempts'[issued] = wrong'[issued] /\ (store = issued \/ left[issued] < 0)
    BY <1>1, <1>2, <2>1 DEF Newest
  <2>4. AloneInv'
    BY <1>1, <2>1, <2>2, <2>3, Later, SoloKeeps
  <2>5. ~ Deleting /\ ~ Deleting' /\ ~ Accepting' /\ ~ Accepting
    BY <2>1, <2>2, Solo
  <2>6. Pending' <=> Pending
    <3>1. left[issued] < 0 => ~ (left[issued] >= 0)
      BY <1>4, TtlAssumption
    <3>. QED
      BY <1>1, <1>2, <1>3, <2>1, <2>3, <2>5, <3>1 DEF Pending
  <2>7. Issued' = Issued /\ Misses' = Misses /\ Uses' = Uses
    BY <1>1, <2>2, <2>5 DEF Issued, Misses, Uses
  <2>. QED
    BY <2>4, <2>6, <2>7, StutterMaps
<1>. QED
  BY <1>5, <1>6

LEMMA VerifyMapped ==
  ASSUME IndInv, AloneInv, alone, NEW c \in Calls, Verify(c), alone' = alone, shared' = shared
  PROVE  AloneInv' /\ [Code!Next]_(Code!vars)
<1>1. CASE Reject(c)
  <2>1. /\ call[c].pc = "check" /\ Spent(c) /\ Delete(c, FALSE)
        /\ UNCHANGED <<attempts, left, issued, wrong>>
    BY <1>1 DEF Reject
  <2>2. AloneInv' /\ Issued' = Issued /\ Misses' = wrong[issued] /\ Uses' = Uses + 0
    BY <2>1, DeleteMapped
  <2>3. ~ Pending /\ Misses = wrong[issued] /\ Uses \in Nat
    BY <2>1, Comparing
  <2>4. ~ Pending'
    <3>1. left[issued] \in -1..Ttl /\ left[issued] < 0
      BY <2>1, Comparing
    <3>2. store' \in {0, issued}
      BY <2>1, <2>2 DEF AloneInv
    <3>. QED
      BY <2>1, <3>1, <3>2, TtlAssumption DEF Pending
  <2>. QED
    BY <2>2, <2>3, <2>4, StutterMaps
<1>2. CASE Accept(c)
  <2>1. /\ call[c].pc = "check" /\ ~ Spent(c) /\ Delete(c, TRUE)
        /\ UNCHANGED <<attempts, left, issued, wrong>>
    BY <1>2 DEF Accept
  <2>2. Pending /\ Misses = wrong[issued] /\ left[issued] >= 0 /\ left[issued] \in -1..Ttl
    BY <2>1, Comparing DEF Pending
  <2>3. /\ AloneInv' /\ (~ Pending' \/ left[issued] < 0)
        /\ Issued' = Issued /\ Misses' = wrong[issued] /\ Uses' = Uses + 1
    BY <2>1, DeleteMapped
  <2>4. ~ Pending'
    BY <2>2, <2>3, TtlAssumption
  <2>. QED
    BY <2>2, <2>3, <2>4, UseMaps
<1>3. CASE Burn(c)
  <2>1. /\ call[c].pc = "check" /\ ~ Spent(c) /\ Delete(c, FALSE)
        /\ Attempts(c) + 1 >= MaxAttempts
        /\ wrong' = [wrong EXCEPT ![call[c].code] = @ + 1]
        /\ UNCHANGED <<left, issued>>
    BY <1>3 DEF Burn
  <2>2. /\ Pending /\ Misses = wrong[issued] /\ left[issued] >= 0 /\ left[issued] \in -1..Ttl
        /\ call[c].code = issued /\ issued \in Codes /\ Attempts(c) = wrong[issued]
        /\ wrong[issued] \in Nat /\ Uses \in Nat
    BY <2>1, Comparing DEF Pending
  <2>3. /\ wrong'[issued] = wrong[issued] + 1
        /\ \A n \in Codes : n > issued => wrong'[n] = wrong[n]
    BY <2>1, <2>2 DEF IndInv, TypeOK, Codes
  <2>4. /\ AloneInv' /\ (~ Pending' \/ left[issued] < 0)
        /\ Issued' = Issued /\ Misses' = wrong'[issued] /\ Uses' = Uses + 0
    BY <2>1, <2>3, DeleteMapped
  <2>5. ~ Pending'
    BY <2>2, <2>4, TtlAssumption
  <2>6. Misses' = Misses + 1 /\ ~ (Misses' < MaxAttempts) /\ Uses' = Uses
    BY <2>1, <2>2, <2>3, <2>4, AttemptsAssumption
  <2>. QED
    BY <2>2, <2>4, <2>5, <2>6, MissMaps
<1>. QED
  BY <1>1, <1>2, <1>3, ReadMapped, MissMapped, CommandMapped DEF Verify

LEMMA StepMapped ==
  ASSUME IndInv, AloneInv, [Next]_vars
  PROVE  AloneInv' /\ [Code!Next]_(Code!vars)
<1>1. CASE UNCHANGED vars
  <2>1. AloneInv'
    <3>1. \A c \in Calls : Newest(c)' <=> Newest(c)
      BY <1>1 DEF vars, Newest, Attempts
    <3>. QED
      BY <1>1, <3>1 DEF vars, AloneInv
  <2>2. Issued' = Issued /\ Misses' = Misses /\ Uses' = Uses /\ (Pending' <=> Pending)
    BY <1>1 DEF vars, Issued, Misses, Uses, Pending, Deleting, Accepting
  <2>. QED
    BY <2>1, <2>2, StutterMaps
<1>2. CASE Next /\ alone
  BY <1>2, IssueMapped, TimeMapped, VerifyMapped DEF Next
<1>3. CASE Next /\ ~ alone
  BY <1>3, OverlapMaps DEF Next
<1>. QED
  BY <1>1, <1>2, <1>3

(* Calls of verify() that do not overlap implement a one-time code, with either store:
   the newest code is used at most once, burned after MaxAttempts wrong tries, or
   expires. *)
THEOREM AloneIsOneTime == Spec => ImplementsCode
<1>1. IndInv /\ AloneInv /\ [Next]_vars => AloneInv'
  BY StepMapped
<1>2. IndInv /\ AloneInv /\ [Next]_vars => [Code!Next]_(Code!vars)
  BY StepMapped
<1>. QED
  BY <1>1, <1>2, InitMaps, Inductive, PTL DEF Spec, ImplementsCode, Code!Spec
=============================================================================
