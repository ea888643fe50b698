------------------------- MODULE CachedMethods_proofs -------------------------
(* Proofs about CachedMethods, for any calls, keys, publications and
   decorations, with either store. *)
EXTENDS CachedMethods, SequenceTheorems, TLAPS

-----------------------------------------------------------------------------
(* The inductive invariant. *)

(* A call whose result may be in the store. *)
Late == {"expire", "done", "dead"}

(* Trails: of advice that ran in its order, after the method; of all of it; *)
(* of none.                                                                 *)
Ordered(t) == \A i \in 1..Len(t) : t[i] = i - 1
Full(t) == Len(t) = 1 + Afters
Short(t) == Len(t) <= 1

(* What brought a call to where it is, and what it has done. *)
CallOK(c) ==
  /\ phase[c] = "idle" <=> call[c].caller = "none"
  /\ phase[c] \in {"lookup", "set", "expire"} => Cached(call[c])
  /\ phase[c] \in {"clear", "deletes"} => Evicts(call[c])
  /\ phase[c] \in {"begin", "commit"} => InTransaction(call[c])
  /\ phase[c] \in {"idle", "lookup", "clear", "deletes", "begin"} =>
       outcome[c] = "none" /\ trail[c] = <<>>
  /\ phase[c] \in {"body", "running"} =>
       /\ outcome[c] = IF InTransaction(call[c]) THEN "open" ELSE "none"
       /\ trail[c] = <<>>
  /\ phase[c] = "commit" => outcome[c] = "open" /\ trail[c] # <<>>
  /\ phase[c] \in {"set", "expire"} =>
       /\ outcome[c] = IF InTransaction(call[c]) THEN "committed" ELSE "none"
       /\ Full(trail[c])
  /\ outcome[c] = "committed" => Full(trail[c])
  /\ call[c].caller = "event" => phase[c] \in {"body", "running", "done", "dead"}
  /\ call[c].caller = "event" /\ phase[c] = "done" => trail[c] # <<>>
  /\ call[c].caller = "self" => Short(trail[c])
  /\ Ordered(trail[c])
  /\ trail[c] # <<>> /\ call[c].caller # "self" /\ ~ failed[c] => Full(trail[c])

(* The result of the call e may be what is kept under k. *)
Kept(e, k) ==
  /\ e \in Calls /\ phase[e] \in Late
  /\ Cached(call[e]) /\ call[e].key = k
  /\ Full(trail[e])
  /\ outcome[e] = IF InTransaction(call[e]) THEN "committed" ELSE "none"

StoreOK == \A k \in Keys : Stored(k) => Kept(store[k].by, k)

(* What a clear() had to remove was stored before, and until it ends, what  *)
(* is left of that is under the keys it has yet to delete.                  *)
ClearOK ==
  /\ \A e \in cleared : phase[e] \in Late /\ \A k \in Keys : Stored(k) => store[k].by # e
  /\ \A d \in Calls, e \in Calls : e \in evictable[d] => phase[e] \in Late
  /\ \A d \in Calls, k \in Keys :
       phase[d] = "deletes" /\ Stored(k) /\ store[k].by \in evictable[d] => k \in keysLeft[d]

Inv == TypeOK /\ (\A c \in Calls : CallOK(c)) /\ StoreOK /\ ClearOK

-----------------------------------------------------------------------------
(* What the steps have in common. *)

(* A call that has not finished its method. *)
LEMMA EmptyTrail == Ordered(<<>>) /\ Short(<<>>)
<1>1. Len(<<>>) = 0
  OBVIOUS
<1>2. 1..0 = {}
  OBVIOUS
<1> QED BY <1>1, <1>2 DEF Ordered, Short

(* Nothing happens to the history of a call once its result may be stored. *)
LateStays ==
  /\ managed' = managed
  /\ \A e \in Calls : phase[e] \in Late =>
       /\ phase'[e] \in Late /\ call'[e] = call[e]
       /\ outcome'[e] = outcome[e] /\ trail'[e] = trail[e]

(* No new result is stored. *)
StoresNothing ==
  \A k \in Keys : Stored(k)' => Stored(k) /\ store'[k].by = store[k].by

(* Only the call c goes on. *)
OnlyCall(c) ==
  /\ managed' = managed
  /\ \A d \in Calls : d # c =>
       /\ phase'[d] = phase[d] /\ call'[d] = call[d]
       /\ outcome'[d] = outcome[d] /\ trail'[d] = trail[d] /\ failed'[d] = failed[d]

LEMMA OtherCalls ==
  ASSUME Inv, NEW c \in Calls, OnlyCall(c), phase[c] \notin Late, CallOK(c)'
  PROVE  (\A d \in Calls : CallOK(d)') /\ LateStays
<1>1. ASSUME NEW d \in Calls, d # c
      PROVE  CallOK(d)'
  <2>1. CallOK(d)
    BY DEF Inv
  <2>2. /\ managed' = managed /\ phase'[d] = phase[d] /\ call'[d] = call[d]
        /\ outcome'[d] = outcome[d] /\ trail'[d] = trail[d] /\ failed'[d] = failed[d]
    BY <1>1 DEF OnlyCall
  <2> QED BY <2>1, <2>2 DEF CallOK, Cached, Evicts, InTransaction
<1>2. LateStays
  BY DEF OnlyCall, LateStays
<1> QED BY <1>1, <1>2

(* A result that is kept stays one that may be kept. *)
LEMMA KeptStays ==
  ASSUME LateStays, NEW e, NEW k, Kept(e, k)
  PROVE  Kept(e, k)'
BY DEF LateStays, Kept, Cached, InTransaction

LEMMA StoreStays ==
  ASSUME Inv, LateStays, StoresNothing
  PROVE  StoreOK'
<1> SUFFICES ASSUME NEW k \in Keys, Stored(k)'
             PROVE  Kept(store[k].by, k)'
  BY DEF StoreOK
<1>1. Stored(k) /\ store'[k].by = store[k].by
  BY DEF StoresNothing
<1>2. PICK e : e = store[k].by
  OBVIOUS
<1>3. Kept(e, k)
  BY <1>1, <1>2 DEF Inv, StoreOK
<1>4. Kept(e, k)'
  BY <1>3, KeptStays
<1> QED BY <1>1, <1>2, <1>4 DEF Kept

(* A step that stores nothing and clears nothing. *)
LEMMA QuietStep ==
  ASSUME Inv, TypeOK', \A c \in Calls : CallOK(c)', LateStays, StoresNothing,
         UNCHANGED <<keysLeft, evictable, cleared>>,
         \A d \in Calls : phase'[d] = "deletes" => phase[d] = "deletes"
  PROVE  Inv'
<1>1. StoreOK'
  BY StoreStays
<1>2. ClearOK'
  <2>1. ASSUME NEW e \in cleared'
        PROVE  phase'[e] \in Late /\ \A k \in Keys : Stored(k)' => store'[k].by # e
    <3>1. e \in cleared /\ e \in Calls
      BY DEF Inv, TypeOK
    <3> QED BY <3>1 DEF Inv, ClearOK, LateStays, StoresNothing
  <2>2. \A d \in Calls, e \in Calls : e \in evictable'[d] => phase'[e] \in Late
    BY DEF Inv, ClearOK, LateStays
  <2>3. ASSUME NEW d \in Calls, NEW k \in Keys,
               phase'[d] = "deletes", Stored(k)', store'[k].by \in evictable'[d]
        PROVE  k \in keysLeft'[d]
    BY <2>3 DEF Inv, ClearOK, StoresNothing
  <2> QED BY <2>1, <2>2, <2>3 DEF ClearOK
<1> QED BY <1>1, <1>2 DEF Inv

(* A call goes to another phase. *)
LEMMA Goes ==
  ASSUME Inv, NEW c \in Calls, NEW p \in Phases, Goto(c, p)
  PROVE  /\ phase' \in [Calls -> Phases] /\ phase'[c] = p
         /\ \A d \in Calls : d # c => phase'[d] = phase[d]
BY DEF Inv, TypeOK, Goto

(* One call goes on to the phase p, without anything being stored, cleared *)
(* or deleted, and its history is what that phase promises.                *)
LEMMA QuietCall ==
  ASSUME Inv, NEW c \in Calls, NEW p \in Phases \ {"deletes"}, Goto(c, p),
         phase[c] \notin Late, OnlyCall(c), CallOK(c)', TypeOK',
         UNCHANGED cacheVars
  PROVE  Inv'
<1>1. (\A d \in Calls : CallOK(d)') /\ LateStays
  BY OtherCalls
<1>2. StoresNothing
  BY DEF StoresNothing, Stored, cacheVars
<1>3. UNCHANGED <<keysLeft, evictable, cleared>>
  BY DEF cacheVars
<1>4. \A d \in Calls : phase'[d] = "deletes" => phase[d] = "deletes"
  BY Goes
<1> QED BY <1>1, <1>2, <1>3, <1>4, QuietStep

-----------------------------------------------------------------------------
(* The steps of a call. *)

LEMMA CallStep ==
  ASSUME Inv, NEW c \in Calls, NEW m \in Methods, NEW k \in Keys,
         NEW who \in {"proxy", "self"}, Call(c, m, k, who)
  PROVE  Inv'
<1> DEFINE x == [caller |-> who, method |-> m, key |-> k]
           p == IF Cached(x) THEN "lookup" ELSE IF Evicts(x) THEN "clear" ELSE Inside(x)
<1>1. /\ phase[c] = "idle" /\ call' = [call EXCEPT ![c] = x] /\ Goto(c, p)
      /\ UNCHANGED <<managed, backend, store, keysLeft, evictable, cleared,
                     failed, trail, outcome, published>>
  BY DEF Call, cacheVars, runVars
<1>2. /\ x \in CallRecord /\ x.caller = who /\ x.caller # "none" /\ x.caller # "event"
  BY DEF CallRecord
<1>3. p \in Phases \ {"deletes"}
  BY DEF Phases, Inside
<1>4. /\ call' \in [Calls -> CallRecord] /\ call'[c] = x
      /\ \A d \in Calls : d # c => call'[d] = call[d]
  BY <1>1, <1>2 DEF Inv, TypeOK
<1>5. /\ phase' \in [Calls -> Phases] /\ phase'[c] = p
      /\ \A d \in Calls : d # c => phase'[d] = phase[d]
  BY <1>1, <1>3, Goes
<1>6. outcome[c] = "none" /\ trail[c] = <<>>
  BY <1>1 DEF Inv, CallOK
<1>7. TypeOK'
  BY <1>1, <1>4, <1>5 DEF Inv, TypeOK, NoEntry
<1>8. CallOK(c)'
  <2>1. /\ phase'[c] = p /\ call'[c] = x /\ outcome'[c] = "none" /\ trail'[c] = <<>>
        /\ managed' = managed
    BY <1>1, <1>4, <1>5, <1>6
  <2>2. /\ p = "lookup" => Cached(x)
        /\ p = "clear" => Evicts(x)
        /\ p = "begin" => InTransaction(x)
        /\ p = "body" => ~ InTransaction(x)
        /\ p \in {"lookup", "clear", "begin", "body"}
    BY DEF Inside
  <2>3. Cached(x)' = Cached(x) /\ Evicts(x)' = Evicts(x)
    BY DEF Cached, Evicts
  <2>4. InTransaction(x)' <=> InTransaction(x)
    BY <2>1 DEF InTransaction
  <2> HIDE DEF x, p
  <2> QED BY <2>1, <2>2, <1>2, <2>4, EmptyTrail DEF CallOK, Cached, Evicts, InTransaction
<1> QED BY <1>1, <1>3, <1>4, <1>5, <1>7, <1>8, QuietCall DEF OnlyCall, Late, cacheVars

LEMMA LookupStep ==
  ASSUME Inv, NEW c \in Calls, Lookup(c)
  PROVE  Inv'
<1> DEFINE p == IF Stored(call[c].key) THEN "done" ELSE Inside(call[c])
<1>1. /\ phase[c] = "lookup" /\ Goto(c, p)
      /\ UNCHANGED <<managed, backend, call, store, keysLeft, evictable, cleared,
                     failed, trail, outcome, published>>
  BY DEF Lookup, cacheVars, runVars, Inwards
<1>2. p \in Phases \ {"deletes"}
  BY DEF Phases, Inside
<1>3. /\ phase' \in [Calls -> Phases] /\ phase'[c] = p
      /\ \A d \in Calls : d # c => phase'[d] = phase[d]
  BY <1>1, <1>2, Goes
<1>4. TypeOK'
  BY <1>1, <1>3 DEF Inv, TypeOK, NoEntry
<1>5. CallOK(c)'
  <2>1. CallOK(c) /\ Cached(call[c])
    BY <1>1 DEF Inv, CallOK
  <2>2. /\ p \in {"done", "begin", "body"}
        /\ p = "begin" => InTransaction(call[c])
        /\ p = "body" => ~ InTransaction(call[c])
    BY DEF Inside
  <2> HIDE DEF p
  <2> QED BY <1>1, <1>3, <2>1, <2>2 DEF CallOK, Cached, Evicts, InTransaction
<1> QED BY <1>1, <1>2, <1>3, <1>4, <1>5, QuietCall DEF OnlyCall, Late, cacheVars

LEMMA BeginStep ==
  ASSUME Inv, NEW c \in Calls, Begin(c)
  PROVE  Inv'
<1>1. /\ phase[c] = "begin" /\ Goto(c, "body") /\ outcome' = [outcome EXCEPT ![c] = "open"]
      /\ UNCHANGED <<managed, backend, call, store, keysLeft, evictable, cleared,
                     failed, trail, published>>
  BY DEF Begin, cacheVars
<1>2. /\ phase' \in [Calls -> Phases] /\ phase'[c] = "body"
      /\ \A d \in Calls : d # c => phase'[d] = phase[d]
  BY <1>1, Goes DEF Phases
<1>3. /\ outcome' \in [Calls -> {"none", "open", "committed", "rolled_back"}]
      /\ outcome'[c] = "open"
      /\ \A d \in Calls : d # c => outcome'[d] = outcome[d]
  BY <1>1 DEF Inv, TypeOK
<1>4. TypeOK'
  BY <1>1, <1>2, <1>3 DEF Inv, TypeOK, NoEntry
<1>5. CallOK(c)'
  <2>1. CallOK(c) /\ InTransaction(call[c])
    BY <1>1 DEF Inv, CallOK
  <2> QED BY <1>1, <1>2, <1>3, <2>1 DEF CallOK, Cached, Evicts, InTransaction
<1>6. OnlyCall(c)
  BY <1>1, <1>2, <1>3 DEF OnlyCall
<1> QED BY <1>1, <1>4, <1>5, <1>6, QuietCall DEF Phases, Late, cacheVars

(* The method's end before what came after it. *)
LEMMA Prefixed ==
  ASSUME NEW r \in Seq(0..Afters), NEW t, t = << 0 >> \o r
  PROVE  /\ t \in Seq(0..Afters) /\ Len(t) = 1 + Len(r) /\ t[1] = 0
         /\ \A i \in 2..1 + Len(r) : t[i] = r[i - 1]
<1>1. 0 \in 0..Afters
  BY AftersAssumption
<1>2. PICK z : z = <<0>>
  OBVIOUS
<1>3. z \in Seq(0..Afters) /\ Len(z) = 1 /\ z[1] = 0
  BY <1>1, <1>2
<1>4. t = z \o r
  BY <1>2
<1>5. t \in Seq(0..Afters) /\ Len(t) = Len(z) + Len(r)
  BY <1>3, <1>4, ConcatProperties
<1>6. \A i \in 1..Len(z) + Len(r) : t[i] = IF i <= Len(z) THEN z[i] ELSE r[i - Len(z)]
  BY <1>3, <1>4, ConcatProperties
<1>7. Len(r) \in Nat
  BY LenProperties
<1>8. t[1] = 0
  BY <1>3, <1>6, <1>7
<1>9. \A i \in 2..1 + Len(r) : t[i] = r[i - 1]
  BY <1>3, <1>6, <1>7
<1> QED BY <1>3, <1>5, <1>8, <1>9

LEMMA OnlyEnded ==
  ASSUME NEW e \in Seq(0..Afters), Len(e) = 0, NEW t, t = << 0 >> \o e
  PROVE  t \in Seq(0..Afters) /\ t # <<>> /\ Ordered(t) /\ Short(t)
<1>1. t \in Seq(0..Afters) /\ Len(t) = 1 + Len(e) /\ t[1] = 0
  BY Prefixed
<1>2. Len(t) = 1
  BY <1>1
<1>3. t # <<>>
  BY <1>2
<1>4. \A i \in 1..Len(t) : t[i] = i - 1
  BY <1>1, <1>2
<1> QED BY <1>1, <1>2, <1>3, <1>4 DEF Ordered, Short

(* What runAfter leaves behind: the end of the method and the advice after it, in
   order, and all of it if none threw. *)
LEMMA Trails ==
  ASSUME NEW throws \in 0..Afters, NEW advised \in BOOLEAN, ~ advised => throws = 0,
         NEW t, t = << 0 >> \o (IF advised THEN RunAfter(throws) ELSE <<>>)
  PROVE  /\ t \in Seq(0..Afters) /\ t # <<>> /\ Ordered(t)
         /\ advised /\ throws = 0 => Full(t)
         /\ ~ advised => Short(t)
<1> DEFINE n == IF throws = 0 THEN Afters ELSE throws
           r == [i \in 1..n |-> i]
<1>1. n \in 0..Afters /\ n \in Nat
  BY AftersAssumption
<1>2. CASE advised
  <2>1. t = <<0>> \o r
    BY <1>2 DEF RunAfter
  <2>2. throws = 0 => n = Afters
    OBVIOUS
  <2> HIDE DEF n
  <2>3. \A i \in 1..n : i \in 0..Afters /\ r[i] = i
    BY <1>1, AftersAssumption
  <2>4. r \in [1..n -> 0..Afters]
    BY <2>3
  <2>5. r \in Seq(0..Afters)
    BY <1>1, <2>4, IsASeq
  <2>6. Len(r) = n
    BY <1>1, <2>4, <2>5, LenProperties
  <2> HIDE DEF r
  <2>7. /\ t \in Seq(0..Afters) /\ Len(t) = 1 + n /\ t[1] = 0
        /\ \A i \in 2..1 + n : t[i] = r[i - 1]
    BY <2>1, <2>5, <2>6, Prefixed
  <2>8. \A i \in 1..1 + n : t[i] = i - 1
    BY <1>1, <2>3, <2>7
  <2>9. t # <<>> /\ Ordered(t)
    BY <1>1, <2>7, <2>8 DEF Ordered
  <2> QED BY <1>2, <2>2, <2>7, <2>9 DEF Full
<1>3. CASE ~ advised
  <2>1. <<>> \in Seq(0..Afters) /\ Len(<<>>) = 0
    OBVIOUS
  <2>2. t = <<0>> \o <<>>
    BY <1>3
  <2>3. t \in Seq(0..Afters) /\ t # <<>> /\ Ordered(t) /\ Short(t)
    BY <2>1, <2>2, OnlyEnded
  <2> QED BY <1>3, <2>3
<1> QED BY <1>2, <1>3

(* A call leaves its method, and the advice after it. *)
LEMMA LeaveStep ==
  ASSUME Inv, NEW c \in Calls, phase[c] \in {"body", "running"}, NEW fails \in BOOLEAN,
         NEW throws \in Throwing(call[c]), throws # 0 => fails, Leave(c, fails, RunAfter(throws))
  PROVE  Inv'
<1> DEFINE t == <<0>> \o (IF Advised(call[c]) THEN RunAfter(throws) ELSE <<>>)
           p == AfterBody(c, fails)
<1>1. /\ failed' = [failed EXCEPT ![c] = fails] /\ trail' = [trail EXCEPT ![c] = t]
      /\ Goto(c, p)
      /\ UNCHANGED <<managed, backend, call, store, keysLeft, evictable, cleared,
                     outcome, published>>
  BY DEF Leave, cacheVars
<1>2. /\ t \in Seq(0..Afters) /\ t # <<>> /\ Ordered(t)
      /\ Advised(call[c]) /\ ~ fails => Full(t)
      /\ ~ Advised(call[c]) => Short(t)
  <2>1. throws \in 0..Afters /\ (~ Advised(call[c]) => throws = 0)
    BY AftersAssumption DEF Throwing
  <2>2. Advised(call[c]) \in BOOLEAN
    BY DEF Advised
  <2>. QED
    BY <2>1, <2>2, Trails
<1>3. p \in Phases \ {"deletes"}
  BY DEF Phases, AfterBody
<1>4. /\ phase' \in [Calls -> Phases] /\ phase'[c] = p
      /\ \A d \in Calls : d # c => phase'[d] = phase[d]
  BY <1>1, <1>3, Goes
<1> HIDE DEF t
<1>5. /\ trail' \in [Calls -> Seq(0..Afters)] /\ trail'[c] = t
      /\ \A d \in Calls : d # c => trail'[d] = trail[d]
  BY <1>1, <1>2 DEF Inv, TypeOK
<1>6. /\ failed' \in [Calls -> BOOLEAN] /\ failed'[c] = fails
      /\ \A d \in Calls : d # c => failed'[d] = failed[d]
  BY <1>1 DEF Inv, TypeOK
<1>7. TypeOK'
  BY <1>1, <1>4, <1>5, <1>6 DEF Inv, TypeOK, NoEntry
<1>8. CallOK(c)'
  <2>1. CallOK(c)
    BY DEF Inv
  <2>2. /\ p \in {"commit", "set", "done"}
        /\ p = "commit" => InTransaction(call[c])
        /\ p = "set" => Cached(call[c]) /\ ~ InTransaction(call[c]) /\ ~ fails
    BY DEF AfterBody
  <2>3. call[c].caller # "self" <=> Advised(call[c])
    BY DEF Advised
  <2> HIDE DEF p
  <2> QED BY <1>1, <1>2, <1>4, <1>5, <1>6, <2>1, <2>2, <2>3
          DEF CallOK, Cached, Evicts, InTransaction
<1>9. OnlyCall(c)
  BY <1>1, <1>4, <1>5, <1>6 DEF OnlyCall
<1>10. UNCHANGED cacheVars /\ phase[c] \notin Late
  BY <1>1 DEF cacheVars, Late
<1> HIDE DEF p
<1> QED BY <1>1, <1>3, <1>7, <1>8, <1>9, <1>10, QuietCall

LEMMA PromisesStep ==
  ASSUME Inv, NEW c \in Calls, Promises(c)
  PROVE  Inv'
<1>1. /\ phase[c] = "body" /\ Goto(c, "running")
      /\ UNCHANGED <<managed, backend, call, store, keysLeft, evictable, cleared,
                     failed, trail, outcome, published>>
  BY DEF Promises, cacheVars, runVars
<1>2. /\ phase' \in [Calls -> Phases] /\ phase'[c] = "running"
      /\ \A d \in Calls : d # c => phase'[d] = phase[d]
  BY <1>1, Goes DEF Phases
<1>3. TypeOK'
  BY <1>1, <1>2 DEF Inv, TypeOK, NoEntry
<1>4. CallOK(c)'
  <2>1. CallOK(c)
    BY DEF Inv
  <2> QED BY <1>1, <1>2, <2>1 DEF CallOK, Cached, Evicts, InTransaction
<1>5. OnlyCall(c)
  BY <1>1, <1>2 DEF OnlyCall
<1> QED BY <1>1, <1>3, <1>4, <1>5, QuietCall DEF Phases, Late, cacheVars

LEMMA RunStep ==
  ASSUME Inv, NEW c \in Calls, Throws(c) \/ Returns(c) \/ Promises(c) \/ Settles(c)
  PROVE  Inv'
<1>1. CASE Throws(c)
  BY <1>1, LeaveStep DEF Throws
<1>2. CASE Returns(c)
  <2>1. PICK throws \in Throwing(call[c]) : Leave(c, throws # 0, RunAfter(throws))
    BY <1>2 DEF Returns
  <2>2. (throws # 0) \in BOOLEAN
    OBVIOUS
  <2> QED BY <1>2, <2>1, <2>2, LeaveStep DEF Returns
<1>3. CASE Settles(c)
  <2>1. PICK rejects \in BOOLEAN, throws \in Throwing(call[c]) :
          Leave(c, rejects \/ throws # 0, RunAfter(throws))
    BY <1>3 DEF Settles
  <2>2. (rejects \/ throws # 0) \in BOOLEAN
    OBVIOUS
  <2> QED BY <1>3, <2>1, <2>2, LeaveStep DEF Settles
<1> QED BY <1>1, <1>2, <1>3, PromisesStep

LEMMA CommitStep ==
  ASSUME Inv, NEW c \in Calls, Commit(c)
  PROVE  Inv'
<1>1. PICK refused \in BOOLEAN :
        LET fails == failed[c] \/ refused IN
        /\ outcome' = [outcome EXCEPT ![c] = IF fails THEN "rolled_back" ELSE "committed"]
        /\ failed' = [failed EXCEPT ![c] = fails]
        /\ Goto(c, IF ~ fails /\ Cached(call[c]) THEN "set" ELSE "done")
  BY DEF Commit
<1> DEFINE fails == failed[c] \/ refused
           o == IF fails THEN "rolled_back" ELSE "committed"
           p == IF ~ fails /\ Cached(call[c]) THEN "set" ELSE "done"
<1>2. /\ failed' = [failed EXCEPT ![c] = fails] /\ outcome' = [outcome EXCEPT ![c] = o]
      /\ Goto(c, p)
  BY <1>1
<1>3. /\ phase[c] = "commit"
      /\ UNCHANGED <<managed, backend, call, store, keysLeft, evictable, cleared,
                     trail, published>>
  BY DEF Commit, cacheVars
<1>4. fails \in BOOLEAN /\ o \in {"committed", "rolled_back"} /\ p \in Phases \ {"deletes"}
  BY DEF Phases
<1>5. /\ phase' \in [Calls -> Phases] /\ phase'[c] = p
      /\ \A d \in Calls : d # c => phase'[d] = phase[d]
  BY <1>2, <1>4, Goes
<1>6. /\ outcome' \in [Calls -> {"none", "open", "committed", "rolled_back"}] /\ outcome'[c] = o
      /\ \A d \in Calls : d # c => outcome'[d] = outcome[d]
  BY <1>2, <1>4 DEF Inv, TypeOK
<1>7. /\ failed' \in [Calls -> BOOLEAN] /\ failed'[c] = fails
      /\ \A d \in Calls : d # c => failed'[d] = failed[d]
  BY <1>2, <1>4 DEF Inv, TypeOK
<1>8. TypeOK'
  BY <1>3, <1>5, <1>6, <1>7 DEF Inv, TypeOK, NoEntry
<1>9. CallOK(c)'
  <2>1. CallOK(c) /\ InTransaction(call[c])
    BY <1>3 DEF Inv, CallOK
  <2>2. /\ p \in {"set", "done"}
        /\ p = "set" => Cached(call[c]) /\ o = "committed"
        /\ o = "committed" => ~ fails
        /\ ~ fails => ~ failed[c]
    OBVIOUS
  <2>3. ~ failed[c] => Full(trail[c])
    BY <1>3, <2>1 DEF CallOK, InTransaction
  <2> HIDE DEF p, o, fails
  <2> QED BY <1>3, <1>4, <1>5, <1>6, <1>7, <2>1, <2>2, <2>3
          DEF CallOK, Cached, Evicts, InTransaction
<1>10. OnlyCall(c)
  BY <1>3, <1>5, <1>6, <1>7 DEF OnlyCall
<1>11. UNCHANGED cacheVars /\ phase[c] \notin Late
  BY <1>3 DEF cacheVars, Late
<1> HIDE DEF p, o, fails
<1> QED BY <1>2, <1>4, <1>8, <1>9, <1>10, <1>11, QuietCall

(* A call of the shared store fails. *)
LEMMA StoreFailsStep ==
  ASSUME Inv, NEW c \in Calls, StoreFails(c)
  PROVE  Inv'
<1>1. /\ phase[c] \in {"lookup", "clear", "deletes", "set", "expire"}
      /\ failed' = [failed EXCEPT ![c] = TRUE] /\ Goto(c, "done")
      /\ UNCHANGED <<managed, backend, call, store, keysLeft, evictable, cleared,
                     trail, outcome, published>>
  BY DEF StoreFails, cacheVars
<1>2. /\ phase' \in [Calls -> Phases] /\ phase'[c] = "done"
      /\ \A d \in Calls : d # c => phase'[d] = phase[d]
  BY <1>1, Goes DEF Phases
<1>3. failed' \in [Calls -> BOOLEAN]
  BY <1>1 DEF Inv, TypeOK
<1>4. TypeOK'
  BY <1>1, <1>2, <1>3 DEF Inv, TypeOK, NoEntry
<1>5. ASSUME NEW d \in Calls
      PROVE  CallOK(d)'
  <2>1. CallOK(d)
    BY DEF Inv
  <2>2. CASE d = c
    <3>1. phase[c] # "idle" /\ call[c].caller # "event"
      BY <1>1, <2>1, <2>2 DEF CallOK
    <3> QED BY <1>1, <1>2, <2>1, <2>2, <3>1 DEF CallOK, Cached, Evicts, InTransaction
  <2>3. CASE d # c
    BY <1>1, <1>2, <2>1, <2>3 DEF CallOK, Cached, Evicts, InTransaction
  <2> QED BY <2>2, <2>3
<1>6. LateStays
  BY <1>1, <1>2 DEF LateStays, Late
<1>7. StoresNothing
  BY <1>1 DEF StoresNothing, Stored
<1>8. \A d \in Calls : phase'[d] = "deletes" => phase[d] = "deletes"
  BY <1>2
<1> QED BY <1>1, <1>4, <1>5, <1>6, <1>7, <1>8, QuietStep

(* A replica dies. *)
LEMMA CrashStep ==
  ASSUME Inv, NEW c \in Calls, Crash(c)
  PROVE  Inv'
<1> DEFINE o == IF outcome[c] = "open" THEN "rolled_back" ELSE outcome[c]
<1>1. /\ phase[c] \notin {"idle", "done", "dead"}
      /\ Goto(c, "dead")
      /\ outcome' = [outcome EXCEPT ![c] = o]
      /\ UNCHANGED <<managed, backend, call, store, keysLeft, evictable, cleared,
                     failed, trail, published>>
  BY DEF Crash, Pending, cacheVars
<1>2. /\ phase' \in [Calls -> Phases] /\ phase'[c] = "dead"
      /\ \A d \in Calls : d # c => phase'[d] = phase[d]
  BY <1>1, Goes DEF Phases
<1>3. /\ outcome' \in [Calls -> {"none", "open", "committed", "rolled_back"}]
      /\ outcome'[c] = o
      /\ \A d \in Calls : d # c => outcome'[d] = outcome[d]
  BY <1>1 DEF Inv, TypeOK
<1>4. TypeOK'
  BY <1>1, <1>2, <1>3 DEF Inv, TypeOK, NoEntry
<1>5. ASSUME NEW d \in Calls
      PROVE  CallOK(d)'
  <2>1. CallOK(d)
    BY DEF Inv
  <2>2. CASE d = c
    BY <1>1, <1>2, <1>3, <2>1, <2>2 DEF CallOK, Cached, Evicts, InTransaction
  <2>3. CASE d # c
    BY <1>1, <1>2, <1>3, <2>1, <2>3 DEF CallOK, Cached, Evicts, InTransaction
  <2> QED BY <2>2, <2>3
<1>6. LateStays
  <2>1. phase[c] \in Late => outcome'[c] = outcome[c]
    <3>1. CallOK(c) /\ (phase[c] \in Late => phase[c] = "expire")
      BY <1>1 DEF Inv, Late
    <3>2. phase[c] = "expire" => outcome[c] # "open"
      BY <3>1 DEF CallOK
    <3> QED BY <1>3, <3>1, <3>2
  <2> QED BY <1>1, <1>2, <1>3, <2>1 DEF LateStays, Late
<1>7. StoresNothing
  BY <1>1 DEF StoresNothing, Stored
<1>8. \A d \in Calls : phase'[d] = "deletes" => phase[d] = "deletes"
  BY <1>2
<1> QED BY <1>1, <1>4, <1>5, <1>6, <1>7, <1>8, QuietStep

(* EXPIRE: the entry, whoever stored it, is no longer kept for ever. *)
LEMMA SetExpiryStep ==
  ASSUME Inv, NEW c \in Calls, SetExpiry(c)
  PROVE  Inv'
<1> DEFINE k == call[c].key
           e == IF Stored(k) THEN [store[k] EXCEPT !.mortal = TRUE] ELSE store[k]
<1>1. /\ phase[c] = "expire" /\ store' = [store EXCEPT ![k] = e] /\ Goto(c, "done")
      /\ UNCHANGED <<managed, backend, call, keysLeft, evictable, cleared,
                     failed, trail, outcome, published>>
  BY DEF SetExpiry, runVars
<1>2. /\ phase' \in [Calls -> Phases] /\ phase'[c] = "done"
      /\ \A d \in Calls : d # c => phase'[d] = phase[d]
  BY <1>1, Goes DEF Phases
<1>3. CallOK(c) /\ Cached(call[c])
  BY <1>1 DEF Inv, CallOK
<1>4. k \in Keys
  <2>1. call[c] \in CallRecord /\ call[c].caller = "proxy"
    BY <1>3 DEF Inv, TypeOK, Cached
  <2> QED BY <2>1 DEF CallRecord
<1>5. store[k] \in {NoEntry} \cup [by : Calls, mortal : BOOLEAN]
  BY <1>4 DEF Inv, TypeOK
<1>6. /\ e \in {NoEntry} \cup [by : Calls, mortal : BOOLEAN]
      /\ e # NoEntry => Stored(k) /\ e.by = store[k].by
  <2>1. CASE Stored(k)
    BY <1>5, <2>1 DEF Stored
  <2>2. CASE ~ Stored(k)
    BY <1>5, <2>2 DEF Stored
  <2> QED BY <2>1, <2>2
<1>7. /\ store' \in [Keys -> {NoEntry} \cup [by : Calls, mortal : BOOLEAN]]
      /\ store'[k] = e /\ \A j \in Keys : j # k => store'[j] = store[j]
  <2> HIDE DEF e, k
  <2> QED BY <1>1, <1>4, <1>6 DEF Inv, TypeOK
<1>8. StoresNothing
  <2> HIDE DEF e, k
  <2> QED BY <1>6, <1>7 DEF StoresNothing, Stored, NoEntry
<1>9. TypeOK'
  <2> HIDE DEF e, k
  <2> QED BY <1>1, <1>2, <1>7 DEF Inv, TypeOK, NoEntry
<1>10. ASSUME NEW d \in Calls
       PROVE  CallOK(d)'
  <2>1. CallOK(d)
    BY DEF Inv
  <2>2. CASE d = c
    <3>1. call[c].caller = "proxy"
      BY <1>3 DEF Cached
    <3> QED BY <1>1, <1>2, <2>1, <2>2, <3>1 DEF CallOK, Cached, Evicts, InTransaction
  <2>3. CASE d # c
    BY <1>1, <1>2, <2>1, <2>3 DEF CallOK, Cached, Evicts, InTransaction
  <2> QED BY <2>2, <2>3
<1>11. LateStays
  BY <1>1, <1>2 DEF LateStays, Late
<1>12. \A d \in Calls : phase'[d] = "deletes" => phase[d] = "deletes"
  BY <1>2
<1> QED BY <1>1, <1>8, <1>9, <1>10, <1>11, <1>12, QuietStep

(* No call goes on. *)
LEMMA NoCall ==
  ASSUME Inv, UNCHANGED <<managed, phase, call, failed, outcome, trail>>
  PROVE  (\A c \in Calls : CallOK(c)') /\ LateStays
<1>1. LateStays
  BY DEF LateStays
<1>2. ASSUME NEW c \in Calls
      PROVE  CallOK(c)'
  BY DEF Inv, CallOK, Cached, Evicts, InTransaction
<1> QED BY <1>1, <1>2

LEMMA ExpireStep ==
  ASSUME Inv, NEW k \in Keys, Expire(k)
  PROVE  Inv'
<1>1. /\ store' = [store EXCEPT ![k] = NoEntry]
      /\ UNCHANGED <<managed, backend, phase, call, keysLeft, evictable, cleared,
                     failed, trail, outcome, published>>
  BY DEF Expire, runVars
<1>2. /\ store' \in [Keys -> {NoEntry} \cup [by : Calls, mortal : BOOLEAN]]
      /\ store'[k] = NoEntry /\ \A j \in Keys : j # k => store'[j] = store[j]
  BY <1>1 DEF Inv, TypeOK
<1>3. TypeOK'
  BY <1>1, <1>2 DEF Inv, TypeOK, NoEntry
<1>4. StoresNothing
  BY <1>2 DEF StoresNothing, Stored, NoEntry
<1> QED BY <1>1, <1>3, <1>4, NoCall, QuietStep

(* publish() starts the listeners of an event. *)
LEMMA PublishStep ==
  ASSUME Inv, NEW p \in Publications, Publish(p)
  PROVE  Inv'
<1>1. PICK cs \in SUBSET {c \in Calls : phase[c] = "idle"}, m \in Methods :
        /\ published' = [published EXCEPT ![p] = [state |-> "waiting", calls |-> cs]]
        /\ call' = [c \in Calls |-> IF c \in cs
                      THEN [caller |-> "event", method |-> m] ELSE call[c]]
        /\ phase' = [c \in Calls |-> IF c \in cs THEN "body" ELSE phase[c]]
  BY DEF Publish
<1>2. UNCHANGED <<managed, backend, store, keysLeft, evictable, cleared,
                  failed, trail, outcome>>
  BY DEF Publish, cacheVars, runVars
<1> DEFINE x == [caller |-> "event", method |-> m]
<1>3. x \in CallRecord /\ x.caller = "event"
  BY DEF CallRecord
<1>4. call' \in [Calls -> CallRecord]
  BY <1>1, <1>3 DEF Inv, TypeOK
<1>5. \A c \in Calls :
        /\ c \in cs => call'[c] = x /\ phase'[c] = "body" /\ phase[c] = "idle"
        /\ c \notin cs => call'[c] = call[c] /\ phase'[c] = phase[c]
  BY <1>1
<1> HIDE DEF x
<1>6. phase' \in [Calls -> Phases]
  BY <1>1 DEF Inv, TypeOK, Phases
<1>7. published' \in [Publications -> [state : {"idle", "waiting", "done"}, calls : SUBSET Calls]]
  <2>1. [state |-> "waiting", calls |-> cs]
           \in [state : {"idle", "waiting", "done"}, calls : SUBSET Calls]
    OBVIOUS
  <2> QED BY <1>1, <2>1 DEF Inv, TypeOK
<1>8. TypeOK'
  BY <1>2, <1>4, <1>6, <1>7 DEF Inv, TypeOK, NoEntry
<1>9. ASSUME NEW c \in Calls
      PROVE  CallOK(c)'
  <2>1. CallOK(c)
    BY DEF Inv
  <2>2. CASE c \in cs
    <3>1. /\ phase'[c] = "body" /\ call'[c].caller = "event" /\ phase[c] = "idle"
          /\ outcome'[c] = outcome[c] /\ trail'[c] = trail[c] /\ failed'[c] = failed[c]
      BY <1>2, <1>3, <1>5, <2>2
    <3>2. outcome[c] = "none" /\ trail[c] = <<>>
      BY <2>1, <3>1 DEF CallOK
    <3>3. ~ InTransaction(call[c])'
      BY <3>1 DEF InTransaction
    <3> QED BY <3>1, <3>2, <3>3, EmptyTrail DEF CallOK
  <2>3. CASE c \notin cs
    BY <1>2, <1>5, <2>1, <2>3 DEF CallOK, Cached, Evicts, InTransaction
  <2> QED BY <2>2, <2>3
<1>10. LateStays
  BY <1>2, <1>5 DEF LateStays, Late
<1>11. StoresNothing
  BY <1>2 DEF StoresNothing, Stored
<1>12. \A d \in Calls : phase'[d] = "deletes" => phase[d] = "deletes"
  BY <1>5
<1> QED BY <1>2, <1>8, <1>9, <1>10, <1>11, <1>12, QuietStep

LEMMA PublishEndsStep ==
  ASSUME Inv, NEW p \in Publications, PublishEnds(p)
  PROVE  Inv'
<1>1. /\ published' = [published EXCEPT ![p].state = "done"]
      /\ UNCHANGED <<managed, backend, phase, call, store, keysLeft, evictable, cleared,
                     failed, trail, outcome>>
  BY DEF PublishEnds, cacheVars, runVars
<1>2. published' \in [Publications -> [state : {"idle", "waiting", "done"}, calls : SUBSET Calls]]
  BY <1>1 DEF Inv, TypeOK
<1>3. TypeOK'
  BY <1>1, <1>2 DEF Inv, TypeOK, NoEntry
<1>4. StoresNothing
  BY <1>1 DEF StoresNothing, Stored
<1> QED BY <1>1, <1>3, <1>4, NoCall, QuietStep

-----------------------------------------------------------------------------
(* The steps that clear the store, and the one that fills it. *)

(* A DEL removes an entry and its key from what is left to delete. *)
LEMMA DeleteStep ==
  ASSUME Inv, NEW c \in Calls, NEW k \in Keys, Delete(c, k)
  PROVE  Inv'
<1>1. /\ store' = [store EXCEPT ![k] = NoEntry]
      /\ keysLeft' = [keysLeft EXCEPT ![c] = keysLeft[c] \ {k}]
      /\ UNCHANGED <<managed, backend, phase, call, evictable, cleared,
                     failed, trail, outcome, published>>
  BY DEF Delete, runVars
<1>2. /\ store' \in [Keys -> {NoEntry} \cup [by : Calls, mortal : BOOLEAN]]
      /\ store'[k] = NoEntry /\ \A j \in Keys : j # k => store'[j] = store[j]
  BY <1>1 DEF Inv, TypeOK
<1>3. /\ keysLeft' \in [Calls -> SUBSET Keys]
      /\ keysLeft'[c] = keysLeft[c] \ {k}
      /\ \A d \in Calls : d # c => keysLeft'[d] = keysLeft[d]
  BY <1>1 DEF Inv, TypeOK
<1>4. TypeOK'
  BY <1>1, <1>2, <1>3 DEF Inv, TypeOK, NoEntry
<1>5. StoresNothing /\ ~ Stored(k)'
  BY <1>2 DEF StoresNothing, Stored, NoEntry
<1>6. (\A d \in Calls : CallOK(d)') /\ LateStays
  BY <1>1, NoCall
<1>7. ClearOK'
  <2>1. ASSUME NEW e \in cleared'
        PROVE  phase'[e] \in Late /\ \A j \in Keys : Stored(j)' => store'[j].by # e
    BY <1>1, <1>5 DEF Inv, ClearOK, StoresNothing
  <2>2. \A d \in Calls, e \in Calls : e \in evictable'[d] => phase'[e] \in Late
    BY <1>1 DEF Inv, ClearOK
  <2>3. ASSUME NEW d \in Calls, NEW j \in Keys,
               phase'[d] = "deletes", Stored(j)', store'[j].by \in evictable'[d]
        PROVE  j \in keysLeft'[d]
    <3>1. j \in keysLeft[d] /\ j # k
      BY <1>1, <1>5, <2>3 DEF Inv, ClearOK, StoresNothing
    <3> QED BY <1>3, <3>1
  <2> QED BY <2>1, <2>2, <2>3 DEF ClearOK
<1> QED BY <1>4, <1>5, <1>6, <1>7, StoreStays DEF Inv

(* What is in the store is the result of a call whose history is decided. *)
LEMMA ResultsAreLate ==
  ASSUME Inv
  PROVE  /\ Results \subseteq Calls
         /\ \A e \in Results : phase[e] \in Late
         /\ \A k \in Keys : Stored(k) => store[k].by \in Results
BY DEF Inv, StoreOK, Kept, Results

(* MemoryCache drops everything at once. *)
LEMMA MemoryClearStep ==
  ASSUME Inv, NEW c \in Calls, Clear(c), backend = "memory"
  PROVE  Inv'
<1> DEFINE p == Inside(call[c])
<1>1. /\ phase[c] = "clear" /\ store' = [k \in Keys |-> NoEntry]
      /\ cleared' = cleared \cup Results /\ Goto(c, p)
      /\ UNCHANGED <<managed, backend, call, keysLeft, evictable,
                     failed, trail, outcome, published>>
  BY DEF Clear, runVars, Inwards
<1>2. p \in Phases \ {"deletes"}
  BY DEF Phases, Inside
<1>3. /\ phase' \in [Calls -> Phases] /\ phase'[c] = p
      /\ \A d \in Calls : d # c => phase'[d] = phase[d]
  BY <1>1, <1>2, Goes
<1>4. /\ store' \in [Keys -> {NoEntry} \cup [by : Calls, mortal : BOOLEAN]]
      /\ \A k \in Keys : ~ Stored(k)'
  BY <1>1 DEF Stored, NoEntry
<1>5. cleared' \subseteq Calls
  BY <1>1, ResultsAreLate DEF Inv, TypeOK
<1>6. TypeOK'
  BY <1>1, <1>3, <1>4, <1>5 DEF Inv, TypeOK, NoEntry
<1>7. CallOK(c)'
  <2>1. CallOK(c)
    BY DEF Inv
  <2>2. /\ p \in {"begin", "body"}
        /\ p = "begin" => InTransaction(call[c])
        /\ p = "body" => ~ InTransaction(call[c])
    BY DEF Inside
  <2>3. call[c].caller = "proxy"
    BY <1>1, <2>1 DEF CallOK, Evicts
  <2> HIDE DEF p
  <2> QED BY <1>1, <1>3, <2>1, <2>2, <2>3 DEF CallOK, Cached, Evicts, InTransaction
<1> HIDE DEF p
<1>8. OnlyCall(c) /\ phase[c] \notin Late
  BY <1>1, <1>3 DEF OnlyCall, Late
<1>9. (\A d \in Calls : CallOK(d)') /\ LateStays
  BY <1>7, <1>8, OtherCalls
<1>10. StoreOK'
  BY <1>4 DEF StoreOK
<1>11. ClearOK'
  <2>1. \A e \in cleared' : phase'[e] \in Late
    <3>1. \A e \in cleared' : e \in Calls /\ phase[e] \in Late
      BY <1>1, <1>5, ResultsAreLate DEF Inv, ClearOK
    <3> QED BY <1>9, <3>1 DEF LateStays
  <2>2. \A d \in Calls, e \in Calls : e \in evictable'[d] => phase'[e] \in Late
    BY <1>1, <1>9 DEF Inv, ClearOK, LateStays
  <2> QED BY <1>4, <2>1, <2>2 DEF ClearOK
<1> QED BY <1>6, <1>9, <1>10, <1>11 DEF Inv

(* redisCacheStore reads the keys it is going to delete. *)
LEMMA RedisClearStep ==
  ASSUME Inv, NEW c \in Calls, Clear(c), backend # "memory"
  PROVE  Inv'
<1> DEFINE stored == {k \in Keys : Stored(k)}
<1>1. /\ phase[c] = "clear" /\ keysLeft' = [keysLeft EXCEPT ![c] = stored]
      /\ evictable' = [evictable EXCEPT ![c] = Results] /\ Goto(c, "deletes")
      /\ UNCHANGED <<managed, backend, call, store, cleared,
                     failed, trail, outcome, published>>
  BY DEF Clear, runVars
<1>2. /\ phase' \in [Calls -> Phases] /\ phase'[c] = "deletes"
      /\ \A d \in Calls : d # c => phase'[d] = phase[d]
  BY <1>1, Goes DEF Phases
<1>3. /\ keysLeft' \in [Calls -> SUBSET Keys] /\ keysLeft'[c] = stored
      /\ \A d \in Calls : d # c => keysLeft'[d] = keysLeft[d]
  BY <1>1 DEF Inv, TypeOK
<1>4. /\ evictable' \in [Calls -> SUBSET Calls] /\ evictable'[c] = Results
      /\ \A d \in Calls : d # c => evictable'[d] = evictable[d]
  BY <1>1, ResultsAreLate DEF Inv, TypeOK
<1>5. TypeOK'
  BY <1>1, <1>2, <1>3, <1>4 DEF Inv, TypeOK, NoEntry
<1>6. CallOK(c)'
  <2>1. CallOK(c)
    BY DEF Inv
  <2> QED BY <1>1, <1>2, <2>1 DEF CallOK, Cached, Evicts, InTransaction
<1>7. OnlyCall(c) /\ phase[c] \notin Late
  BY <1>1, <1>2 DEF OnlyCall, Late
<1>8. (\A d \in Calls : CallOK(d)') /\ LateStays
  BY <1>6, <1>7, OtherCalls
<1>9. StoresNothing
  BY <1>1 DEF StoresNothing, Stored
<1>10. ClearOK'
  <2>1. ASSUME NEW e \in cleared'
        PROVE  phase'[e] \in Late /\ \A k \in Keys : Stored(k)' => store'[k].by # e
    <3>1. e \in cleared /\ e \in Calls
      BY <1>1 DEF Inv, TypeOK
    <3> QED BY <1>8, <1>9, <3>1 DEF Inv, ClearOK, LateStays, StoresNothing
  <2>2. ASSUME NEW d \in Calls, NEW e \in Calls, e \in evictable'[d]
        PROVE  phase'[e] \in Late
    <3>1. phase[e] \in Late
      <4>1. CASE d = c
        BY <1>4, <2>2, <4>1, ResultsAreLate
      <4>2. CASE d # c
        BY <1>4, <2>2, <4>2 DEF Inv, ClearOK
      <4> QED BY <4>1, <4>2
    <3> QED BY <1>8, <3>1 DEF LateStays
  <2>3. ASSUME NEW d \in Calls, NEW k \in Keys,
               phase'[d] = "deletes", Stored(k)', store'[k].by \in evictable'[d]
        PROVE  k \in keysLeft'[d]
    <3>1. CASE d = c
      BY <1>1, <1>3, <2>3, <3>1 DEF Stored
    <3>2. CASE d # c
      BY <1>1, <1>2, <1>3, <1>4, <2>3, <3>2 DEF Inv, ClearOK, Stored
    <3> QED BY <3>1, <3>2
  <2> QED BY <2>1, <2>2, <2>3 DEF ClearOK
<1> QED BY <1>5, <1>8, <1>9, <1>10, StoreStays DEF Inv

(* clear() of redisCacheStore ends. *)
LEMMA ClearedStep ==
  ASSUME Inv, NEW c \in Calls, Cleared(c)
  PROVE  Inv'
<1> DEFINE p == Inside(call[c])
<1>1. /\ phase[c] = "deletes" /\ keysLeft[c] = {}
      /\ cleared' = cleared \cup evictable[c] /\ Goto(c, p)
      /\ UNCHANGED <<managed, backend, store, call, keysLeft, evictable,
                     failed, trail, outcome, published>>
  BY DEF Cleared, AllDeleted, runVars, Inwards
<1>2. p \in Phases \ {"deletes"}
  BY DEF Phases, Inside
<1>3. /\ phase' \in [Calls -> Phases] /\ phase'[c] = p
      /\ \A d \in Calls : d # c => phase'[d] = phase[d]
  BY <1>1, <1>2, Goes
<1>4. cleared' \subseteq Calls
  BY <1>1 DEF Inv, TypeOK
<1>5. TypeOK'
  BY <1>1, <1>3, <1>4 DEF Inv, TypeOK, NoEntry
<1>6. CallOK(c)'
  <2>1. CallOK(c)
    BY DEF Inv
  <2>2. /\ p \in {"begin", "body"}
        /\ p = "begin" => InTransaction(call[c])
        /\ p = "body" => ~ InTransaction(call[c])
    BY DEF Inside
  <2>3. call[c].caller = "proxy"
    BY <1>1, <2>1 DEF CallOK, Evicts
  <2> HIDE DEF p
  <2> QED BY <1>1, <1>3, <2>1, <2>2, <2>3 DEF CallOK, Cached, Evicts, InTransaction
<1> HIDE DEF p
<1>7. OnlyCall(c) /\ phase[c] \notin Late
  BY <1>1, <1>3 DEF OnlyCall, Late
<1>8. (\A d \in Calls : CallOK(d)') /\ LateStays
  BY <1>6, <1>7, OtherCalls
<1>9. StoresNothing
  BY <1>1 DEF StoresNothing, Stored
<1>10. ClearOK'
  <2>1. ASSUME NEW e \in cleared'
        PROVE  phase'[e] \in Late /\ \A k \in Keys : Stored(k)' => store'[k].by # e
    <3>1. e \in Calls
      BY <1>4
    <3>2. phase[e] \in Late /\ \A k \in Keys : Stored(k) => store[k].by # e
      <4>1. CASE e \in cleared
        BY <4>1 DEF Inv, ClearOK
      <4>2. CASE e \in evictable[c]
        BY <1>1, <3>1, <4>2 DEF Inv, ClearOK
      <4> QED BY <1>1, <4>1, <4>2
    <3> QED BY <1>8, <1>9, <3>1, <3>2 DEF LateStays, StoresNothing
  <2>2. \A d \in Calls, e \in Calls : e \in evictable'[d] => phase'[e] \in Late
    BY <1>1, <1>8 DEF Inv, ClearOK, LateStays
  <2>3. ASSUME NEW d \in Calls, NEW k \in Keys,
               phase'[d] = "deletes", Stored(k)', store'[k].by \in evictable'[d]
        PROVE  k \in keysLeft'[d]
    <3>1. phase[d] = "deletes"
      BY <1>2, <1>3, <2>3
    <3> QED BY <1>1, <2>3, <3>1 DEF Inv, ClearOK, Stored
  <2> QED BY <2>1, <2>2, <2>3 DEF ClearOK
<1> QED BY <1>5, <1>8, <1>9, <1>10, StoreStays DEF Inv

(* store.set of the call's own result. *)
LEMMA SetStep ==
  ASSUME Inv, NEW c \in Calls, Set(c)
  PROVE  Inv'
<1> DEFINE k == call[c].key
           e == [by |-> c, mortal |-> backend = "memory" /\ call[c].method.ttl]
           p == IF backend = "redis" /\ call[c].method.ttl THEN "expire" ELSE "done"
<1>1. /\ phase[c] = "set" /\ store' = [store EXCEPT ![k] = e] /\ Goto(c, p)
      /\ UNCHANGED <<managed, backend, call, keysLeft, evictable, cleared,
                     failed, trail, outcome, published>>
  BY DEF Set, runVars
<1>2. p \in Phases \ {"deletes"} /\ p \in Late
  BY DEF Phases, Late
<1>3. /\ phase' \in [Calls -> Phases] /\ phase'[c] = p
      /\ \A d \in Calls : d # c => phase'[d] = phase[d]
  BY <1>1, <1>2, Goes
<1>4. CallOK(c) /\ Cached(call[c])
  BY <1>1 DEF Inv, CallOK
<1>5. k \in Keys
  <2>1. call[c] \in CallRecord /\ call[c].caller = "proxy"
    BY <1>4 DEF Inv, TypeOK, Cached
  <2> QED BY <2>1 DEF CallRecord
<1>6. e \in [by : Calls, mortal : BOOLEAN] /\ e.by = c
  OBVIOUS
<1> HIDE DEF e, k
<1>7. /\ store' \in [Keys -> {NoEntry} \cup [by : Calls, mortal : BOOLEAN]]
      /\ store'[k] = e /\ \A j \in Keys : j # k => store'[j] = store[j]
  BY <1>1, <1>5, <1>6 DEF Inv, TypeOK
<1>8. TypeOK'
  BY <1>1, <1>3, <1>7 DEF Inv, TypeOK, NoEntry
<1>9. CallOK(c)'
  <2>1. call[c].caller = "proxy" /\ p \in {"expire", "done"}
    BY <1>4 DEF Cached
  <2> HIDE DEF p
  <2> QED BY <1>1, <1>3, <1>4, <2>1 DEF CallOK, Cached, Evicts, InTransaction
<1> HIDE DEF p
<1>10. OnlyCall(c) /\ phase[c] \notin Late
  BY <1>1, <1>3 DEF OnlyCall, Late
<1>11. (\A d \in Calls : CallOK(d)') /\ LateStays
  BY <1>9, <1>10, OtherCalls
<1>12. StoreOK'
  <2> SUFFICES ASSUME NEW j \in Keys, Stored(j)'
               PROVE  Kept(store[j].by, j)'
    BY DEF StoreOK
  <2>1. CASE j = k
    <3>1. Kept(c, j)'
      <4>1. /\ phase'[c] \in Late /\ call'[c] = call[c] /\ Full(trail'[c])
            /\ outcome'[c] = IF InTransaction(call[c]) THEN "committed" ELSE "none"
        BY <1>1, <1>2, <1>3, <1>4 DEF CallOK
      <4> QED BY <1>1, <1>4, <2>1, <4>1 DEF Kept, Cached, InTransaction, k
    <3> QED BY <1>6, <1>7, <2>1, <3>1 DEF Kept
  <2>2. CASE j # k
    <3>1. PICK d : d = store[j].by
      OBVIOUS
    <3>2. Stored(j) /\ store'[j].by = d
      BY <1>7, <2>2, <3>1 DEF Stored, NoEntry
    <3>3. Kept(d, j)
      BY <3>1, <3>2 DEF Inv, StoreOK
    <3>4. Kept(d, j)'
      BY <1>11, <3>3, KeptStays
    <3> QED BY <3>2, <3>4 DEF Kept
  <2> QED BY <2>1, <2>2
<1>13. ClearOK'
  <2>1. ASSUME NEW j \in Keys, Stored(j)'
        PROVE  store'[j].by = c \/ (Stored(j) /\ store'[j].by = store[j].by)
    BY <1>6, <1>7, <2>1 DEF Stored, NoEntry
  <2>2. ASSUME NEW d \in cleared'
        PROVE  phase'[d] \in Late /\ \A j \in Keys : Stored(j)' => store'[j].by # d
    <3>1. d \in cleared /\ d \in Calls /\ phase[d] \in Late /\ d # c
      BY <1>1, <1>10 DEF Inv, TypeOK, ClearOK
    <3>2. phase'[d] \in Late
      BY <1>11, <3>1 DEF LateStays
    <3> QED BY <2>1, <3>1, <3>2 DEF Inv, ClearOK
  <2>3. \A d \in Calls, b \in Calls : b \in evictable'[d] => phase'[b] \in Late
    BY <1>1, <1>11 DEF Inv, ClearOK, LateStays
  <2>4. ASSUME NEW d \in Calls, NEW j \in Keys,
               phase'[d] = "deletes", Stored(j)', store'[j].by \in evictable'[d]
        PROVE  j \in keysLeft'[d]
    <3>1. phase[d] = "deletes"
      BY <1>2, <1>3, <2>4
    <3>2. c \notin evictable[d]
      BY <1>10 DEF Inv, ClearOK
    <3>3. Stored(j) /\ store[j].by \in evictable[d]
      BY <1>1, <2>1, <2>4, <3>2
    <3> QED BY <1>1, <3>1, <3>3 DEF Inv, ClearOK
  <2> QED BY <2>2, <2>3, <2>4 DEF ClearOK
<1> QED BY <1>8, <1>11, <1>12, <1>13 DEF Inv

-----------------------------------------------------------------------------
(* Invariance, and what it gives. *)

LEMMA InvInit == Init => Inv
<1> SUFFICES ASSUME Init PROVE Inv
  OBVIOUS
<1>1. TypeOK
  BY DEF Init, TypeOK, NoEntry, Phases, CallRecord
<1>2. ASSUME NEW c \in Calls
      PROVE  CallOK(c)
  BY EmptyTrail DEF Init, CallOK, Cached, Evicts, InTransaction
<1>3. StoreOK
  BY DEF Init, StoreOK, Stored
<1>4. ClearOK
  BY DEF Init, ClearOK
<1> QED BY <1>1, <1>2, <1>3, <1>4 DEF Inv

LEMMA InvNext == Inv /\ [Next]_vars => Inv'
<1> SUFFICES ASSUME Inv, [Next]_vars PROVE Inv'
  OBVIOUS
<1>1. ASSUME NEW c \in Calls, Continue(c)
      PROVE  Inv'
  <2>1. CASE Clear(c)
    BY <2>1, MemoryClearStep, RedisClearStep
  <2> QED BY <1>1, <2>1, LookupStep, ClearedStep, BeginStep, RunStep, CommitStep, SetStep,
             SetExpiryStep, StoreFailsStep, DeleteStep DEF Continue
<1>2. CASE UNCHANGED vars
  <2>1. (\A c \in Calls : CallOK(c)') /\ LateStays
    BY <1>2, NoCall DEF vars, runVars
  <2>2. StoresNothing
    BY <1>2 DEF vars, StoresNothing, Stored
  <2>3. TypeOK'
    BY <1>2 DEF vars, Inv, TypeOK, NoEntry
  <2> QED BY <1>2, <2>1, <2>2, <2>3, QuietStep DEF vars, cacheVars
<1> QED BY <1>1, <1>2, CrashStep, CallStep, ExpireStep, PublishStep, PublishEndsStep DEF Next

LEMMA Invariance == Spec => []Inv
BY InvInit, InvNext, PTL DEF Spec

(* Every variable keeps its type: in particular a published event, a lost  *)
(* replica or a store that fails never leaves a call in a phase the proxies *)
(* of cache.ts, transaction.ts and aop.ts do not have.                      *)
THEOREM TypeCorrect == Spec => []TypeOK
<1>1. Inv => TypeOK
  BY DEF Inv
<1> QED BY <1>1, Invariance, PTL

(* Nothing is cached but the result of a call that did not fail and whose  *)
(* transaction had committed, whatever the order in which calls run, stores *)
(* fail and replicas die.                                                   *)
THEOREM CachesOnlyCommitted == Spec => []CachedIsCommitted
<1>1. Inv => CachedIsCommitted
  <2> SUFFICES ASSUME Inv, NEW k \in Keys, Stored(k)
               PROVE  LET c == store[k].by IN
                      /\ outcome[c] = IF managed /\ call[c].method.transactional
                                      THEN "committed" ELSE "none"
                      /\ Complete(c)
    BY DEF CachedIsCommitted
  <2>1. PICK c : c = store[k].by
    OBVIOUS
  <2>2. Kept(c, k)
    BY <2>1 DEF Inv, StoreOK
  <2> QED BY <2>1, <2>2 DEF Kept, Cached, InTransaction, Complete, Full
<1> QED BY <1>1, Invariance, PTL

(* applyAdvice runs no after advice twice, out of order or before the method has
   finished, and all of it before a result is committed or handed on, unless one
   throws and so fails the call: whether the body throws, returns or rejects, and
   for any number of after advices. *)
THEOREM AdviceRunsOnce == Spec => []AfterAdviceOnce
<1>1. Inv => AfterAdviceOnce
  <2> SUFFICES ASSUME Inv, NEW c \in Calls
               PROVE  /\ \A i \in 1..Len(trail[c]) : trail[c][i] = i - 1
                      /\ phase[c] \in {"body", "running"} => trail[c] = <<>>
                      /\ trail[c] # <<>> /\ Advised(call[c]) /\ ~ failed[c] => Complete(c)
                      /\ outcome[c] = "committed" => Complete(c)
                      /\ call[c].caller = "event" /\ phase[c] = "done" => trail[c] # <<>>
                      /\ call[c].caller = "self" => Len(trail[c]) <= 1
    BY DEF AfterAdviceOnce
  <2>1. CallOK(c)
    BY DEF Inv
  <2> QED BY <2>1 DEF CallOK, Complete, Full, Short, Ordered, Advised
<1> QED BY <1>1, Invariance, PTL

(* What an evicting method cleared stays out of the store, with any number *)
(* of calls clearing and filling it at once and keys deleted in any order.  *)
THEOREM EvictionLasts == Spec => []EvictedStaysEvicted
<1>1. Inv => EvictedStaysEvicted
  BY DEF Inv, ClearOK, EvictedStaysEvicted, Results
<1> QED BY <1>1, Invariance, PTL
=============================================================================
