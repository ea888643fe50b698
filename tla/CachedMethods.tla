---------------------------- MODULE CachedMethods ----------------------------
(***************************************************************************)
(* Concurrent calls of methods that createApp's post-processors wrap: the  *)
(* aspect (aop.ts) next to the body, around it the transaction             *)
(* (transaction.ts), outermost the cache (cache.ts), over MemoryCache or   *)
(* the redisCacheStore that replicas share.  Listeners of the event bus    *)
(* (events.ts) are subscribed between the aspect and the transaction, so   *)
(* an event reaches neither transaction nor cache; a method's call of      *)
(* another method of its own object reaches the bare body.                 *)
(*                                                                         *)
(* Every await on the store, the transaction or the body is a step.        *)
(***************************************************************************)
EXTENDS Naturals, FiniteSets, Sequences

CONSTANTS
  Calls,         \* calls of decorated methods
  Keys,          \* cache keys: one per cacheable method and arguments
  Publications,  \* calls of publish()
  Methods,       \* the decorations of a method, as Decoration records
  Afters         \* how many after advices the methods have

Decoration == [cacheable : BOOLEAN, evicts : BOOLEAN,
               transactional : BOOLEAN, ttl : BOOLEAN]
(* @repository marks every method of the class as transactional. *)
Repository(decoration) == [decoration EXCEPT !.transactional = TRUE]
Callers == {"proxy", "event", "self"}

ASSUME MethodsAssumption == Methods \subseteq Decoration
ASSUME AftersAssumption == Afters \in Nat

VARIABLES
  managed,   \* a TransactionManager is bound
  backend,   \* the bound CacheStore: "memory" or "redis"
  store,     \* per key: the call whose result is kept, and whether it expires
  phase,     \* where each call is
  call,      \* what each call calls: method, key, caller
  failed,    \* the error the call is about to reject with
  keysLeft,  \* keys a clear() of redisCacheStore has read and not deleted
  trail,     \* history: 0 once each call's method has finished, then the numbers of
             \* the after advices that ran, as they did
  outcome,   \* history: how the transaction of each call ended
  evictable, \* history: results in the store when the call began to clear it
  cleared,   \* history: results that a clear() that ended had to remove
  published  \* per publication: the listener calls it waits for, or its end

vars == <<managed, backend, store, phase, call, failed, keysLeft, trail, outcome,
          evictable, cleared, published>>
cacheVars == <<store, keysLeft, evictable, cleared>>
runVars == <<failed, trail, outcome>>

NoEntry == [by |-> "nobody", mortal |-> FALSE]
Stored(k) == store[k] # NoEntry
Results == {store[k].by : k \in {j \in Keys : Stored(j)}}

Init ==
  /\ managed \in BOOLEAN
  /\ backend \in {"memory", "redis"}
  /\ store = [k \in Keys |-> NoEntry]
  /\ phase = [c \in Calls |-> "idle"]
  /\ call = [c \in Calls |-> [caller |-> "none"]]
  /\ failed = [c \in Calls |-> FALSE]
  /\ keysLeft = [c \in Calls |-> {}]
  /\ trail = [c \in Calls |-> <<>>]
  /\ outcome = [c \in Calls |-> "none"]
  /\ evictable = [c \in Calls |-> {}]
  /\ cleared = {}
  /\ published = [p \in Publications |-> [state |-> "idle", calls |-> {}]]

(* Which proxies the call x passes.  @cacheable hides @cacheEvict, and      *)
(* without a bound manager @transactional passes the call through.          *)
Cached(x) == x.caller = "proxy" /\ x.method.cacheable
Evicts(x) == x.caller = "proxy" /\ x.method.evicts /\ ~ Cached(x)
InTransaction(x) == managed /\ x.caller = "proxy" /\ x.method.transactional
Advised(x) == x.caller # "self"

Goto(c, p) == phase' = [phase EXCEPT ![c] = p]

(* A phase a call is in while some await of it is pending. *)
Pending(c) == phase[c] \notin {"idle", "done", "dead"}

(* The next proxy inwards, past the cache: TransactionManager.run or the    *)
(* advised body.                                                            *)
Inside(x) == IF InTransaction(x) THEN "begin" ELSE "body"
Inwards(c) == Goto(c, Inside(call[c]))

(* The call is made. *)
Call(c, m, k, who) ==
  /\ phase[c] = "idle"
  /\ LET x == [caller |-> who, method |-> m, key |-> k] IN
     /\ call' = [call EXCEPT ![c] = x]
     /\ Goto(c, IF Cached(x) THEN "lookup"
                ELSE IF Evicts(x) THEN "clear" ELSE Inside(x))
  /\ UNCHANGED <<managed, backend, cacheVars, runVars, published>>

(* store.get: a hit is the result; after a miss the method runs. *)
Lookup(c) ==
  /\ phase[c] = "lookup"
  /\ IF Stored(call[c].key) THEN Goto(c, "done") ELSE Inwards(c)
  /\ UNCHANGED <<managed, backend, call, cacheVars, runVars, published>>

(* store.clear() of MemoryCache, and the KEYS of redisCacheStore. *)
Clear(c) ==
  /\ phase[c] = "clear"
  /\ IF backend = "memory"
     THEN /\ store' = [k \in Keys |-> NoEntry]
          /\ cleared' = cleared \cup Results
          /\ Inwards(c)
          /\ UNCHANGED <<keysLeft, evictable>>
     ELSE /\ keysLeft' = [keysLeft EXCEPT ![c] = {k \in Keys : Stored(k)}]
          /\ evictable' = [evictable EXCEPT ![c] = Results]
          /\ Goto(c, "deletes")
          /\ UNCHANGED <<store, cleared>>
  /\ UNCHANGED <<managed, backend, call, runVars, published>>

(* One DEL of redisCacheStore.clear(): all are sent together and carried   *)
(* out in any order, even when clear() has rejected because one failed.    *)
Delete(c, k) ==
  /\ k \in keysLeft[c]
  /\ store' = [store EXCEPT ![k] = NoEntry]
  /\ keysLeft' = [keysLeft EXCEPT ![c] = @ \ {k}]
  /\ UNCHANGED <<managed, backend, phase, call, evictable, cleared, runVars, published>>

(* Mutant of AllDeleted: clear() does not wait for its DELs. *)
DeletesSent(c) == TRUE
AllDeleted(c) == keysLeft[c] = {}

Cleared(c) ==
  /\ phase[c] = "deletes"
  /\ AllDeleted(c)
  /\ cleared' = cleared \cup evictable[c]
  /\ Inwards(c)
  /\ UNCHANGED <<managed, backend, store, call, keysLeft, evictable, runVars, published>>

(* The transaction has begun; before advice and the body start. *)
Begin(c) ==
  /\ phase[c] = "begin"
  /\ outcome' = [outcome EXCEPT ![c] = "open"]
  /\ Goto(c, "body")
  /\ UNCHANGED <<managed, backend, call, cacheVars, failed, trail, published>>

(* Mutant of AfterBody: the cache is wrapped before the transaction. *)
AfterBodyCacheFirst(c, fails) ==
  IF ~ fails /\ Cached(call[c]) THEN "set"
  ELSE IF InTransaction(call[c]) THEN "commit" ELSE "done"
(* What is around the advised method. *)
AfterBody(c, fails) ==
  IF InTransaction(call[c]) THEN "commit"
  ELSE IF ~ fails /\ Cached(call[c]) THEN "set" ELSE "done"

(* runAfter: the after advices in their order, up to the one that throws, if *)
(* any does (0: none).                                                       *)
RunAfter(throws) == [i \in 1..(IF throws = 0 THEN Afters ELSE throws) |-> i]

(* Which of its after advices may throw; a self-invocation passes none.      *)
Throwing(x) == IF Advised(x) THEN 0..Afters ELSE {0}

(* The call leaves its method and the advice that ran after it.              *)
Leave(c, fails, ran) ==
  /\ failed' = [failed EXCEPT ![c] = fails]
  /\ trail' = [trail EXCEPT ![c] = <<0>> \o (IF Advised(call[c]) THEN ran ELSE <<>>)]
  /\ Goto(c, AfterBody(c, fails))
  /\ UNCHANGED <<managed, backend, call, cacheVars, outcome, published>>

(* Before advice, around advice or the body throws: the catch of applyAdvice *)
(* runs the after advice and throws, that error or one of theirs.            *)
Throws(c) ==
  /\ phase[c] = "body"
  /\ \E throws \in Throwing(call[c]) : Leave(c, TRUE, RunAfter(throws))

(* Mutant of Returns: runAfter stands in the try, and what it throws is caught *)
(* and runs it again.                                                        *)
ReturnsInTry(c) ==
  /\ phase[c] = "body"
  /\ \/ Leave(c, FALSE, RunAfter(0))
     \/ \E throws, again \in Throwing(call[c]) :
          throws # 0 /\ Leave(c, TRUE, RunAfter(throws) \o RunAfter(again))

(* The method returns a value: runAfter, after the try, may fail the call.   *)
Returns(c) ==
  /\ phase[c] = "body"
  /\ \E throws \in Throwing(call[c]) : Leave(c, throws # 0, RunAfter(throws))

(* The method returns a promise, and finally(runAfter) the next one.         *)
Promises(c) ==
  /\ phase[c] = "body"
  /\ Goto(c, "running")
  /\ UNCHANGED <<managed, backend, call, cacheVars, runVars, published>>

Settles(c) ==
  /\ phase[c] = "running"
  /\ \E rejects \in BOOLEAN, throws \in Throwing(call[c]) :
       Leave(c, rejects \/ throws # 0, RunAfter(throws))

(* TransactionManager.run commits, or rolls back what failed; a commit may *)
(* itself be refused.                                                      *)
Commit(c) ==
  /\ phase[c] = "commit"
  /\ \E refused \in BOOLEAN :
       LET fails == failed[c] \/ refused IN
       /\ outcome' = [outcome EXCEPT ![c] =
                        IF fails THEN "rolled_back" ELSE "committed"]
       /\ failed' = [failed EXCEPT ![c] = fails]
       /\ Goto(c, IF ~ fails /\ Cached(call[c]) THEN "set" ELSE "done")
  /\ UNCHANGED <<managed, backend, call, cacheVars, trail, published>>

(* store.set: one step in memory, SET and then EXPIRE in Redis.  SET takes *)
(* an earlier entry's expiry away.                                         *)
Set(c) ==
  /\ phase[c] = "set"
  /\ LET expiresAtOnce == backend = "memory" /\ call[c].method.ttl IN
     store' = [store EXCEPT ![call[c].key] = [by |-> c, mortal |-> expiresAtOnce]]
  /\ Goto(c, IF backend = "redis" /\ call[c].method.ttl THEN "expire" ELSE "done")
  /\ UNCHANGED <<managed, backend, call, keysLeft, evictable, cleared, runVars, published>>

SetExpiry(c) ==
  /\ phase[c] = "expire"
  /\ store' = [store EXCEPT ![call[c].key] =
                 IF Stored(call[c].key) THEN [@ EXCEPT !.mortal = TRUE] ELSE @]
  /\ Goto(c, "done")
  /\ UNCHANGED <<managed, backend, call, keysLeft, evictable, cleared, runVars, published>>

(* An entry's time to live is over. *)
Expire(k) ==
  /\ store[k].mortal
  /\ store' = [store EXCEPT ![k] = NoEntry]
  /\ UNCHANGED <<managed, backend, phase, call, keysLeft, evictable, cleared, runVars, published>>

(* A command of the shared store rejects: so does the call, even when its  *)
(* method has run and committed.                                           *)
StoreFails(c) ==
  /\ backend = "redis"
  /\ phase[c] \in {"lookup", "clear", "deletes", "set", "expire"}
  /\ failed' = [failed EXCEPT ![c] = TRUE]
  /\ Goto(c, "done")
  /\ UNCHANGED <<managed, backend, call, cacheVars, trail, outcome, published>>

(* A replica dies; the database rolls its open transaction back. *)
Crash(c) ==
  /\ backend = "redis"
  /\ Pending(c)
  /\ Goto(c, "dead")
  /\ outcome' = [outcome EXCEPT ![c] = IF @ = "open" THEN "rolled_back" ELSE @]
  /\ UNCHANGED <<managed, backend, call, cacheVars, failed, trail, published>>

(* publish() calls every subscriber of the event's class at once. *)
Publish(p) ==
  /\ published[p].state = "idle"
  /\ \E cs \in SUBSET {c \in Calls : phase[c] = "idle"}, m \in Methods :
       /\ published' = [published EXCEPT ![p] = [state |-> "waiting", calls |-> cs]]
       /\ call' = [c \in Calls |-> IF c \in cs
                     THEN [caller |-> "event", method |-> m] ELSE call[c]]
       /\ phase' = [c \in Calls |-> IF c \in cs THEN "body" ELSE phase[c]]
  /\ UNCHANGED <<managed, backend, cacheVars, runVars>>

(* Promise.allSettled *)
ListenersSettled(cs) == \A c \in cs : phase[c] = "done"

PublishEnds(p) ==
  /\ published[p].state = "waiting"
  /\ ListenersSettled(published[p].calls)
  /\ published' = [published EXCEPT ![p].state = "done"]
  /\ UNCHANGED <<managed, backend, phase, call, cacheVars, runVars>>

Continue(c) ==
  \/ Lookup(c) \/ Clear(c) \/ Cleared(c) \/ Begin(c) \/ Commit(c)
  \/ Throws(c) \/ Returns(c) \/ Promises(c) \/ Settles(c)
  \/ Set(c) \/ SetExpiry(c) \/ StoreFails(c)
  \/ \E k \in Keys : Delete(c, k)

Next ==
  \/ \E c \in Calls : Continue(c) \/ Crash(c)
  \/ \E c \in Calls, m \in Methods, k \in Keys, who \in {"proxy", "self"} :
       Call(c, m, k, who)
  \/ \E k \in Keys : Expire(k)
  \/ \E p \in Publications : Publish(p) \/ PublishEnds(p)

Spec == Init /\ [][Next]_vars

-----------------------------------------------------------------------------
Phases == {"idle", "lookup", "clear", "deletes", "begin", "body", "running", "commit", "set",
           "expire", "done", "dead"}
CallRecord == [caller : {"none"}]
              \cup [caller : {"proxy", "self"}, method : Methods, key : Keys]
              \cup [caller : {"event"}, method : Methods]

TypeOK ==
  /\ managed \in BOOLEAN
  /\ backend \in {"memory", "redis"}
  /\ store \in [Keys -> {NoEntry} \cup [by : Calls, mortal : BOOLEAN]]
  /\ phase \in [Calls -> Phases]
  /\ call \in [Calls -> CallRecord]
  /\ failed \in [Calls -> BOOLEAN]
  /\ keysLeft \in [Calls -> SUBSET Keys]
  /\ trail \in [Calls -> Seq(0..Afters)]
  /\ outcome \in [Calls -> {"none", "open", "committed", "rolled_back"}]
  /\ evictable \in [Calls -> SUBSET Calls]
  /\ cleared \subseteq Calls
  /\ published \in [Publications -> [state : {"idle", "waiting", "done"}, calls : SUBSET Calls]]

(* The method of the call has finished and then all its after advice has run. *)
Complete(c) == Len(trail[c]) = 1 + Afters

(* What a cache entry holds is the result of a call that did not fail and  *)
(* whose transaction, if it ran in one, had committed: a refused commit or *)
(* a failing advice never leaves a result behind for other callers.        *)
CachedIsCommitted ==
  \A k \in Keys : Stored(k) =>
    LET c == store[k].by IN
    /\ outcome[c] = IF managed /\ call[c].method.transactional THEN "committed" ELSE "none"
    /\ Complete(c)

(* Whatever throws, no after advice runs twice, out of its order or before   *)
(* the method has finished; all of it has run before the result of the call *)
(* is committed, handed on or delivered to an event, unless it threw, which *)
(* fails the call.  None runs for a hit or for a self-invocation.           *)
AfterAdviceOnce ==
  \A c \in Calls :
    /\ \A i \in 1..Len(trail[c]) : trail[c][i] = i - 1
    /\ phase[c] \in {"body", "running"} => trail[c] = <<>>
    /\ trail[c] # <<>> /\ Advised(call[c]) /\ ~ failed[c] => Complete(c)
    /\ outcome[c] = "committed" => Complete(c)
    /\ call[c].caller = "event" /\ phase[c] = "done" => trail[c] # <<>>
    /\ call[c].caller = "self" => Len(trail[c]) <= 1

(* A result that was in the store when an evicting method began to clear it *)
(* is in the store no more when the body of that method starts, and never   *)
(* comes back, though Redis is cleared key by key while others store.       *)
EvictedStaysEvicted == Results \cap cleared = {}
=============================================================================
