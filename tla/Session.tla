------------------------------ MODULE Session ------------------------------
(***************************************************************************)
(* Sessions (src/src/session.ts): the plugin session() wraps a request,     *)
(* loads the session its cookie names, lets the handler change it, and      *)
(* persists it before the response leaves.  The memory store keeps and      *)
(* hands out the data objects themselves; the Redis store                   *)
(* (redisSessionStore in src/src/redis.ts) keeps and hands out copies.      *)
(*                                                                         *)
(* The id that crypto.randomUUID() makes is one that nothing refers to.     *)
(* Ids are numbered, and a number is used again once nothing refers to it;  *)
(* likewise data objects.                                                   *)
(*                                                                         *)
(* One client: clients never come to share an id, and so share nothing.     *)
(***************************************************************************)
EXTENDS Integers

CONSTANTS
  Requests,      \* the requests that may be in progress together
  Alone,         \* whether the client sends one request at a time
  Values,        \* the values that handlers store, each under its key
  MaxIds,        \* bound: how many ids are in use at once
  MaxObjects     \* bound: how many data objects are in use at once

ASSUME AloneAssumption == Alone \in BOOLEAN
ASSUME MaxAssumption == MaxIds \in Nat /\ MaxObjects \in Nat

Ids == 1..MaxIds
Objects == 1..MaxObjects

VARIABLES
  live,          \* TRUE: memory store, FALSE: Redis store; chosen once
  expires,       \* the stores have a ttl; chosen once
  careful,       \* a handler regenerates the id at most once, and does not then
                 \* destroy the session; chosen once
  heap,          \* heap[o]: the values in data object o
  store,         \* store[i]: the object stored under id i, or 0
  jar,           \* the id in the cookie of the client, or 0
  req            \* req[r]: the request r and the SessionState of it

config == <<live, expires, careful>>
vars == <<live, expires, careful, heap, store, jar, req>>

(* cookie: the id in the request; id to destroyed: the SessionState (0 for
   undefined); answer: the id in Set-Cookie, 0 to clear the cookie, -1 for none;
   had and before: history, the session that was loaded. *)
Request ==
  [pc : {"idle", "get", "handler", "save", "respond"}, cookie : 0..MaxIds,
   id : 0..MaxIds, oldId : 0..MaxIds, data : 0..MaxObjects, dirty : BOOLEAN,
   destroyed : BOOLEAN, answer : -1..MaxIds, had : BOOLEAN, before : SUBSET Values]

NoRequest ==
  [pc |-> "idle", cookie |-> 0, id |-> 0, oldId |-> 0, data |-> 0, dirty |-> FALSE,
   destroyed |-> FALSE, answer |-> -1, had |-> FALSE, before |-> {}]

Init ==
  /\ live \in BOOLEAN /\ expires \in BOOLEAN /\ careful \in BOOLEAN
  /\ heap = [o \in Objects |-> {}]
  /\ store = [i \in Ids |-> 0]
  /\ jar = 0
  /\ req = [r \in Requests |-> NoRequest]

-----------------------------------------------------------------------------
(* The objects and ids that something refers to. *)
UsedObjects ==
  {store[i] : i \in Ids} \union {req[r].data : r \in Requests}

UsedIds ==
  {i \in Ids : store[i] # 0} \union {jar} \union
  UNION {{req[r].cookie, req[r].id, req[r].oldId, req[r].answer} : r \in Requests}

FreeObjects == Objects \ UsedObjects
FreeIds == Ids \ UsedIds
NewObject == CHOOSE o \in FreeObjects : TRUE
NewId == CHOOSE i \in FreeIds : TRUE

(* The contents of the objects are now those of new; nobody sees the others. *)
SetHeap(new) ==
  heap' = [o \in Objects |-> IF o \in UsedObjects' THEN new[o] ELSE {}]

Handling(r) == req[r].pc = "handler"
SetState(r, state) == req' = [req EXCEPT ![r] = state]

-----------------------------------------------------------------------------
(* The client waits for no response. *)
AtRest == \A r \in Requests : req[r].pc = "idle"

(* It sends a request with its cookie. *)
Send(r) ==
  /\ req[r].pc = "idle"
  /\ Alone => AtRest
  /\ SetState(r, [NoRequest EXCEPT !.pc = "get", !.cookie = jar])
  /\ UNCHANGED <<heap, store, jar>>

(* The object that the store has for the cookie of r, or 0. *)
Stored(r) == IF req[r].cookie = 0 THEN 0 ELSE store[req[r].cookie]

(* store.get: the session of the cookie, or none with an empty data object. *)
Load(r) ==
  /\ req[r].pc = "get"
  /\ Stored(r) = 0 \/ ~ live => FreeObjects # {}
  /\ LET o == Stored(r)
         bag == IF o = 0 THEN {} ELSE heap[o]
         mine == IF o # 0 /\ live THEN o ELSE NewObject
     IN /\ SetState(r, [req[r] EXCEPT !.pc = "handler", !.data = mine,
                          !.id = IF o = 0 THEN 0 ELSE req[r].cookie,
                          !.had = o # 0, !.before = bag])
        /\ UNCHANGED <<store, jar>>
        /\ SetHeap([heap EXCEPT ![mine] = bag])

-----------------------------------------------------------------------------
(* What the handler does with the injected Session. *)

(* Mutant of Put: it does not cancel destroy(). *)
PutKeepsDestroyed(r) ==
  /\ Handling(r)
  /\ req[r].id = 0 => FreeIds # {}
  /\ SetState(r, [req[r] EXCEPT !.dirty = TRUE, !.id = IF @ = 0 THEN NewId ELSE @])
  /\ UNCHANGED <<store, jar>>
  /\ \E v \in Values : SetHeap([heap EXCEPT ![req[r].data] = @ \union {v}])

Put(r) ==
  /\ Handling(r)
  /\ req[r].id = 0 => FreeIds # {}
  /\ SetState(r, [req[r] EXCEPT !.dirty = TRUE, !.destroyed = FALSE,
                                !.id = IF @ = 0 THEN NewId ELSE @])
  /\ UNCHANGED <<store, jar>>
  /\ \E v \in Values : SetHeap([heap EXCEPT ![req[r].data] = @ \union {v}])

Delete(r) ==
  /\ Handling(r)
  /\ SetState(r, [req[r] EXCEPT !.dirty = TRUE])
  /\ UNCHANGED <<store, jar>>
  /\ \E v \in Values : SetHeap([heap EXCEPT ![req[r].data] = @ \ {v}])

Clear(r) ==
  /\ Handling(r)
  /\ FreeObjects # {}
  /\ SetState(r, [req[r] EXCEPT !.dirty = TRUE, !.data = NewObject])
  /\ UNCHANGED <<store, jar>>
  /\ SetHeap([heap EXCEPT ![NewObject] = {}])

Regenerate(r) ==
  /\ Handling(r)
  /\ careful => req[r].oldId = 0 /\ ~ req[r].destroyed
  /\ FreeIds # {}
  /\ SetState(r, [req[r] EXCEPT !.dirty = TRUE, !.id = NewId,
                                !.oldId = IF req[r].id # 0 THEN req[r].id ELSE @])
  /\ UNCHANGED <<heap, store, jar>>

Destroy(r) ==
  /\ Handling(r)
  /\ careful => req[r].oldId = 0
  /\ SetState(r, [req[r] EXCEPT !.destroyed = TRUE])
  /\ UNCHANGED <<heap, store, jar>>

(* A wrapper inside that of session() throws: nothing is persisted. *)
Throw(r) ==
  /\ Handling(r)
  /\ SetState(r, NoRequest)
  /\ UNCHANGED <<store, jar>>
  /\ SetHeap(heap)

-----------------------------------------------------------------------------
(* Once next() has resolved. *)
Saves(r) == ~ req[r].destroyed /\ req[r].dirty /\ req[r].id # 0

(* The response sets the cookie as told by answer. *)
Answer(r, answer) == SetState(r, [req[r] EXCEPT !.pc = "respond", !.answer = answer])

LogOut(r) ==
  /\ Handling(r) /\ req[r].destroyed
  /\ store' = IF req[r].id = 0 THEN store ELSE [store EXCEPT ![req[r].id] = 0]
  /\ Answer(r, IF req[r].cookie # 0 THEN 0 ELSE -1)
  /\ UNCHANGED jar
  /\ SetHeap(heap)

(* Mutant of DropOld: the old id stays in the store. *)
DropOldNever(r) ==
  /\ Handling(r) /\ Saves(r) /\ req[r].oldId # 0
  /\ SetState(r, [req[r] EXCEPT !.pc = "save"])
  /\ UNCHANGED <<heap, store, jar>>

DropOld(r) ==
  /\ Handling(r) /\ Saves(r) /\ req[r].oldId # 0
  /\ store' = [store EXCEPT ![req[r].oldId] = 0]
  /\ SetState(r, [req[r] EXCEPT !.pc = "save"])
  /\ UNCHANGED jar
  /\ SetHeap(heap)

Save(r) ==
  /\ \/ req[r].pc = "save"
     \/ Handling(r) /\ Saves(r) /\ req[r].oldId = 0
  /\ ~ live => FreeObjects # {}
  /\ LET o == IF live THEN req[r].data ELSE NewObject IN
       /\ store' = [store EXCEPT ![req[r].id] = o]
       /\ Answer(r, req[r].id)
       /\ SetHeap([heap EXCEPT ![o] = heap[req[r].data]])
  /\ UNCHANGED jar

Skip(r) ==
  /\ Handling(r) /\ ~ req[r].destroyed /\ ~ Saves(r)
  /\ Answer(r, -1)
  /\ UNCHANGED <<heap, store, jar>>

(* The response reaches the client. *)
Respond(r) ==
  /\ req[r].pc = "respond"
  /\ jar' = IF req[r].answer = -1 THEN jar ELSE req[r].answer
  /\ SetState(r, NoRequest)
  /\ UNCHANGED store
  /\ SetHeap(heap)

(* The ttl of a session is over: get() finds nothing under its id. *)
Expire(i) ==
  /\ expires
  /\ store[i] # 0
  /\ store' = [store EXCEPT ![i] = 0]
  /\ UNCHANGED <<jar, req>>
  /\ SetHeap(heap)

Handle(r) ==
  \/ Send(r) \/ Load(r)
  \/ Put(r) \/ Delete(r) \/ Clear(r) \/ Regenerate(r) \/ Destroy(r) \/ Throw(r)
  \/ LogOut(r) \/ DropOld(r) \/ Save(r) \/ Skip(r) \/ Respond(r)

Next ==
  /\ \/ \E r \in Requests : Handle(r)
     \/ \E i \in Ids : Expire(i)
  /\ UNCHANGED config

Spec == Init /\ [][Next]_vars

-----------------------------------------------------------------------------
(* Properties. *)

(* Every variable has its type: ids and data objects, those in the store, in the
   cookie and in each SessionState (session.ts), are some that exist. *)
TypeOK ==
  /\ live \in BOOLEAN /\ expires \in BOOLEAN /\ careful \in BOOLEAN
  /\ heap \in [Objects -> SUBSET Values]
  /\ store \in [Ids -> 0..MaxObjects]
  /\ jar \in 0..MaxIds
  /\ req \in [Requests -> Request]
  /\ \A r \in Requests : req[r].pc \in {"handler", "save"} => req[r].data # 0

(* At rest the only session that the store has is the one that the client's cookie
   names: regenerate() and destroy() leave none behind that an old id still opens. *)
NoneLeftBehind == AtRest => \A i \in Ids : store[i] # 0 => jar = i

(* ... when the client sends one request at a time and the handler is careful. *)
CarefulLeavesNone == Alone /\ careful => NoneLeftBehind

(* "The old id is destroyed on persist" (regenerate), "Destroy the session"
   (destroy): the same for every handler.  It does not hold: oldId keeps one id, so
   a handler that is not careful leaves the session of the client's old id. *)
OldIdDestroyed == Alone => NoneLeftBehind

(* A client that sends one request at a time sees SessionBag, with either store. *)
Handled == {r \in Requests : Alone /\ req[r].pc \in {"handler", "save", "respond"}}
Current == req[CHOOSE r \in Handled : TRUE]
HasSession == Alone /\ jar # 0 /\ store[jar] # 0

BagExists == IF Handled # {} THEN Current.had ELSE HasSession
BagSaved ==
  IF Handled # {} THEN Current.before ELSE IF HasSession THEN heap[store[jar]] ELSE {}
BagWork == IF Handled # {} THEN heap[Current.data] ELSE {}
BagDirty == Handled # {} /\ Current.dirty
BagOut == Handled # {} /\ Current.destroyed

Bag == INSTANCE SessionBag WITH
         exists <- BagExists, saved <- BagSaved, busy <- Handled # {},
         work <- BagWork, dirty <- BagDirty, out <- BagOut
ImplementsSession == Bag!Spec
=============================================================================
