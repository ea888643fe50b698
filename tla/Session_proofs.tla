--------------------------- MODULE Session_proofs ---------------------------
(***************************************************************************)
(* Proofs about Session: its types, and that requests sent one at a time    *)
(* whose handlers are careful leave no session behind.                      *)
(***************************************************************************)
EXTENDS Session, TLAPS

(* What is typed in the state besides the configuration. *)
HeapType == heap \in [Objects -> SUBSET Values]
StoreType == store \in [Ids -> 0..MaxObjects]
ReqType == req \in [Requests -> Request]
HasData ==
  \A r \in Requests : req[r].pc \in {"handler", "save"} => req[r].data # 0

LEMMA Fresh ==
  /\ FreeObjects # {} => NewObject \in Objects /\ NewObject # 0
  /\ FreeIds # {} => NewId \in Ids /\ NewId # 0
<1>1. FreeObjects # {} => NewObject \in FreeObjects
  BY DEF NewObject
<1>2. FreeIds # {} => NewId \in FreeIds
  BY DEF NewId
<1> QED
  BY <1>1, <1>2, MaxAssumption DEF FreeObjects, FreeIds, Objects, Ids

LEMMA HeapKept ==
  ASSUME NEW new \in [Objects -> SUBSET Values], SetHeap(new)
  PROVE  HeapType'
BY DEF SetHeap, HeapType

LEMMA StateKept ==
  ASSUME ReqType, HasData, NEW r \in Requests, NEW state \in Request,
         state.pc \in {"handler", "save"} => state.data # 0, SetState(r, state)
  PROVE  ReqType' /\ HasData'
BY DEF ReqType, HasData, SetState

(* What one request does keeps the types. *)
LEMMA HandleTyped ==
  ASSUME TypeOK, NEW r \in Requests, Handle(r)
  PROVE  HeapType' /\ StoreType' /\ jar' \in 0..MaxIds /\ ReqType' /\ HasData'
<1> USE MaxAssumption
<1>1. HeapType /\ StoreType /\ jar \in 0..MaxIds /\ ReqType /\ HasData
  BY DEF TypeOK, HeapType, StoreType, ReqType, HasData
<1>2. req[r] \in Request
  BY <1>1 DEF ReqType
<1>3. req[r].data \in 0..MaxObjects /\ req[r].id \in 0..MaxIds /\ req[r].oldId \in 0..MaxIds
  BY <1>2 DEF Request
<1>4. NoRequest \in Request /\ NoRequest.pc = "idle"
  BY DEF NoRequest, Request
<1>5. Handling(r) => req[r].data \in Objects
  BY <1>1, <1>3 DEF HasData, Objects, Handling
<1>6. CASE Send(r)
  <2>1. [NoRequest EXCEPT !.pc = "get", !.cookie = jar] \in Request
    BY <1>1, <1>4 DEF Request
  <2>2. [NoRequest EXCEPT !.pc = "get", !.cookie = jar].pc = "get"
    BY DEF NoRequest
  <2>3. ReqType' /\ HasData'
    BY <1>1, <1>6, <2>1, <2>2, StateKept DEF Send
  <2> QED
    BY <1>1, <1>6, <2>3 DEF Send, HeapType, StoreType
<1>7. CASE Load(r)
  <2> DEFINE o == Stored(r)
             bag == IF o = 0 THEN {} ELSE heap[o]
             mine == IF o # 0 /\ live THEN o ELSE NewObject
             state == [req[r] EXCEPT !.pc = "handler", !.data = mine,
                         !.id = IF o = 0 THEN 0 ELSE req[r].cookie,
                         !.had = o # 0, !.before = bag]
  <2>1. req[r].cookie \in 0..MaxIds
    BY <1>2 DEF Request
  <2>2. o \in 0..MaxObjects
    BY <1>1, <2>1 DEF Stored, StoreType, Ids
  <2>3. bag \in SUBSET Values
    BY <1>1, <2>2 DEF HeapType, Objects
  <2>4. mine \in Objects /\ mine # 0
    BY <1>7, <2>2, Fresh DEF Load, Objects
  <2>5. mine \in 0..MaxObjects
    BY <2>4 DEF Objects
  <2>6. (IF o = 0 THEN 0 ELSE req[r].cookie) \in 0..MaxIds
    BY <2>1
  <2>7. (o # 0) \in BOOLEAN
    OBVIOUS
  <2> HIDE DEF o, bag, mine
  <2>8. state \in Request /\ state.data = mine
    BY <1>2, <2>3, <2>5, <2>6, <2>7 DEF Request
  <2>9. [heap EXCEPT ![mine] = bag] \in [Objects -> SUBSET Values]
    BY <1>1, <2>3 DEF HeapType
  <2>10. SetState(r, state) /\ SetHeap([heap EXCEPT ![mine] = bag]) /\ UNCHANGED <<store, jar>>
    BY <1>7 DEF Load, o, bag, mine
  <2> HIDE DEF state
  <2>11. ReqType' /\ HasData'
    BY <1>1, <2>4, <2>8, <2>10, StateKept
  <2>12. HeapType'
    BY <2>9, <2>10, HeapKept
  <2> QED
    BY <1>1, <2>10, <2>11, <2>12 DEF StoreType
<1>8. CASE Put(r)
  <2>1. (IF req[r].id = 0 THEN NewId ELSE req[r].id) \in 0..MaxIds
    BY <1>3, <1>8, Fresh DEF Put, Ids
  <2> DEFINE state == [req[r] EXCEPT !.dirty = TRUE, !.destroyed = FALSE,
                                     !.id = IF @ = 0 THEN NewId ELSE @]
  <2>2. state \in Request /\ state.data = req[r].data
    BY <1>2, <2>1 DEF Request
  <2>3. SetState(r, state)
    BY <1>8 DEF Put
  <2> HIDE DEF state
  <2>4. ReqType' /\ HasData'
    BY <1>1, <1>8, <2>2, <2>3, StateKept DEF Put, HasData, Handling
  <2>5. PICK v \in Values : SetHeap([heap EXCEPT ![req[r].data] = @ \union {v}])
    BY <1>8 DEF Put
  <2>6. [heap EXCEPT ![req[r].data] = @ \union {v}] \in [Objects -> SUBSET Values]
    BY <1>1, <1>5, <1>8 DEF HeapType, Put
  <2>7. HeapType'
    BY <2>5, <2>6, HeapKept
  <2> QED
    BY <1>1, <1>8, <2>4, <2>7 DEF Put, StoreType
<1>9. CASE Delete(r)
  <2> DEFINE state == [req[r] EXCEPT !.dirty = TRUE]
  <2>2. state \in Request /\ state.data = req[r].data
    BY <1>2 DEF Request
  <2>3. SetState(r, state)
    BY <1>9 DEF Delete
  <2> HIDE DEF state
  <2>4. ReqType' /\ HasData'
    BY <1>1, <1>9, <2>2, <2>3, StateKept DEF Delete, HasData, Handling
  <2>5. PICK v \in Values : SetHeap([heap EXCEPT ![req[r].data] = @ \ {v}])
    BY <1>9 DEF Delete
  <2>6. [heap EXCEPT ![req[r].data] = @ \ {v}] \in [Objects -> SUBSET Values]
    BY <1>1, <1>5, <1>9 DEF HeapType, Delete
  <2>7. HeapType'
    BY <2>5, <2>6, HeapKept
  <2> QED
    BY <1>1, <1>9, <2>4, <2>7 DEF Delete, StoreType
<1>10. CASE Clear(r)
  <2> DEFINE state == [req[r] EXCEPT !.dirty = TRUE, !.data = NewObject]
  <2>1. NewObject \in 0..MaxObjects /\ NewObject # 0
    BY <1>10, Fresh DEF Clear, Objects
  <2>2. state \in Request /\ state.data = NewObject
    BY <1>2, <2>1 DEF Request
  <2>3. SetState(r, state)
    BY <1>10 DEF Clear
  <2> HIDE DEF state
  <2>4. ReqType' /\ HasData'
    BY <1>1, <2>1, <2>2, <2>3, StateKept
  <2>5. [heap EXCEPT ![NewObject] = {}] \in [Objects -> SUBSET Values]
    BY <1>1 DEF HeapType
  <2>6. HeapType'
    BY <1>10, <2>5, HeapKept DEF Clear
  <2> QED
    BY <1>1, <1>10, <2>4, <2>6 DEF Clear, StoreType
<1>11. CASE Regenerate(r)
  <2> DEFINE state == [req[r] EXCEPT !.dirty = TRUE, !.id = NewId,
                         !.oldId = IF req[r].id # 0 THEN req[r].id ELSE @]
  <2>1. NewId \in 0..MaxIds
    BY <1>11, Fresh DEF Regenerate, Ids
  <2>2. (IF req[r].id # 0 THEN req[r].id ELSE req[r].oldId) \in 0..MaxIds
    BY <1>3
  <2>3. state \in Request /\ state.data = req[r].data
    BY <1>2, <2>1, <2>2 DEF Request
  <2>4. SetState(r, state)
    BY <1>11 DEF Regenerate
  <2> HIDE DEF state
  <2>5. ReqType' /\ HasData'
    BY <1>1, <1>11, <2>3, <2>4, StateKept DEF Regenerate, HasData, Handling
  <2> QED
    BY <1>1, <1>11, <2>5 DEF Regenerate, StoreType, HeapType
<1>12. CASE Destroy(r)
  <2> DEFINE state == [req[r] EXCEPT !.destroyed = TRUE]
  <2>1. state \in Request /\ state.data = req[r].data
    BY <1>2 DEF Request
  <2>2. SetState(r, state)
    BY <1>12 DEF Destroy
  <2> HIDE DEF state
  <2>3. ReqType' /\ HasData'
    BY <1>1, <1>12, <2>1, <2>2, StateKept DEF Destroy, HasData, Handling
  <2> QED
    BY <1>1, <1>12, <2>3 DEF Destroy, StoreType, HeapType
<1>13. CASE Throw(r)
  <2>1. ReqType' /\ HasData'
    BY <1>1, <1>4, <1>13, StateKept DEF Throw
  <2>2. HeapType'
    BY <1>1, <1>13, HeapKept DEF Throw, HeapType
  <2> QED
    BY <1>1, <1>13, <2>1, <2>2 DEF Throw, StoreType
<1>14. ASSUME NEW a \in -1..MaxIds, Answer(r, a)
       PROVE  ReqType' /\ HasData'
  <2> DEFINE state == [req[r] EXCEPT !.pc = "respond", !.answer = a]
  <2>1. state \in Request /\ state.pc = "respond"
    BY <1>2 DEF Request
  <2>2. SetState(r, state)
    BY <1>14 DEF Answer
  <2> HIDE DEF state
  <2> QED
    BY <1>1, <2>1, <2>2, StateKept
<1>15. CASE LogOut(r)
  <2>1. ReqType' /\ HasData'
    BY <1>14, <1>15 DEF LogOut
  <2>2. HeapType'
    BY <1>1, <1>15, HeapKept DEF LogOut, HeapType
  <2>4. 0 \in 0..MaxObjects
    OBVIOUS
  <2>3. StoreType'
    BY <1>1, <1>15, <2>4 DEF LogOut, StoreType
  <2> QED
    BY <1>1, <1>15, <2>1, <2>2, <2>3 DEF LogOut
<1>16. CASE DropOld(r)
  <2> DEFINE state == [req[r] EXCEPT !.pc = "save"]
  <2>1. state \in Request /\ state.data = req[r].data
    BY <1>2 DEF Request
  <2>2. SetState(r, state)
    BY <1>16 DEF DropOld
  <2> HIDE DEF state
  <2>3. ReqType' /\ HasData'
    BY <1>1, <1>16, <2>1, <2>2, StateKept DEF DropOld, HasData, Handling
  <2>4. HeapType'
    BY <1>1, <1>16, HeapKept DEF DropOld, HeapType
  <2>5. 0 \in 0..MaxObjects
    OBVIOUS
  <2>6. StoreType'
    BY <1>1, <1>16, <2>5 DEF DropOld, StoreType
  <2> QED
    BY <1>1, <1>16, <2>3, <2>4, <2>6 DEF DropOld
<1>17. CASE Save(r)
  <2> DEFINE o == IF live THEN req[r].data ELSE NewObject
  <2>1. o \in 0..MaxObjects
    BY <1>3, <1>17, Fresh DEF Save, Objects
  <2>2. store' = [store EXCEPT ![req[r].id] = o] /\ Answer(r, req[r].id)
        /\ SetHeap([heap EXCEPT ![o] = heap[req[r].data]]) /\ UNCHANGED jar
    BY <1>17 DEF Save
  <2> HIDE DEF o
  <2>3. StoreType'
    BY <1>1, <2>1, <2>2 DEF StoreType
  <2>4. ReqType' /\ HasData'
    BY <1>3, <1>14, <2>2
  <2>5. req[r].data \in Objects
    BY <1>1, <1>3, <1>17 DEF HasData, Handling, Save, Objects
  <2>6. heap[req[r].data] \in SUBSET Values
    BY <1>1, <2>5 DEF HeapType
  <2>7. [heap EXCEPT ![o] = heap[req[r].data]] \in [Objects -> SUBSET Values]
    BY <1>1, <2>6 DEF HeapType
  <2> QED
    BY <1>1, <2>2, <2>3, <2>4, <2>7, HeapKept
<1>18. CASE Skip(r)
  <2>1. ReqType' /\ HasData'
    BY <1>14, <1>18 DEF Skip
  <2> QED
    BY <1>1, <1>18, <2>1 DEF Skip, StoreType, HeapType
<1>19. CASE Respond(r)
  <2>1. ReqType' /\ HasData'
    BY <1>1, <1>4, <1>19, StateKept DEF Respond
  <2>2. HeapType'
    BY <1>1, <1>19, HeapKept DEF Respond, HeapType
  <2>3. req[r].answer \in -1..MaxIds
    BY <1>2 DEF Request
  <2>4. jar' \in 0..MaxIds
    BY <1>1, <1>19, <2>3 DEF Respond
  <2> QED
    BY <1>1, <1>19, <2>1, <2>2, <2>4 DEF Respond, StoreType
<1> QED
  BY <1>6, <1>7, <1>8, <1>9, <1>10, <1>11, <1>12, <1>13, <1>15, <1>16, <1>17, <1>18,
     <1>19 DEF Handle

(* The state keeps its types, for any requests, values and bounds. *)
THEOREM TypeCorrect == Spec => []TypeOK
<1>1. Init => TypeOK
  <2> SUFFICES ASSUME Init PROVE TypeOK
    OBVIOUS
  <2>1. 0 \in 0..MaxIds /\ 0 \in 0..MaxObjects
    BY MaxAssumption
  <2>2. NoRequest \in Request /\ NoRequest.pc = "idle"
    BY MaxAssumption DEF NoRequest, Request
  <2> QED
    BY <2>1, <2>2 DEF Init, TypeOK
<1>2. TypeOK /\ [Next]_vars => TypeOK'
  <2> SUFFICES ASSUME TypeOK, [Next]_vars PROVE TypeOK'
    OBVIOUS
  <2> USE DEF HeapType, StoreType, ReqType, HasData
  <2>1. CASE \E r \in Requests : Handle(r) /\ UNCHANGED config
    BY <2>1, HandleTyped DEF TypeOK, config
  <2>2. CASE \E i \in Ids : Expire(i) /\ UNCHANGED config
    <3>1. PICK i \in Ids : Expire(i)
      BY <2>2
    <3>2. 0 \in 0..MaxObjects
      BY MaxAssumption
    <3>3. store' \in [Ids -> 0..MaxObjects]
      BY <3>1, <3>2 DEF Expire, TypeOK
    <3>4. heap' \in [Objects -> SUBSET Values]
      BY <3>1, HeapKept DEF Expire, TypeOK
    <3> QED
      BY <2>2, <3>1, <3>3, <3>4 DEF Expire, TypeOK, config
  <2>3. CASE UNCHANGED vars
    BY <2>3 DEF TypeOK, vars
  <2> QED
    BY <2>1, <2>2, <2>3 DEF Next
<1> QED
  BY <1>1, <1>2, PTL DEF Spec

-----------------------------------------------------------------------------
(* Every stored session is under id i. *)
Only(i) == \A j \in Ids : store[j] # 0 => j = i
Empty == \A j \in Ids : store[j] = 0

(* While a request is on its way the store has at most the session it came with;
   none once the id was renewed or is not that of the cookie; and after saving at
   most the one that the answer names. *)
Place(q) ==
  /\ q.pc \in {"get", "handler", "save"} => q.cookie = jar
  /\ q.pc \in {"get", "handler"} => Only(jar)
  /\ q.pc = "get" => q.oldId = 0
  /\ q.pc = "handler" /\ q.oldId = 0 /\ q.id # jar => Empty
  /\ q.pc = "handler" /\ q.oldId # 0 => ~ q.destroyed /\ (q.oldId = jar \/ Empty)
  /\ q.pc = "save" => Empty
  /\ q.pc = "respond" => IF q.answer = -1 THEN Only(jar) ELSE Only(q.answer)

One == \A r, q \in Requests : req[r].pc # "idle" /\ req[q].pc # "idle" => r = q

LeavesNoneInv ==
  /\ One
  /\ AtRest => Only(jar)
  /\ \A r \in Requests : Place(req[r])

(* Nothing to prove for a client or a handler that does not keep to the rules. *)
Inv == Alone /\ careful => LeavesNoneInv

LEMMA Others ==
  ASSUME ReqType, NEW r \in Requests, NEW state \in Request, SetState(r, state),
         \A q \in Requests : q # r => req[q].pc = "idle"
  PROVE  req'[r] = state /\ \A q \in Requests : q # r => req'[q].pc = "idle"
BY DEF ReqType, SetState

LEMMA Placed ==
  ASSUME NEW r \in Requests, \A q \in Requests : q # r => req'[q].pc = "idle",
         Place(req[r])', req'[r].pc = "idle" => Only(jar)'
  PROVE  LeavesNoneInv'
<1>1. One'
  BY DEF One
<1>2. (AtRest => Only(jar))'
  BY DEF AtRest
<1>3. ASSUME NEW q \in Requests
      PROVE  Place(req[q])'
  <2>1. CASE q = r
    BY <2>1
  <2>2. CASE q # r
    BY <2>2 DEF Place
  <2> QED
    BY <2>1, <2>2
<1> QED
  BY <1>1, <1>2, <1>3 DEF LeavesNoneInv

(* What a request does keeps the invariant. *)
LEMMA HandlePlaced ==
  ASSUME TypeOK, LeavesNoneInv, Alone, careful, NEW r \in Requests, Handle(r)
  PROVE  LeavesNoneInv'
<1> USE MaxAssumption
<1>1. ReqType /\ StoreType /\ jar \in 0..MaxIds /\ req[r] \in Request
  BY DEF TypeOK, ReqType, StoreType
<1>2. \A q \in Requests : q # r => req[q].pc = "idle"
  <2>1. CASE Send(r)
    BY <2>1 DEF Send, AtRest
  <2>2. CASE ~ Send(r)
    <3>1. req[r].pc # "idle"
      BY <2>2 DEF Handle, Load, Put, Delete, Clear, Regenerate, Destroy, Throw, LogOut,
                  DropOld, Save, Skip, Respond, Handling
    <3> QED
      BY <3>1 DEF LeavesNoneInv, One
  <2> QED
    BY <2>1, <2>2
<1>3. Place(req[r])
  BY DEF LeavesNoneInv
<1>4. ASSUME NEW state \in Request, SetState(r, state)
      PROVE  req'[r] = state /\ \A q \in Requests : q # r => req'[q].pc = "idle"
  BY <1>1, <1>2, <1>4, Others
<1>5. NoRequest \in Request /\ NoRequest.pc = "idle"
  BY DEF NoRequest, Request
<1>6. \A i \in Ids : i # 0
  BY DEF Ids
<1>7. CASE Send(r)
  <2> DEFINE state == [NoRequest EXCEPT !.pc = "get", !.cookie = jar]
  <2>1. state \in Request
    BY <1>1, <1>5 DEF Request
  <2>2. SetState(r, state) /\ UNCHANGED <<heap, store, jar>>
    BY <1>7 DEF Send
  <2>3. state.pc = "get" /\ state.cookie = jar /\ state.oldId = 0
    BY DEF NoRequest
  <2> HIDE DEF state
  <2>4. req'[r] = state /\ \A q \in Requests : q # r => req'[q].pc = "idle"
    BY <1>4, <2>1, <2>2
  <2>5. Only(jar)
    BY <1>7 DEF Send, LeavesNoneInv
  <2>6. Place(req[r])'
    BY <2>2, <2>3, <2>4, <2>5 DEF Place, Only
  <2> QED
    BY <2>3, <2>4, <2>6, Placed
<1>8. CASE Load(r)
  <2> DEFINE o == Stored(r)
             mine == IF o # 0 /\ live THEN o ELSE NewObject
             state == [req[r] EXCEPT !.pc = "handler", !.data = mine,
                         !.id = IF o = 0 THEN 0 ELSE req[r].cookie,
                         !.had = o # 0, !.before = IF o = 0 THEN {} ELSE heap[o]]
  <2>0. SetState(r, state) /\ UNCHANGED <<store, jar>>
    BY <1>8 DEF Load
  <2>1. req'[r] = state /\ \A q \in Requests : q # r => req'[q].pc = "idle"
    BY <1>1, <1>2, <2>0 DEF SetState, ReqType
  <2> HIDE DEF o, mine
  <2>2. /\ state.pc = "handler" /\ state.cookie = req[r].cookie
        /\ state.id = (IF o = 0 THEN 0 ELSE req[r].cookie) /\ state.oldId = req[r].oldId
        /\ state.destroyed = req[r].destroyed
    BY <1>1 DEF Request
  <2> HIDE DEF state
  <2>3. Only(jar) /\ req[r].cookie = jar /\ req[r].oldId = 0
    BY <1>3, <1>8 DEF Place, Load
  <2>4. state.id # jar => Empty
    BY <2>2, <2>3, <1>1, <1>6 DEF o, Stored, Only, Empty
  <2>5. Place(req[r])'
    BY <2>0, <2>1, <2>2, <2>3, <2>4 DEF Place, Only, Empty
  <2> QED
    BY <2>1, <2>2, <2>5, Placed
<1>20. req[r].pc = "handler" /\ req[r].id = 0 /\ req[r].oldId = 0 => Empty
  BY <1>1, <1>3, <1>6 DEF Place, Only, Empty
<1>9. CASE Put(r)
  <2> DEFINE state == [req[r] EXCEPT !.dirty = TRUE, !.destroyed = FALSE,
                                     !.id = IF @ = 0 THEN NewId ELSE @]
  <2>1. SetState(r, state) /\ UNCHANGED <<store, jar>>
    BY <1>9 DEF Put
  <2>2. req'[r] = state /\ \A q \in Requests : q # r => req'[q].pc = "idle"
    BY <1>1, <1>2, <2>1 DEF SetState, ReqType
  <2>3. /\ state.pc = "handler" /\ state.cookie = req[r].cookie /\ state.oldId = req[r].oldId
        /\ ~ state.destroyed
        /\ state.id = (IF req[r].id = 0 THEN NewId ELSE req[r].id)
    BY <1>1, <1>9 DEF Request, Put, Handling
  <2> HIDE DEF state
  <2>4. Place(req[r])'
    BY <1>3, <1>9, <2>1, <2>2, <2>3, <1>20 DEF Place, Only, Empty, Put, Handling
  <2> QED
    BY <2>2, <2>3, <2>4, Placed
<1>10. CASE Delete(r)
  <2> DEFINE state == [req[r] EXCEPT !.dirty = TRUE]
  <2>1. SetState(r, state) /\ UNCHANGED <<store, jar>>
    BY <1>10 DEF Delete
  <2>2. req'[r] = state /\ \A q \in Requests : q # r => req'[q].pc = "idle"
    BY <1>1, <1>2, <2>1 DEF SetState, ReqType
  <2>3. /\ state.pc = "handler" /\ state.cookie = req[r].cookie /\ state.oldId = req[r].oldId
        /\ state.destroyed = req[r].destroyed /\ state.id = req[r].id
    BY <1>1, <1>10 DEF Request, Delete, Handling
  <2> HIDE DEF state
  <2>4. Place(req[r])'
    BY <1>3, <1>10, <2>1, <2>2, <2>3 DEF Place, Only, Empty, Delete, Handling
  <2> QED
    BY <2>2, <2>3, <2>4, Placed
<1>11. CASE Clear(r)
  <2> DEFINE state == [req[r] EXCEPT !.dirty = TRUE, !.data = NewObject]
  <2>1. SetState(r, state) /\ UNCHANGED <<store, jar>>
    BY <1>11 DEF Clear
  <2>2. req'[r] = state /\ \A q \in Requests : q # r => req'[q].pc = "idle"
    BY <1>1, <1>2, <2>1 DEF SetState, ReqType
  <2>3. /\ state.pc = "handler" /\ state.cookie = req[r].cookie /\ state.oldId = req[r].oldId
        /\ state.destroyed = req[r].destroyed /\ state.id = req[r].id
    BY <1>1, <1>11 DEF Request, Clear, Handling
  <2> HIDE DEF state
  <2>4. Place(req[r])'
    BY <1>3, <1>11, <2>1, <2>2, <2>3 DEF Place, Only, Empty, Clear, Handling
  <2> QED
    BY <2>2, <2>3, <2>4, Placed
<1>12. CASE Regenerate(r)
  <2> DEFINE state == [req[r] EXCEPT !.dirty = TRUE, !.id = NewId,
                         !.oldId = IF req[r].id # 0 THEN req[r].id ELSE @]
  <2>1. SetState(r, state) /\ UNCHANGED <<store, jar>>
    BY <1>12 DEF Regenerate
  <2>2. req'[r] = state /\ \A q \in Requests : q # r => req'[q].pc = "idle"
    BY <1>1, <1>2, <2>1 DEF SetState, ReqType
  <2>3. /\ state.pc = "handler" /\ state.cookie = req[r].cookie /\ state.id = NewId
        /\ state.oldId = (IF req[r].id # 0 THEN req[r].id ELSE 0)
        /\ ~ state.destroyed /\ ~ req[r].destroyed /\ req[r].oldId = 0
    BY <1>1, <1>12 DEF Request, Regenerate, Handling
  <2> HIDE DEF state
  <2>4. Place(req[r])'
    BY <1>3, <1>12, <2>1, <2>2, <2>3, <1>20 DEF Place, Only, Empty, Regenerate, Handling
  <2> QED
    BY <2>2, <2>3, <2>4, Placed
<1>13. CASE Destroy(r)
  <2> DEFINE state == [req[r] EXCEPT !.destroyed = TRUE]
  <2>1. SetState(r, state) /\ UNCHANGED <<store, jar>>
    BY <1>13 DEF Destroy
  <2>2. req'[r] = state /\ \A q \in Requests : q # r => req'[q].pc = "idle"
    BY <1>1, <1>2, <2>1 DEF SetState, ReqType
  <2>3. /\ state.pc = "handler" /\ state.cookie = req[r].cookie /\ state.oldId = 0 /\ req[r].oldId = 0
        /\ state.id = req[r].id
    BY <1>1, <1>13 DEF Request, Destroy, Handling
  <2> HIDE DEF state
  <2>4. Place(req[r])'
    BY <1>3, <1>13, <2>1, <2>2, <2>3 DEF Place, Only, Empty, Destroy, Handling
  <2> QED
    BY <2>2, <2>3, <2>4, Placed
<1>14. CASE Throw(r)
  <2>1. SetState(r, NoRequest) /\ UNCHANGED <<store, jar>>
    BY <1>14 DEF Throw
  <2>2. req'[r] = NoRequest /\ \A q \in Requests : q # r => req'[q].pc = "idle"
    BY <1>4, <1>5, <2>1
  <2>3. Place(req[r])' /\ Only(jar)'
    BY <1>3, <1>5, <1>14, <2>1, <2>2 DEF Place, Only, Throw, Handling
  <2> QED
    BY <2>2, <2>3, Placed
<1>15. CASE LogOut(r)
  <2> DEFINE state == [req[r] EXCEPT !.pc = "respond",
                                     !.answer = IF req[r].cookie # 0 THEN 0 ELSE -1]
  <2>1. SetState(r, state) /\ UNCHANGED jar
    BY <1>15 DEF LogOut, Answer
  <2>2. req'[r] = state /\ \A q \in Requests : q # r => req'[q].pc = "idle"
    BY <1>1, <1>2, <2>1 DEF SetState, ReqType
  <2>3. state.pc = "respond"
    BY <1>1 DEF Request
  <2> HIDE DEF state
  <2>4. Only(jar) /\ (req[r].id # jar => Empty)
    BY <1>3, <1>15 DEF Place, LogOut, Handling
  <2>5. Empty'
    <3>1. CASE req[r].id = 0
      BY <1>1, <1>6, <1>15, <2>4, <3>1 DEF LogOut, Only, Empty
    <3>2. CASE req[r].id # 0
      <4>1. store' = [store EXCEPT ![req[r].id] = 0]
        BY <1>15, <3>2 DEF LogOut
      <4> QED
        BY <1>1, <2>4, <4>1 DEF Only, Empty, StoreType
    <3> QED
      BY <3>1, <3>2
  <2>6. Place(req[r])'
    BY <2>2, <2>3, <2>5 DEF Place, Only, Empty
  <2> QED
    BY <2>2, <2>3, <2>6, Placed
<1>16. CASE DropOld(r)
  <2> DEFINE state == [req[r] EXCEPT !.pc = "save"]
  <2>1. SetState(r, state) /\ UNCHANGED jar /\ store' = [store EXCEPT ![req[r].oldId] = 0]
    BY <1>16 DEF DropOld
  <2>2. req'[r] = state /\ \A q \in Requests : q # r => req'[q].pc = "idle"
    BY <1>1, <1>2, <2>1 DEF SetState, ReqType
  <2>3. state.pc = "save" /\ state.cookie = req[r].cookie
    BY <1>1 DEF Request
  <2> HIDE DEF state
  <2>4. Only(jar) /\ (req[r].oldId = jar \/ Empty) /\ req[r].cookie = jar
    BY <1>3, <1>16 DEF Place, DropOld, Handling
  <2>5. Empty'
    BY <1>1, <2>1, <2>4 DEF Only, Empty, StoreType
  <2>6. Place(req[r])'
    BY <2>1, <2>2, <2>3, <2>4, <2>5 DEF Place, Only, Empty
  <2> QED
    BY <2>2, <2>3, <2>6, Placed
<1>17. CASE Save(r)
  <2> DEFINE state == [req[r] EXCEPT !.pc = "respond", !.answer = req[r].id]
  <2>1. SetState(r, state) /\ UNCHANGED jar
    BY <1>17 DEF Save, Answer
  <2>2. PICK o : store' = [store EXCEPT ![req[r].id] = o]
    BY <1>17 DEF Save
  <2>3. req'[r] = state /\ \A q \in Requests : q # r => req'[q].pc = "idle"
    BY <1>1, <1>2, <2>1 DEF SetState, ReqType
  <2>4. state.pc = "respond" /\ state.answer = req[r].id /\ req[r].id \in 0..MaxIds
    BY <1>1 DEF Request
  <2> HIDE DEF state
  <2>5. Only(req[r].id)
    BY <1>3, <1>17 DEF Place, Save, Handling, Only, Empty
  <2>6. Only(req[r].id)'
    <3>1. ASSUME NEW j \in Ids, j # req[r].id
          PROVE  store'[j] = 0
      BY <1>1, <2>2, <2>5, <3>1 DEF Only, StoreType
    <3>2. ASSUME NEW j \in Ids, j # req'[r].id
          PROVE  store'[j] = 0
      <4>1. req'[r].id = req[r].id
        BY <1>1, <2>3 DEF Request, state
      <4> QED
        BY <3>1, <3>2, <4>1
    <3> QED
      BY <3>2 DEF Only
  <2>7. Place(req[r])'
    <3>1. req'[r].id = req[r].id
      BY <1>1, <2>3 DEF Request, state
    <3>2. req'[r].answer = req'[r].id /\ req'[r].answer # -1 /\ req'[r].pc = "respond"
      BY <2>3, <2>4, <3>1
    <3> QED
      BY <2>6, <3>2 DEF Place, Only
  <2> QED
    BY <2>3, <2>4, <2>7, Placed
<1>18. CASE Skip(r)
  <2> DEFINE state == [req[r] EXCEPT !.pc = "respond", !.answer = -1]
  <2>1. SetState(r, state) /\ UNCHANGED <<store, jar>>
    BY <1>18 DEF Skip, Answer
  <2>2. req'[r] = state /\ \A q \in Requests : q # r => req'[q].pc = "idle"
    BY <1>1, <1>2, <2>1 DEF SetState, ReqType
  <2>3. state.pc = "respond" /\ state.answer = -1
    BY <1>1 DEF Request
  <2> HIDE DEF state
  <2>4. Place(req[r])'
    BY <1>3, <1>18, <2>1, <2>2, <2>3 DEF Place, Only, Skip, Handling
  <2> QED
    BY <2>2, <2>3, <2>4, Placed
<1>19. CASE Respond(r)
  <2>1. SetState(r, NoRequest) /\ UNCHANGED store
        /\ jar' = IF req[r].answer = -1 THEN jar ELSE req[r].answer
    BY <1>19 DEF Respond
  <2>2. req'[r] = NoRequest /\ \A q \in Requests : q # r => req'[q].pc = "idle"
    BY <1>4, <1>5, <2>1
  <2>3. Place(req[r])' /\ Only(jar)'
    BY <1>3, <1>5, <1>19, <2>1, <2>2 DEF Place, Only, Respond
  <2> QED
    BY <2>2, <2>3, Placed
<1> QED
  BY <1>7, <1>8, <1>9, <1>10, <1>11, <1>12, <1>13, <1>14, <1>15, <1>16, <1>17, <1>18,
     <1>19 DEF Handle

(* A client that sends one request at a time, to handlers that are careful, has at
   rest no session in the store but the one of its cookie. *)
THEOREM LeavesNone == Spec => []CarefulLeavesNone
<1>1. Init => Inv
  BY DEF Init, Inv, LeavesNoneInv, One, AtRest, Only, Place, NoRequest
<1>2. TypeOK /\ Inv /\ [Next]_vars => Inv'
  <2> SUFFICES ASSUME TypeOK, Inv, [Next]_vars, (Alone /\ careful)' PROVE LeavesNoneInv'
    BY DEF Inv
  <2>1. Alone /\ careful /\ LeavesNoneInv
    BY DEF Inv, Next, vars, config
  <2>2. CASE \E r \in Requests : Handle(r)
    BY <2>1, <2>2, HandlePlaced
  <2>3. CASE \E i \in Ids : Expire(i)
    BY <2>1, <2>3 DEF Expire, LeavesNoneInv, One, AtRest, Only, Empty, Place, TypeOK
  <2>4. CASE UNCHANGED vars
    BY <2>1, <2>4 DEF vars, LeavesNoneInv, One, AtRest, Only, Empty, Place
  <2> QED
    BY <2>2, <2>3, <2>4 DEF Next
<1>3. Inv => CarefulLeavesNone
  BY DEF Inv, LeavesNoneInv, CarefulLeavesNone, NoneLeftBehind, Only
<1> QED
  BY <1>1, <1>2, <1>3, TypeCorrect, PTL DEF Spec

-----------------------------------------------------------------------------
(* A request in the handler: it works on the data that was loaded, which is still
   what the store has unless the handler changed it (in a store that hands out its
   own objects) or it expired; without an id it has no data. *)
Working(q) ==
  /\ q.cookie = jar
  /\ q.had => jar # 0 /\ (store[jar] # 0 \/ expires)
  /\ ~ q.had => q.before = {} /\ (jar = 0 \/ store[jar] = 0)
  /\ ~ q.dirty => heap[q.data] = q.before
  /\ q.id = 0 => ~ q.had /\ heap[q.data] = {}
  /\ jar # 0 /\ store[jar] # 0 /\ (~ live \/ ~ q.dirty) => heap[store[jar]] = q.before
  /\ ~ live => \A i \in Ids : store[i] # q.data

(* One that has an answer: it saved its data under the id that the answer names,
   destroyed its session, or had nothing to save. *)
Saved(q) ==
  /\ q.answer \in Ids /\ q.dirty /\ ~ q.destroyed
  /\ store[q.answer] = 0 => expires
  /\ store[q.answer] # 0 => heap[store[q.answer]] = heap[q.data]

Ended(q) == q.destroyed /\ (q.answer = 0 \/ (q.answer = -1 /\ jar = 0))

Unchanged(q) ==
  q.answer = -1 /\ ~ q.destroyed /\ Working(q) /\ (q.dirty => q.id = 0)

Fits(q) ==
  /\ q.pc = "get" =>
       q.cookie = jar /\ ~ q.dirty /\ ~ q.destroyed
  /\ q.pc \in {"handler", "save", "respond"} => q.data \in Objects
  /\ q.pc = "handler" => Working(q)
  /\ q.pc = "save" => q.dirty /\ ~ q.destroyed /\ q.id \in Ids
  /\ q.pc = "respond" => Saved(q) \/ Ended(q) \/ Unchanged(q)

BagInv == Alone => One /\ \A r \in Requests : Fits(req[r])

(* What the abstract session is while r is handled, and while no request is. *)
Busy(q) == q.pc \in {"handler", "save", "respond"}

LEMMA ViewBusy ==
  ASSUME Alone, NEW r \in Requests, Busy(req[r]),
         \A q \in Requests : q # r => req[q].pc = "idle"
  PROVE  /\ Handled # {} /\ BagExists = req[r].had /\ BagSaved = req[r].before
         /\ BagWork = heap[req[r].data]
         /\ BagDirty <=> req[r].dirty
         /\ BagOut <=> req[r].destroyed
<1>1. Handled = {r}
  BY DEF Handled, Busy
<1>2. (CHOOSE q \in Handled : TRUE) = r
  BY <1>1
<1>3. Current = req[r]
  BY <1>2 DEF Current
<1> QED
  BY <1>1, <1>3 DEF BagExists, BagSaved, BagWork, BagDirty, BagOut

LEMMA ViewBusyNext ==
  ASSUME Alone, NEW r \in Requests, Busy(req'[r]),
         \A q \in Requests : q # r => req'[q].pc = "idle"
  PROVE  /\ Handled' # {} /\ BagExists' = req'[r].had /\ BagSaved' = req'[r].before
         /\ BagWork' = heap'[req'[r].data]
         /\ BagDirty' <=> req'[r].dirty
         /\ BagOut' <=> req'[r].destroyed
<1>1. Handled' = {r}
  BY DEF Handled, Busy
<1>2. (CHOOSE q \in Handled' : TRUE) = r
  BY <1>1
<1>3. Current' = req'[r]
  BY <1>2 DEF Current
<1> QED
  BY <1>1, <1>3 DEF BagExists, BagSaved, BagWork, BagDirty, BagOut

LEMMA ViewRest ==
  ASSUME \A q \in Requests : ~ (Alone /\ Busy(req[q]))
  PROVE  /\ Handled = {} /\ BagExists = HasSession
         /\ BagSaved = (IF HasSession THEN heap[store[jar]] ELSE {})
         /\ BagWork = {} /\ BagDirty = FALSE /\ BagOut = FALSE
BY DEF Handled, Busy, BagExists, BagSaved, BagWork, BagDirty, BagOut

LEMMA ViewRestNext ==
  ASSUME \A q \in Requests : ~ (Alone /\ Busy(req'[q]))
  PROVE  /\ Handled' = {} /\ BagExists' = HasSession'
         /\ BagSaved' = (IF HasSession' THEN heap'[store'[jar']] ELSE {})
         /\ BagWork' = {} /\ BagDirty' = FALSE /\ BagOut' = FALSE
BY DEF Handled, Busy, BagExists, BagSaved, BagWork, BagDirty, BagOut

(* What is in use keeps the contents that a step gives it. *)
LEMMA Visible ==
  ASSUME NEW new, SetHeap(new), NEW o \in Objects,
         (\E i \in Ids : store'[i] = o) \/ (\E r \in Requests : req'[r].data = o)
  PROVE  heap'[o] = new[o]
BY DEF SetHeap, UsedObjects

(* A step of the handler that neither loads nor stores. *)
LEMMA WorkGoesOn ==
  ASSUME TypeOK, NEW r \in Requests, Working(req[r]),
         UNCHANGED <<live, expires, store, jar>>,
         req'[r].cookie = req[r].cookie, req'[r].had = req[r].had,
         req'[r].before = req[r].before,
         req'[r].data \in Objects,
         ~ req'[r].dirty =>
            ~ req[r].dirty /\ heap'[req'[r].data] = heap[req[r].data],
         req'[r].id = 0 => req[r].id = 0 /\ heap'[req'[r].data] = {},
         \A i \in Ids : store[i] # 0 /\ (store[i] # req[r].data \/ ~ req'[r].dirty)
            => heap'[store[i]] = heap[store[i]],
         ~ live => \A i \in Ids : store[i] # req'[r].data
  PROVE  Working(req[r])'
<1>1. jar \in 0..MaxIds /\ (jar # 0 => jar \in Ids)
  BY MaxAssumption DEF TypeOK, Ids
<1>2. jar # 0 /\ store[jar] # 0 /\ (~ live \/ ~ req'[r].dirty)
        => heap'[store[jar]] = req[r].before
  BY <1>1 DEF Working
<1> QED
  BY <1>2 DEF Working

(* At most one request is on its way. *)
LEMMA OthersIdle ==
  ASSUME Alone, One, NEW r \in Requests, Handle(r)
  PROVE  \A q \in Requests : q # r => req[q].pc = "idle"
<1>1. CASE Send(r)
  BY <1>1 DEF Send, AtRest
<1>2. CASE ~ Send(r)
  <2>1. req[r].pc # "idle"
    BY <1>2 DEF Handle, Load, Put, Delete, Clear, Regenerate, Destroy, Throw, LogOut,
                DropOld, Save, Skip, Respond, Handling
  <2> QED
    BY <2>1 DEF One
<1> QED
  BY <1>1, <1>2

LEMMA FitsAgain ==
  ASSUME NEW r \in Requests, \A q \in Requests : q # r => req'[q].pc = "idle",
         Fits(req[r])'
  PROVE  BagInv'
<1>1. One'
  BY DEF One
<1>2. ASSUME NEW q \in Requests
      PROVE  Fits(req[q])'
  <2>1. CASE q = r
    BY <2>1
  <2>2. CASE q # r
    BY <2>2 DEF Fits
  <2> QED
    BY <2>1, <2>2
<1> QED
  BY <1>1, <1>2 DEF BagInv

(* A step of the handler, seen from outside: a change of the session. *)
LEMMA HandlerMaps ==
  ASSUME TypeOK, BagInv, Alone, NEW r \in Requests,
         Put(r) \/ Delete(r) \/ Clear(r) \/ Regenerate(r) \/ Destroy(r),
         UNCHANGED config
  PROVE  BagInv' /\ Bag!Next
<1> USE MaxAssumption
<1>1. /\ req \in [Requests -> Request] /\ req[r] \in Request /\ req[r].pc = "handler"
      /\ heap \in [Objects -> SUBSET Values] /\ store \in [Ids -> 0..MaxObjects]
  BY DEF TypeOK, Put, Delete, Clear, Regenerate, Destroy, Handling
<1>2. /\ \A q \in Requests : q # r => req[q].pc = "idle"
      /\ Fits(req[r]) /\ Working(req[r]) /\ req[r].data \in Objects
  BY <1>1 DEF BagInv, One, Fits
<1>3. UNCHANGED <<store, jar, live, expires>>
  BY DEF config, Put, Delete, Clear, Regenerate, Destroy
<1>4. \A i \in Ids : store[i] # 0 => store[i] \in Objects
  BY <1>1 DEF Objects
<1>5. ASSUME NEW state \in Request, state.pc = "handler", SetState(r, state)
      PROVE  req'[r] = state /\ \A q \in Requests : q # r => req'[q].pc = "idle"
  BY <1>1, <1>2, <1>5 DEF SetState
<1>6. /\ Handled # {} /\ BagExists = req[r].had /\ BagSaved = req[r].before
      /\ BagWork = heap[req[r].data]
      /\ BagDirty <=> req[r].dirty
      /\ BagOut <=> req[r].destroyed
  BY <1>1, <1>2, ViewBusy DEF Busy
<1>7. ASSUME req'[r].pc = "handler", \A q \in Requests : q # r => req'[q].pc = "idle"
      PROVE  /\ Handled' # {} /\ BagExists' = req'[r].had /\ BagSaved' = req'[r].before
             /\ BagWork' = heap'[req'[r].data]
             /\ BagDirty' <=> req'[r].dirty
             /\ BagOut' <=> req'[r].destroyed
  BY <1>7, ViewBusyNext DEF Busy
<1>8. ASSUME req'[r].pc = "handler", \A q \in Requests : q # r => req'[q].pc = "idle",
             Working(req[r])', req'[r].data \in Objects
      PROVE  BagInv'
  <2>1. Fits(req[r])'
    BY <1>8 DEF Fits
  <2> QED
    BY <1>8, <2>1, FitsAgain
<1>9. \A i \in Ids : i # 0
  BY DEF Ids
<1>10. CASE Put(r)
  <2> DEFINE state == [req[r] EXCEPT !.dirty = TRUE, !.destroyed = FALSE,
                                     !.id = IF @ = 0 THEN NewId ELSE @]
  <2>1. (IF req[r].id = 0 THEN NewId ELSE req[r].id) \in 0..MaxIds /\ (req[r].id = 0 => NewId # 0)
    BY <1>1, <1>10, Fresh DEF Put, Ids, Request
  <2>2. /\ state \in Request /\ state.pc = "handler" /\ state.data = req[r].data
        /\ state.dirty = TRUE /\ state.destroyed = FALSE /\ state.id # 0
        /\ state.cookie = req[r].cookie /\ state.had = req[r].had
        /\ state.before = req[r].before
    BY <1>1, <2>1 DEF Request
  <2>3. SetState(r, state)
    BY <1>10 DEF Put
  <2> HIDE DEF state
  <2>4. req'[r] = state /\ \A q \in Requests : q # r => req'[q].pc = "idle"
    BY <1>5, <2>2, <2>3
  <2>5. PICK v \in Values : SetHeap([heap EXCEPT ![req[r].data] = @ \union {v}])
    BY <1>10 DEF Put
  <2>6. heap'[req[r].data] = heap[req[r].data] \union {v}
    <3>1. heap'[req[r].data] = [heap EXCEPT ![req[r].data] = @ \union {v}][req[r].data]
      BY <1>2, <2>2, <2>4, <2>5, Visible
    <3> QED
      BY <1>1, <1>2, <3>1
  <2>7. ASSUME NEW i \in Ids, store[i] # 0, store[i] # req[r].data
        PROVE  heap'[store[i]] = heap[store[i]]
    <3>1. heap'[store[i]] = [heap EXCEPT ![req[r].data] = @ \union {v}][store[i]]
      BY <1>3, <1>4, <2>5, <2>7, Visible
    <3> QED
      BY <1>1, <1>4, <2>7, <3>1
  <2>8. ~ live => \A i \in Ids : store[i] # req[r].data
    BY <1>2 DEF Working
  <2>9. Working(req[r])'
    BY <1>2, <1>3, <2>2, <2>4, <2>7, <2>8, WorkGoesOn
  <2>10. Bag!Put
    BY <1>6, <1>7, <2>2, <2>4, <2>6 DEF Bag!Put
  <2> QED
    BY <1>2, <1>3, <1>8, <2>2, <2>4, <2>9, <2>10 DEF Bag!Next
<1>11. CASE Delete(r)
  <2> DEFINE state == [req[r] EXCEPT !.dirty = TRUE]
  <2>2. /\ state \in Request /\ state.pc = "handler" /\ state.data = req[r].data
        /\ state.dirty = TRUE /\ state.destroyed = req[r].destroyed /\ state.id = req[r].id
        /\ state.cookie = req[r].cookie /\ state.had = req[r].had
        /\ state.before = req[r].before
    BY <1>1 DEF Request
  <2>3. SetState(r, state)
    BY <1>11 DEF Delete
  <2> HIDE DEF state
  <2>4. req'[r] = state /\ \A q \in Requests : q # r => req'[q].pc = "idle"
    BY <1>5, <2>2, <2>3
  <2>5. PICK v \in Values : SetHeap([heap EXCEPT ![req[r].data] = @ \ {v}])
    BY <1>11 DEF Delete
  <2>6. heap'[req[r].data] = heap[req[r].data] \ {v}
    <3>1. heap'[req[r].data] = [heap EXCEPT ![req[r].data] = @ \ {v}][req[r].data]
      BY <1>2, <2>2, <2>4, <2>5, Visible
    <3> QED
      BY <1>1, <1>2, <3>1
  <2>7. ASSUME NEW i \in Ids, store[i] # 0, store[i] # req[r].data
        PROVE  heap'[store[i]] = heap[store[i]]
    <3>1. heap'[store[i]] = [heap EXCEPT ![req[r].data] = @ \ {v}][store[i]]
      BY <1>3, <1>4, <2>5, <2>7, Visible
    <3> QED
      BY <1>1, <1>4, <2>7, <3>1
  <2>8. /\ ~ live => \A i \in Ids : store[i] # req[r].data
        /\ req[r].id = 0 => heap'[req[r].data] = {}
    BY <1>2, <2>6 DEF Working
  <2>9. Working(req[r])'
    BY <1>2, <1>3, <2>2, <2>4, <2>7, <2>8, WorkGoesOn
  <2>10. Bag!Drop
    <3>1. heap[req[r].data] \ {v} \in SUBSET heap[req[r].data]
      OBVIOUS
    <3>2. \E new \in SUBSET BagWork : BagWork' = new
      BY <1>6, <1>7, <2>2, <2>4, <2>6, <3>1
    <3>3. BagOut' = BagOut
      BY <1>6, <1>7, <2>2, <2>4 DEF BagOut
    <3>4. BagDirty' = TRUE
      BY <1>6, <1>7, <2>2, <2>4 DEF BagDirty
    <3>5. (Handled # {})' = (Handled # {})
      BY <1>6, <1>7, <2>2, <2>4
    <3> QED
      BY <1>6, <1>7, <2>2, <2>4, <3>2, <3>3, <3>4, <3>5 DEF Bag!Drop
  <2> QED
    BY <1>2, <1>3, <1>8, <2>2, <2>4, <2>9, <2>10 DEF Bag!Next
<1>12. CASE Clear(r)
  <2> DEFINE state == [req[r] EXCEPT !.dirty = TRUE, !.data = NewObject]
  <2>1. NewObject \in Objects /\ NewObject \in 0..MaxObjects /\ NewObject \notin UsedObjects
    <3>1. NewObject \in FreeObjects
      BY <1>12 DEF Clear, NewObject
    <3> QED
      BY <3>1 DEF FreeObjects, Objects
  <2>2. /\ state \in Request /\ state.pc = "handler" /\ state.data = NewObject
        /\ state.dirty = TRUE /\ state.destroyed = req[r].destroyed /\ state.id = req[r].id
        /\ state.cookie = req[r].cookie /\ state.had = req[r].had
        /\ state.before = req[r].before
    BY <1>1, <2>1 DEF Request
  <2>3. SetState(r, state)
    BY <1>12 DEF Clear
  <2> HIDE DEF state
  <2>4. req'[r] = state /\ \A q \in Requests : q # r => req'[q].pc = "idle"
    BY <1>5, <2>2, <2>3
  <2>5. SetHeap([heap EXCEPT ![NewObject] = {}])
    BY <1>12 DEF Clear
  <2>6. heap'[NewObject] = {}
    <3>1. heap'[NewObject] = [heap EXCEPT ![NewObject] = {}][NewObject]
      BY <2>1, <2>2, <2>4, <2>5, Visible
    <3> QED
      BY <1>1, <2>1, <3>1
  <2>7. ASSUME NEW i \in Ids, store[i] # 0
        PROVE  heap'[store[i]] = heap[store[i]]
    <3>1. heap'[store[i]] = [heap EXCEPT ![NewObject] = {}][store[i]]
      BY <1>3, <1>4, <2>5, <2>7, Visible
    <3>2. store[i] # NewObject
      BY <2>1 DEF UsedObjects
    <3> QED
      BY <1>1, <1>4, <2>7, <3>1, <3>2
  <2>8. \A i \in Ids : store[i] # NewObject
    BY <2>1 DEF UsedObjects
  <2>9. Working(req[r])'
    BY <1>2, <1>3, <2>1, <2>2, <2>4, <2>6, <2>7, <2>8, WorkGoesOn
  <2>10. Bag!Drop
    <3>1. {} \in SUBSET heap[req[r].data]
      OBVIOUS
    <3>2. \E new \in SUBSET BagWork : BagWork' = new
      BY <1>6, <1>7, <2>2, <2>4, <2>6, <3>1
    <3>3. BagOut' = BagOut
      BY <1>6, <1>7, <2>2, <2>4 DEF BagOut
    <3>4. BagDirty' = TRUE
      BY <1>6, <1>7, <2>2, <2>4 DEF BagDirty
    <3>5. (Handled # {})' = (Handled # {})
      BY <1>6, <1>7, <2>2, <2>4
    <3> QED
      BY <1>6, <1>7, <2>2, <2>4, <3>2, <3>3, <3>4, <3>5 DEF Bag!Drop
  <2> QED
    BY <1>3, <1>8, <2>1, <2>2, <2>4, <2>9, <2>10 DEF Bag!Next
<1>13. CASE Regenerate(r)
  <2> DEFINE state == [req[r] EXCEPT !.dirty = TRUE, !.id = NewId,
                         !.oldId = IF req[r].id # 0 THEN req[r].id ELSE @]
  <2>1. NewId \in 0..MaxIds /\ NewId # 0
    BY <1>13, Fresh DEF Regenerate, Ids
  <2>11. (IF req[r].id # 0 THEN req[r].id ELSE req[r].oldId) \in 0..MaxIds
    BY <1>1 DEF Request
  <2>2. /\ state \in Request /\ state.pc = "handler" /\ state.data = req[r].data
        /\ state.dirty = TRUE /\ state.destroyed = req[r].destroyed /\ state.id # 0
        /\ state.cookie = req[r].cookie /\ state.had = req[r].had
        /\ state.before = req[r].before
    BY <1>1, <2>1, <2>11 DEF Request
  <2>3. SetState(r, state) /\ heap' = heap
    BY <1>13 DEF Regenerate
  <2> HIDE DEF state
  <2>4. req'[r] = state /\ \A q \in Requests : q # r => req'[q].pc = "idle"
    BY <1>5, <2>2, <2>3
  <2>8. ~ live => \A i \in Ids : store[i] # req[r].data
    BY <1>2 DEF Working
  <2>9. Working(req[r])'
    BY <1>2, <1>3, <2>2, <2>3, <2>4, <2>8, WorkGoesOn
  <2>10. Bag!Drop
    <3>2. \E new \in SUBSET BagWork : BagWork' = new
      BY <1>6, <1>7, <2>2, <2>3, <2>4
    <3>3. BagOut' = BagOut
      BY <1>6, <1>7, <2>2, <2>4 DEF BagOut
    <3>4. BagDirty' = TRUE
      BY <1>6, <1>7, <2>2, <2>4 DEF BagDirty
    <3>5. (Handled # {})' = (Handled # {})
      BY <1>6, <1>7, <2>2, <2>4
    <3> QED
      BY <1>6, <1>7, <2>2, <2>4, <3>2, <3>3, <3>4, <3>5 DEF Bag!Drop
  <2> QED
    BY <1>2, <1>3, <1>8, <2>2, <2>4, <2>9, <2>10 DEF Bag!Next
<1>14. CASE Destroy(r)
  <2> DEFINE state == [req[r] EXCEPT !.destroyed = TRUE]
  <2>2. /\ state \in Request /\ state.pc = "handler" /\ state.data = req[r].data
        /\ state.dirty = req[r].dirty /\ state.destroyed = TRUE /\ state.id = req[r].id
        /\ state.cookie = req[r].cookie /\ state.had = req[r].had
        /\ state.before = req[r].before
    BY <1>1 DEF Request
  <2>3. SetState(r, state) /\ heap' = heap
    BY <1>14 DEF Destroy
  <2> HIDE DEF state
  <2>4. req'[r] = state /\ \A q \in Requests : q # r => req'[q].pc = "idle"
    BY <1>5, <2>2, <2>3
  <2>9. Working(req[r])'
    BY <1>2, <1>3, <2>2, <2>3, <2>4 DEF Working
  <2>10. Bag!LogOut
    <3>3. BagOut' = TRUE
      BY <1>6, <1>7, <2>2, <2>4 DEF BagOut
    <3>4. BagDirty' = BagDirty
      BY <1>6, <1>7, <2>2, <2>4 DEF BagDirty
    <3>5. (Handled # {})' = (Handled # {})
      BY <1>6, <1>7, <2>2, <2>4
    <3> QED
      BY <1>6, <1>7, <2>2, <2>3, <2>4, <3>3, <3>4, <3>5 DEF Bag!LogOut
  <2> QED
    BY <1>2, <1>3, <1>8, <2>2, <2>4, <2>9, <2>10 DEF Bag!Next
<1> QED
  BY <1>10, <1>11, <1>12, <1>13, <1>14

(* A step that the abstract session does not see. *)
LEMMA BusyStutters ==
  ASSUME Alone, NEW r \in Requests, Busy(req[r]), Busy(req'[r]),
         \A q \in Requests : q # r => req[q].pc = "idle",
         \A q \in Requests : q # r => req'[q].pc = "idle",
         req'[r].had = req[r].had, req'[r].before = req[r].before,
         req'[r].dirty = req[r].dirty, req'[r].destroyed = req[r].destroyed,
         heap'[req'[r].data] = heap[req[r].data], UNCHANGED <<live, expires>>
  PROVE  UNCHANGED Bag!vars
<1>1. /\ Handled # {} /\ BagExists = req[r].had /\ BagSaved = req[r].before
      /\ BagWork = heap[req[r].data]
      /\ BagDirty <=> req[r].dirty
      /\ BagOut <=> req[r].destroyed
  BY ViewBusy
<1>2. /\ Handled' # {} /\ BagExists' = req'[r].had /\ BagSaved' = req'[r].before
      /\ BagWork' = heap'[req'[r].data]
      /\ BagDirty' <=> req'[r].dirty
      /\ BagOut' <=> req'[r].destroyed
  BY ViewBusyNext
<1>3. BagDirty' = BagDirty
  BY <1>1, <1>2 DEF BagDirty
<1>4. BagOut' = BagOut
  BY <1>1, <1>2 DEF BagOut
<1>5. (Handled # {})' = (Handled # {})
  BY <1>1, <1>2
<1> QED
  BY <1>1, <1>2, <1>3, <1>4, <1>5 DEF Bag!vars

(* Persisting the session is not seen before the response has reached the client. *)
LEMMA PersistMaps ==
  ASSUME TypeOK, BagInv, Alone, NEW r \in Requests,
         LogOut(r) \/ DropOld(r) \/ Save(r) \/ Skip(r), UNCHANGED config
  PROVE  BagInv' /\ UNCHANGED Bag!vars
<1> USE MaxAssumption
<1>1. /\ req \in [Requests -> Request] /\ req[r] \in Request
      /\ req[r].pc \in {"handler", "save"}
      /\ heap \in [Objects -> SUBSET Values] /\ store \in [Ids -> 0..MaxObjects]
      /\ jar \in 0..MaxIds
  BY DEF TypeOK, LogOut, DropOld, Save, Skip, Handling
<1>2. /\ \A q \in Requests : q # r => req[q].pc = "idle"
      /\ Fits(req[r]) /\ req[r].data \in Objects
      /\ req[r].pc = "handler" => Working(req[r])
  BY <1>1 DEF BagInv, One, Fits
<1>3. UNCHANGED <<jar, live, expires>>
  BY DEF config, LogOut, DropOld, Save, Skip
<1>4. ASSUME NEW state \in Request, SetState(r, state)
      PROVE  req'[r] = state /\ \A q \in Requests : q # r => req'[q].pc = "idle"
  BY <1>1, <1>2, <1>4 DEF SetState
<1>5. req[r].id \in 0..MaxIds /\ req[r].id # 0 => req[r].id \in Ids
  BY DEF Ids
<1>6. ASSUME NEW a \in -1..MaxIds, Answer(r, a)
      PROVE  /\ req'[r].pc = "respond" /\ req'[r].answer = a
             /\ req'[r].data = req[r].data /\ req'[r].dirty = req[r].dirty
             /\ req'[r].destroyed = req[r].destroyed /\ req'[r].id = req[r].id
             /\ req'[r].had = req[r].had /\ req'[r].before = req[r].before
             /\ req'[r].cookie = req[r].cookie
             /\ \A q \in Requests : q # r => req'[q].pc = "idle"
  <2> DEFINE state == [req[r] EXCEPT !.pc = "respond", !.answer = a]
  <2>1. /\ state \in Request /\ state.pc = "respond" /\ state.answer = a
        /\ state.data = req[r].data /\ state.dirty = req[r].dirty
        /\ state.destroyed = req[r].destroyed /\ state.id = req[r].id
        /\ state.had = req[r].had /\ state.before = req[r].before
        /\ state.cookie = req[r].cookie
    BY <1>1, <1>6 DEF Request
  <2>2. SetState(r, state)
    BY <1>6 DEF Answer
  <2> HIDE DEF state
  <2> QED
    BY <1>4, <2>1, <2>2
<1>7. CASE LogOut(r)
  <2>1. PICK a \in {0, -1} : Answer(r, a) /\ (a = -1 => req[r].cookie = 0)
    BY <1>7 DEF LogOut
  <2>2. a \in -1..MaxIds
    OBVIOUS
  <2>3. heap'[req[r].data] = heap[req[r].data]
    BY <1>2, <1>6, <1>7, <2>1, <2>2, Visible DEF LogOut
  <2>4. req[r].destroyed /\ req[r].cookie = jar
    BY <1>2, <1>7 DEF LogOut, Handling, Working
  <2>5. Fits(req[r])'
    BY <1>2, <1>3, <1>6, <2>1, <2>2, <2>4 DEF Fits, Ended
  <2>6. BagInv'
    BY <1>6, <2>1, <2>2, <2>5, FitsAgain
  <2> QED
    BY <1>1, <1>2, <1>3, <1>6, <2>1, <2>2, <2>3, <2>6, BusyStutters DEF Busy
<1>8. CASE DropOld(r)
  <2> DEFINE state == [req[r] EXCEPT !.pc = "save"]
  <2>1. /\ state \in Request /\ state.pc = "save"
        /\ state.data = req[r].data /\ state.dirty = req[r].dirty
        /\ state.destroyed = req[r].destroyed /\ state.id = req[r].id
        /\ state.had = req[r].had /\ state.before = req[r].before
    BY <1>1 DEF Request
  <2>2. SetState(r, state)
    BY <1>8 DEF DropOld
  <2> HIDE DEF state
  <2>3. req'[r] = state /\ \A q \in Requests : q # r => req'[q].pc = "idle"
    BY <1>4, <2>1, <2>2
  <2>4. heap'[req[r].data] = heap[req[r].data]
    BY <1>2, <1>8, <2>1, <2>3, Visible DEF DropOld
  <2>5. req[r].dirty /\ ~ req[r].destroyed /\ req[r].id # 0
    BY <1>8 DEF DropOld, Saves
  <2>6. req[r].id \in Ids
    BY <1>1, <2>5 DEF Request, Ids
  <2>7. Fits(req[r])'
    BY <1>2, <2>1, <2>3, <2>5, <2>6 DEF Fits
  <2>8. BagInv'
    BY <2>3, <2>7, FitsAgain
  <2> QED
    BY <1>1, <1>2, <1>3, <2>1, <2>3, <2>4, <2>8, BusyStutters DEF Busy
<1>9. CASE Save(r)
  <2>1. req[r].dirty /\ ~ req[r].destroyed /\ req[r].id \in Ids
    <3>1. CASE req[r].pc = "save"
      BY <1>2, <3>1 DEF Fits
    <3>2. CASE Handling(r) /\ Saves(r)
      BY <1>1, <3>2 DEF Saves, Request, Ids
    <3> QED
      BY <1>9, <3>1, <3>2 DEF Save
  <2> DEFINE o == IF live THEN req[r].data ELSE NewObject
  <2>2. /\ store' = [store EXCEPT ![req[r].id] = o] /\ Answer(r, req[r].id)
        /\ SetHeap([heap EXCEPT ![o] = heap[req[r].data]])
    BY <1>9 DEF Save
  <2>3. o \in Objects /\ (o # req[r].data => o \notin UsedObjects)
    <3>1. CASE live
      BY <1>2, <3>1
    <3>2. CASE ~ live
      <4>1. NewObject \in FreeObjects
        BY <1>9, <3>2 DEF Save, NewObject
      <4> QED
        BY <3>2, <4>1 DEF FreeObjects
    <3> QED
      BY <3>1, <3>2
  <2> HIDE DEF o
  <2>4. req[r].id \in -1..MaxIds
    BY <2>1 DEF Ids
  <2>5. store'[req[r].id] = o
    BY <1>1, <2>1, <2>2
  <2>6. heap'[o] = heap[req[r].data]
    <3>1. heap'[o] = [heap EXCEPT ![o] = heap[req[r].data]][o]
      BY <2>1, <2>2, <2>3, <2>5, Visible
    <3> QED
      BY <1>1, <2>3, <3>1
  <2>7. heap'[req[r].data] = heap[req[r].data]
    <3>1. heap'[req[r].data] = [heap EXCEPT ![o] = heap[req[r].data]][req[r].data]
      BY <1>2, <1>6, <2>2, <2>4, Visible
    <3> QED
      BY <1>1, <1>2, <2>3, <3>1
  <2>8. Saved(req[r])'
    <3>1. o # 0
      BY <2>3 DEF Objects
    <3>2. req'[r].answer = req[r].id /\ req'[r].data = req[r].data /\ req'[r].dirty
          /\ ~ req'[r].destroyed
      BY <1>6, <2>1, <2>2, <2>4
    <3> QED
      BY <2>1, <2>5, <2>6, <2>7, <3>1, <3>2 DEF Saved
  <2>9. Fits(req[r])'
    BY <1>2, <1>6, <2>2, <2>4, <2>8 DEF Fits
  <2>10. BagInv'
    BY <1>6, <2>2, <2>4, <2>9, FitsAgain
  <2> QED
    BY <1>1, <1>2, <1>3, <1>6, <2>2, <2>4, <2>7, <2>10, BusyStutters DEF Busy
<1>10. CASE Skip(r)
  <2>1. Answer(r, -1) /\ -1 \in -1..MaxIds /\ heap' = heap /\ store' = store
    BY <1>10 DEF Skip
  <2>2. ~ req[r].destroyed /\ (req[r].dirty => req[r].id = 0) /\ Working(req[r])
    BY <1>2, <1>10 DEF Skip, Saves, Handling
  <2>3. Working(req[r])'
    BY <1>3, <1>6, <2>1, <2>2 DEF Working
  <2>4. Unchanged(req[r])'
    BY <1>6, <2>1, <2>2, <2>3 DEF Unchanged
  <2>5. Fits(req[r])'
    BY <1>2, <1>6, <2>1, <2>4 DEF Fits
  <2>6. BagInv'
    BY <1>6, <2>1, <2>5, FitsAgain
  <2> QED
    BY <1>1, <1>2, <1>3, <1>6, <2>1, <2>6, BusyStutters DEF Busy
<1> QED
  BY <1>7, <1>8, <1>9, <1>10

(* A request is sent, and finds the session of its cookie. *)
LEMMA BeginMaps ==
  ASSUME TypeOK, BagInv, Alone, NEW r \in Requests, Send(r) \/ Load(r), UNCHANGED config
  PROVE  BagInv' /\ [Bag!Next]_(Bag!vars)
<1> USE MaxAssumption
<1>1. /\ req \in [Requests -> Request] /\ req[r] \in Request
      /\ heap \in [Objects -> SUBSET Values] /\ store \in [Ids -> 0..MaxObjects]
      /\ jar \in 0..MaxIds /\ (jar # 0 => jar \in Ids)
      /\ UNCHANGED <<store, jar, live, expires>>
  BY DEF TypeOK, Ids, config, Send, Load
<1>2. \A q \in Requests : q # r => req[q].pc = "idle"
  BY OthersIdle DEF BagInv, Handle
<1>3. ~ Busy(req[r])
  BY DEF Send, Load, Busy
<1>4. \A q \in Requests : ~ (Alone /\ Busy(req[q]))
  BY <1>2, <1>3 DEF Busy
<1>5. /\ Handled = {} /\ BagExists = HasSession
      /\ BagSaved = (IF HasSession THEN heap[store[jar]] ELSE {})
      /\ BagWork = {} /\ BagDirty = FALSE /\ BagOut = FALSE
  BY <1>4, ViewRest
<1>6. CASE Send(r)
  <2> DEFINE state == [NoRequest EXCEPT !.pc = "get", !.cookie = jar]
  <2>1. state.pc = "get" /\ state.cookie = jar /\ ~ state.dirty /\ ~ state.destroyed
    BY DEF NoRequest
  <2>2. SetState(r, state) /\ heap' = heap
    BY <1>6 DEF Send
  <2> HIDE DEF state
  <2>3. req'[r] = state /\ \A q \in Requests : q # r => req'[q].pc = "idle"
    BY <1>1, <1>2, <2>2 DEF SetState
  <2>4. Fits(req[r])'
    BY <1>1, <2>1, <2>3 DEF Fits
  <2>5. BagInv'
    BY <2>3, <2>4, FitsAgain
  <2>6. \A q \in Requests : ~ (Alone /\ Busy(req'[q]))
    BY <2>1, <2>3 DEF Busy
  <2>7. /\ Handled' = {} /\ BagExists' = HasSession'
        /\ BagSaved' = (IF HasSession' THEN heap'[store'[jar']] ELSE {})
        /\ BagWork' = {} /\ BagDirty' = FALSE /\ BagOut' = FALSE
    BY <2>6, ViewRestNext
  <2>8. HasSession' = HasSession
    BY <1>1 DEF HasSession
  <2>9. (Handled # {})' = (Handled # {})
    BY <1>5, <2>7
  <2>10. UNCHANGED Bag!vars
    BY <1>1, <1>5, <2>2, <2>7, <2>8, <2>9 DEF Bag!vars
  <2> QED
    BY <2>5, <2>10
<1>7. CASE Load(r)
  <2> DEFINE o == Stored(r)
             bag == IF o = 0 THEN {} ELSE heap[o]
             mine == IF o # 0 /\ live THEN o ELSE NewObject
             state == [req[r] EXCEPT !.pc = "handler", !.data = mine,
                         !.id = IF o = 0 THEN 0 ELSE req[r].cookie,
                         !.had = o # 0, !.before = bag]
  <2>1. SetState(r, state) /\ SetHeap([heap EXCEPT ![mine] = bag])
    BY <1>7 DEF Load
  <2>2. req[r].cookie = jar /\ ~ req[r].dirty /\ ~ req[r].destroyed
    BY <1>7 DEF BagInv, Fits, Load
  <2>3. o = IF jar = 0 THEN 0 ELSE store[jar]
    BY <2>2 DEF Stored
  <2>4. o # 0 => o \in Objects
    BY <1>1, <2>3 DEF Objects
  <2>5. mine \in Objects /\ (mine = o \/ mine \notin UsedObjects) /\ (~ live => mine \notin UsedObjects)
    <3>1. CASE o # 0 /\ live
      BY <2>4, <3>1
    <3>2. CASE ~ (o # 0 /\ live)
      <4>1. NewObject \in FreeObjects
        BY <1>7, <3>2 DEF Load, NewObject
      <4> QED
        BY <3>2, <4>1 DEF FreeObjects
    <3> QED
      BY <3>1, <3>2
  <2>6. /\ state.pc = "handler" /\ state.data = mine
        /\ state.id = (IF o = 0 THEN 0 ELSE jar)
        /\ state.had = (o # 0) /\ state.before = bag /\ state.cookie = jar
        /\ state.dirty = req[r].dirty /\ state.destroyed = req[r].destroyed
    BY <1>1, <2>2 DEF Request
  <2> HIDE DEF state
  <2>7. req'[r] = state /\ \A q \in Requests : q # r => req'[q].pc = "idle"
    BY <1>1, <1>2, <2>1 DEF SetState
  <2>8. heap'[mine] = bag
    <3>1. heap'[mine] = [heap EXCEPT ![mine] = bag][mine]
      BY <2>1, <2>5, <2>6, <2>7, Visible
    <3> QED
      BY <1>1, <2>5, <3>1
  <2>9. o # 0 => heap'[o] = heap[o]
    <3>1. ASSUME o # 0, mine # o
          PROVE  heap'[o] = heap[o]
      <4>1. heap'[o] = [heap EXCEPT ![mine] = bag][o]
        BY <1>1, <2>1, <2>3, <2>4, <3>1, Visible
      <4> QED
        BY <1>1, <2>4, <3>1, <4>1
    <3> QED
      BY <2>8, <3>1
  <2>10. ~ live => \A i \in Ids : store[i] # mine
    BY <2>5 DEF UsedObjects
  <2>11. o # 0 <=> HasSession
    BY <2>3 DEF HasSession
  <2>12. BagSaved = bag
    BY <1>5, <2>3, <2>11 DEF HasSession
  <2> HIDE DEF mine
  <2>13. Working(req[r])'
    <3>1. jar # 0 /\ store[jar] # 0 => heap'[store[jar]] = bag
      BY <2>3, <2>9
    <3>2. o = 0 => bag = {}
      OBVIOUS
    <3>3. (o # 0 => jar # 0 /\ store[jar] # 0) /\ (o = 0 => jar = 0 \/ store[jar] = 0)
      BY <2>3
    <3> HIDE DEF o, bag
    <3> QED
      BY <1>1, <2>6, <2>7, <2>8, <2>10, <3>1, <3>2, <3>3 DEF Working
  <2>14. Fits(req[r])'
    BY <2>5, <2>6, <2>7, <2>13 DEF Fits
  <2>15. BagInv'
    BY <2>7, <2>14, FitsAgain
  <2>16. /\ Handled' # {} /\ BagExists' = req'[r].had /\ BagSaved' = req'[r].before
         /\ BagWork' = heap'[req'[r].data]
         /\ BagDirty' <=> req'[r].dirty
         /\ BagOut' <=> req'[r].destroyed
    BY <2>6, <2>7, ViewBusyNext DEF Busy
  <2>17. BagDirty' = FALSE
    BY <2>2, <2>6, <2>7, <2>16 DEF BagDirty
  <2>18. BagOut' = FALSE
    BY <2>2, <2>6, <2>7, <2>16 DEF BagOut
  <2>19. BagExists' = BagExists
    <3>1. HasSession \in BOOLEAN
      BY DEF HasSession
    <3> QED
      BY <1>5, <2>6, <2>7, <2>11, <2>16, <3>1
  <2>20. (Handled # {})' = TRUE
    BY <2>16
  <2>21. BagSaved' = BagSaved /\ BagWork' = BagSaved
    BY <2>6, <2>7, <2>8, <2>12, <2>16
  <2>22. Bag!Begin
    BY <1>5, <2>17, <2>18, <2>19, <2>20, <2>21 DEF Bag!Begin
  <2> QED
    BY <1>1, <2>15, <2>22 DEF Bag!Next
<1> QED
  BY <1>6, <1>7

(* The request is over, and the client has the session e with the data s. *)
LEMMA OverMaps ==
  ASSUME Alone, NEW r \in Requests, Busy(req[r]), SetState(r, NoRequest),
         req \in [Requests -> Request],
         \A q \in Requests : q # r => req[q].pc = "idle"
  PROVE  /\ BagInv'
         /\ \A e \in BOOLEAN : \A s :
              HasSession' = e /\ (e => heap'[store'[jar']] = s) /\ (~ e => s = {})
                => Bag!Over(e, s)
<1>1. req'[r] = NoRequest /\ \A q \in Requests : q # r => req'[q].pc = "idle"
  BY DEF SetState
<1>2. Fits(req[r])'
  BY <1>1 DEF Fits, NoRequest
<1>3. BagInv'
  BY <1>1, <1>2, FitsAgain
<1>4. \A q \in Requests : ~ (Alone /\ Busy(req'[q]))
  BY <1>1 DEF Busy, NoRequest
<1>5. /\ Handled' = {} /\ BagExists' = HasSession'
      /\ BagSaved' = (IF HasSession' THEN heap'[store'[jar']] ELSE {})
      /\ BagWork' = {} /\ BagDirty' = FALSE /\ BagOut' = FALSE
  BY <1>4, ViewRestNext
<1>6. Handled # {}
  BY ViewBusy
<1>7. (Handled # {})' = FALSE
  BY <1>5
<1>8. ASSUME NEW e \in BOOLEAN, NEW s, HasSession' = e,
             e => heap'[store'[jar']] = s, ~ e => s = {}
      PROVE  Bag!Over(e, s)
  <2>1. BagExists' = e /\ BagSaved' = s
    BY <1>5, <1>8
  <2> QED
    BY <1>5, <1>6, <1>7, <2>1 DEF Bag!Over
<1> QED
  BY <1>3, <1>8

LEMMA EndMaps ==
  ASSUME TypeOK, BagInv, Alone, NEW r \in Requests, Throw(r) \/ Respond(r),
         UNCHANGED config
  PROVE  BagInv' /\ Bag!Next
<1> USE MaxAssumption
<1>1. /\ req \in [Requests -> Request] /\ req[r] \in Request /\ Busy(req[r])
      /\ heap \in [Objects -> SUBSET Values] /\ store \in [Ids -> 0..MaxObjects]
      /\ jar \in 0..MaxIds /\ (jar # 0 => jar \in Ids)
      /\ UNCHANGED <<store, live, expires>>
      /\ SetState(r, NoRequest) /\ SetHeap(heap)
  BY DEF TypeOK, Ids, config, Throw, Respond, Handling, Busy
<1>2. /\ \A q \in Requests : q # r => req[q].pc = "idle"
      /\ Fits(req[r])
  BY <1>1 DEF BagInv, One, Busy
<1>3. BagInv' /\ \A e \in BOOLEAN : \A s :
        HasSession' = e /\ (e => heap'[store'[jar']] = s) /\ (~ e => s = {})
          => Bag!Over(e, s)
  BY <1>1, <1>2, OverMaps
<1> SUFFICES Bag!Next
  BY <1>3
<1>4. /\ BagExists = req[r].had /\ BagSaved = req[r].before
      /\ BagWork = heap[req[r].data]
      /\ BagDirty <=> req[r].dirty
      /\ BagOut <=> req[r].destroyed
  BY <1>1, <1>2, ViewBusy
<1>5. \A i \in Ids : store[i] # 0 => store[i] \in Objects /\ heap'[store[i]] = heap[store[i]]
  <2>1. ASSUME NEW i \in Ids, store[i] # 0
        PROVE  store[i] \in Objects /\ heap'[store[i]] = heap[store[i]]
    <3>1. store[i] \in Objects
      BY <1>1, <2>1 DEF Objects
    <3> QED
      BY <1>1, <3>1, Visible
  <2> QED
    BY <2>1
<1>6. HasSession' <=> jar' # 0 /\ store[jar'] # 0
  BY <1>1 DEF HasSession
<1>7. HasSession' \in BOOLEAN /\ req[r].had \in BOOLEAN
  BY <1>1 DEF HasSession, Request
<1>11. UNCHANGED <<live, expires>>
  BY <1>1
<1>8. ASSUME ~ HasSession', expires
      PROVE  Bag!Next
  <2>1. Bag!Over(FALSE, {})
    BY <1>3, <1>7, <1>8
  <2>2. Bag!Expire
    BY <1>8, <2>1 DEF Bag!Expire
  <2> QED
    BY <1>11, <2>2 DEF Bag!Next
<1>9. CASE Throw(r)
  <2>1. Working(req[r]) /\ jar' = jar
    BY <1>2, <1>9 DEF Throw, Handling, Fits
  <2>2. CASE ~ req[r].had
    <3>1. ~ HasSession' /\ BagSaved = {} /\ BagExists = FALSE
      BY <1>4, <1>6, <1>7, <2>1, <2>2 DEF Working
    <3>2. Bag!Over(BagExists, BagSaved)
      BY <1>3, <1>7, <3>1
    <3>3. Bag!Fail
      BY <3>1, <3>2 DEF Bag!Fail
    <3> QED
      BY <1>11, <3>3 DEF Bag!Next
  <2>3. CASE req[r].had /\ HasSession'
    <3>1. jar \in Ids /\ store[jar] # 0
      BY <1>1, <1>6, <2>1, <2>3
    <3>2. /\ heap'[store[jar]] = heap[store[jar]] /\ heap[store[jar]] \in SUBSET Values
          /\ ~ live => heap[store[jar]] = BagSaved
      <4>1. store[jar] \in Objects /\ heap'[store[jar]] = heap[store[jar]]
        BY <1>5, <3>1
      <4>2. heap[store[jar]] \in SUBSET Values
        BY <4>1 DEF TypeOK
      <4>3. jar # 0 /\ store[jar] # 0 /\ ~ live => heap[store[jar]] = req[r].before
        BY <2>1 DEF Working
      <4>4. jar # 0
        BY <3>1 DEF Ids
      <4> QED
        BY <1>4, <3>1, <4>1, <4>2, <4>3, <4>4
    <3>3. BagExists = TRUE
      BY <1>4, <1>7, <2>3
    <3>4. HasSession' = TRUE
      BY <1>7, <2>3
    <3>5. Bag!Over(TRUE, heap[store[jar]])
      BY <1>1, <1>3, <2>1, <3>2, <3>4
    <3>6. Bag!Over(BagExists, heap[store[jar]])
      BY <3>3, <3>5
    <3>7. Bag!Fail
      <4>1. heap[store[jar]] # BagSaved => live /\ BagExists
        BY <1>1, <3>2, <3>3 DEF TypeOK
      <4> QED
        BY <3>2, <3>6, <4>1 DEF Bag!Fail
    <3> QED
      BY <1>11, <3>7 DEF Bag!Next
  <2>4. CASE req[r].had /\ ~ HasSession'
    <3>1. expires
      BY <1>6, <2>1, <2>4 DEF Working
    <3> QED
      BY <1>8, <2>4, <3>1
  <2> QED
    BY <2>2, <2>3, <2>4
<1>10. CASE Respond(r)
  <2>1. jar' = (IF req[r].answer = -1 THEN jar ELSE req[r].answer) /\ req[r].pc = "respond"
    BY <1>10 DEF Respond
  <2>2. CASE Saved(req[r])
    <3>1. req[r].answer \in Ids /\ jar' = req[r].answer /\ jar' # 0
      BY <2>1, <2>2 DEF Saved, Ids
    <3>2. CASE ~ HasSession'
      BY <1>6, <1>8, <2>2, <3>1, <3>2 DEF Saved
    <3>3. CASE HasSession'
      <4>1. store[jar'] # 0
        BY <1>6, <3>3
      <4>2. heap'[store[jar']] = heap[req[r].data]
        BY <1>5, <2>2, <3>1, <4>1 DEF Saved
      <4>3. Bag!Over(TRUE, BagWork)
        <5>1. HasSession' = TRUE
          BY <1>7, <3>3
        <5>2. store' = store
          BY <1>1
        <5>3. heap'[store'[jar']] = BagWork
          BY <1>4, <4>2, <5>2
        <5> QED
          BY <1>3, <5>1, <5>3
      <4>4. Bag!Commit
        BY <1>4, <2>2, <4>3 DEF Bag!Commit, Saved
      <4> QED
        BY <1>11, <4>4 DEF Bag!Next
    <3> QED
      BY <3>2, <3>3
  <2>3. CASE Ended(req[r])
    <3>1. jar' = 0
      BY <2>1, <2>3 DEF Ended
    <3>2. HasSession' = FALSE
      BY <1>6, <1>7, <3>1
    <3>3. Bag!Over(FALSE, {})
      BY <1>3, <3>2
    <3>4. Bag!End
      BY <1>4, <2>3, <3>3 DEF Bag!End, Ended
    <3> QED
      BY <1>11, <3>4 DEF Bag!Next
  <2>4. CASE Unchanged(req[r])
    <3>1. /\ jar' = jar /\ Working(req[r]) /\ ~ req[r].destroyed
          /\ req[r].dirty => req[r].id = 0
      BY <2>1, <2>4 DEF Unchanged
    <3>2. CASE req[r].had /\ ~ HasSession'
      <4>1. expires
        BY <1>6, <3>1, <3>2 DEF Working
      <4> QED
        BY <1>8, <3>2, <4>1
    <3>3. CASE req[r].had /\ HasSession'
      <4>1. jar \in Ids /\ store[jar] # 0 /\ ~ req[r].dirty
        BY <1>1, <1>6, <3>1, <3>3 DEF Working
      <4>2. heap'[store[jar]] = BagSaved
        <5>1. heap'[store[jar]] = heap[store[jar]] /\ jar # 0
          BY <1>5, <4>1 DEF Ids
        <5>2. heap[store[jar]] = req[r].before
          BY <3>1, <4>1, <5>1 DEF Working
        <5> QED
          BY <1>4, <5>1, <5>2
      <4>3. BagExists = TRUE /\ HasSession' = TRUE
        BY <1>4, <1>7, <3>3
      <4>4. store'[jar'] = store[jar]
        BY <1>1, <3>1
      <4>5. Bag!Over(TRUE, BagSaved)
        BY <1>3, <4>2, <4>3, <4>4
      <4>6. Bag!Over(BagExists, BagSaved)
        BY <4>3, <4>5
      <4>7. Bag!Leave
        BY <1>4, <3>1, <4>1, <4>6 DEF Bag!Leave
      <4> QED
        BY <1>11, <4>7 DEF Bag!Next
    <3>4. CASE ~ req[r].had
      <4>1. BagExists = FALSE /\ BagSaved = {}
        BY <1>4, <1>7, <3>1, <3>4 DEF Working
      <4>2. HasSession' = FALSE
        BY <1>6, <1>7, <3>1, <3>4 DEF Working
      <4>3. Bag!Over(FALSE, {})
        BY <1>3, <4>2
      <4>4. Bag!Over(BagExists, BagSaved)
        BY <4>1, <4>3
      <4>5. req[r].dirty => heap[req[r].data] = {}
        BY <3>1 DEF Working
      <4>6. Bag!Leave
        BY <1>4, <3>1, <4>1, <4>4, <4>5 DEF Bag!Leave
      <4> QED
        BY <1>11, <4>6 DEF Bag!Next
    <3> QED
      BY <3>2, <3>3, <3>4
  <2> QED
    BY <1>2, <2>1, <2>2, <2>3, <2>4 DEF Fits
<1> QED
  BY <1>9, <1>10

LEMMA ExpireMaps ==
  ASSUME TypeOK, BagInv, Alone, NEW i \in Ids, Expire(i), UNCHANGED config
  PROVE  BagInv' /\ [Bag!Next]_(Bag!vars)
<1>1. /\ store' = [store EXCEPT ![i] = 0] /\ store \in [Ids -> 0..MaxObjects]
      /\ SetHeap(heap) /\ heap \in [Objects -> SUBSET Values] /\ store[i] # 0
      /\ UNCHANGED <<jar, req>> /\ jar \in 0..MaxIds /\ (jar # 0 => jar \in Ids)
  BY MaxAssumption DEF Expire, TypeOK, Ids
<1>2. expires /\ UNCHANGED <<live, expires>>
  BY DEF Expire, config
<1>3. \A j \in Ids : store'[j] = IF j = i THEN 0 ELSE store[j]
  BY <1>1
<1>4. ASSUME NEW j \in Ids, store'[j] # 0
      PROVE  store'[j] = store[j] /\ heap'[store[j]] = heap[store[j]]
  <2>1. store'[j] = store[j] /\ store[j] \in 0..MaxObjects /\ store[j] # 0
    BY <1>1, <1>3, <1>4
  <2>2. store[j] \in Objects
    BY <2>1, MaxAssumption DEF Objects
  <2> QED
    BY <1>1, <2>1, <2>2, Visible
<1>5. ASSUME NEW q \in Requests, req[q].data \in Objects
      PROVE  heap'[req[q].data] = heap[req[q].data]
  <2>1. req'[q].data = req[q].data
    BY <1>1
  <2> QED
    BY <1>1, <1>5, <2>1, Visible
<1>6. ASSUME NEW q \in Requests, req[q].data \in Objects, Working(req[q])
      PROVE  Working(req[q])'
  <2>1. heap'[req[q].data] = heap[req[q].data]
    BY <1>5, <1>6
  <2>2. req' = req /\ jar' = jar
    BY <1>1
  <2>3. jar # 0 /\ store'[jar] # 0 => store'[jar] = store[jar] /\ heap'[store[jar]] = heap[store[jar]]
    BY <1>1, <1>4
  <2>4. ~ live => \A j \in Ids : store'[j] # req[q].data
    <3>1. req[q].data # 0
      BY <1>6, MaxAssumption DEF Objects
    <3> QED
      BY <1>3, <1>6, <3>1 DEF Working
  <2>5. jar = 0 \/ store[jar] = 0 => jar = 0 \/ store'[jar] = 0
    BY <1>1, <1>3
  <2> QED
    BY <1>2, <1>6, <2>1, <2>2, <2>3, <2>4, <2>5 DEF Working
<1>7. ASSUME NEW q \in Requests, Fits(req[q])
      PROVE  Fits(req[q])'
  <2>1. req' = req /\ jar' = jar
    BY <1>1
  <2>2. CASE req[q].pc = "respond"
    <3>1. req[q].data \in Objects
      BY <1>7, <2>2 DEF Fits
    <3>2. Saved(req[q]) => Saved(req[q])'
      BY <1>2, <1>4, <1>5, <2>1, <3>1 DEF Saved
    <3>3. Ended(req[q]) => Ended(req[q])'
      BY <2>1 DEF Ended
    <3>4. Unchanged(req[q]) => Unchanged(req[q])'
      BY <1>6, <2>1, <3>1 DEF Unchanged
    <3> QED
      BY <1>7, <2>1, <2>2, <3>1, <3>2, <3>3, <3>4 DEF Fits
  <2>3. CASE req[q].pc = "handler"
    BY <1>6, <1>7, <2>1, <2>3 DEF Fits
  <2>4. CASE req[q].pc \notin {"handler", "respond"}
    BY <1>7, <2>1, <2>4 DEF Fits
  <2> QED
    BY <2>2, <2>3, <2>4
<1>8. BagInv'
  <2>1. One'
    BY <1>1 DEF BagInv, One
  <2>2. \A q \in Requests : Fits(req[q])'
    BY <1>7 DEF BagInv
  <2> QED
    BY <2>1, <2>2 DEF BagInv
<1>9. CASE \E r \in Requests : Busy(req[r])
  <2>1. PICK r \in Requests : Busy(req[r])
    BY <1>9
  <2>2. \A q \in Requests : q # r => req[q].pc = "idle"
    BY <2>1 DEF BagInv, One, Busy
  <2>3. req[r].data \in Objects
    BY <2>1 DEF BagInv, Fits, Busy
  <2>4. req' = req /\ heap'[req[r].data] = heap[req[r].data]
    BY <1>1, <1>5, <2>3
  <2>5. UNCHANGED Bag!vars
    BY <1>2, <2>1, <2>2, <2>4, BusyStutters
  <2> QED
    BY <1>8, <2>5
<1>10. CASE ~ \E r \in Requests : Busy(req[r])
  <2>1. /\ Handled = {} /\ BagExists = HasSession
        /\ BagSaved = (IF HasSession THEN heap[store[jar]] ELSE {})
        /\ BagWork = {} /\ BagDirty = FALSE /\ BagOut = FALSE
    BY <1>10, ViewRest
  <2>2. \A q \in Requests : ~ (Alone /\ Busy(req'[q]))
    BY <1>1, <1>10
  <2>3. /\ Handled' = {} /\ BagExists' = HasSession'
        /\ BagSaved' = (IF HasSession' THEN heap'[store'[jar']] ELSE {})
        /\ BagWork' = {} /\ BagDirty' = FALSE /\ BagOut' = FALSE
    BY <2>2, ViewRestNext
  <2>4. (Handled # {})' = (Handled # {})
    BY <2>1, <2>3
  <2>5. CASE i = jar
    <3>1. HasSession' = FALSE
      BY <1>1, <1>3, <2>5 DEF HasSession
    <3>2. Bag!Expire
      BY <1>2, <2>1, <2>3, <2>4, <3>1 DEF Bag!Expire
    <3> QED
      BY <1>2, <1>8, <3>2 DEF Bag!Next
  <2>6. CASE i # jar
    <3>1. jar # 0 => store'[jar] = store[jar]
      BY <1>1, <1>3, <2>6
    <3>2. HasSession' = HasSession
      BY <1>1, <3>1 DEF HasSession
    <3>3. HasSession => heap'[store'[jar']] = heap[store[jar]]
      BY <1>1, <1>4, <3>1 DEF HasSession
    <3>4. UNCHANGED Bag!vars
      BY <1>2, <2>1, <2>3, <2>4, <3>2, <3>3 DEF Bag!vars
    <3> QED
      BY <1>8, <3>4
  <2> QED
    BY <2>5, <2>6
<1> QED
  BY <1>9, <1>10

(* The invariant does not depend on anything but the state. *)
LEMMA StaysMaps ==
  ASSUME BagInv, UNCHANGED vars
  PROVE  BagInv' /\ UNCHANGED Bag!vars
<1>1. UNCHANGED <<live, expires, heap, store, jar, req>>
  BY DEF vars, config
<1>2. BagInv'
  BY <1>1 DEF BagInv, One, Fits, Working, Saved, Ended, Unchanged
<1>3. Handled' = Handled
  BY <1>1 DEF Handled
<1>4. Current' = Current /\ HasSession' = HasSession
  BY <1>1, <1>3 DEF Current, HasSession
<1>5. /\ BagExists' = BagExists /\ BagSaved' = BagSaved /\ BagWork' = BagWork
      /\ BagDirty' = BagDirty /\ BagOut' = BagOut
  BY <1>1, <1>3, <1>4 DEF BagExists, BagSaved, BagWork, BagDirty, BagOut
<1> QED
  BY <1>1, <1>2, <1>3, <1>5 DEF Bag!vars

(* A client that sends one request at a time sees SessionBag, with either store, with
   or without a ttl, whatever its handlers do. *)
THEOREM OneAtATimeSeesTheBag == Spec => ImplementsSession
<1>1. Init => BagInv /\ Bag!Init
  <2> SUFFICES ASSUME Init PROVE BagInv /\ Bag!Init
    OBVIOUS
  <2>1. \A r \in Requests : req[r].pc = "idle"
    BY DEF Init, NoRequest
  <2>2. BagInv
    BY <2>1 DEF BagInv, One, Fits
  <2>3. \A q \in Requests : ~ (Alone /\ Busy(req[q]))
    BY <2>1 DEF Busy
  <2>4. HasSession = FALSE
    BY DEF Init, HasSession
  <2>5. /\ Handled = {} /\ BagExists = FALSE /\ BagSaved = {}
        /\ BagWork = {} /\ BagDirty = FALSE /\ BagOut = FALSE
    BY <2>3, <2>4, ViewRest
  <2>6. (Handled # {}) = FALSE
    BY <2>5
  <2> QED
    BY <2>2, <2>5, <2>6 DEF Init, Bag!Init
<1>2. TypeOK /\ BagInv /\ [Next]_vars => BagInv' /\ [Bag!Next]_(Bag!vars)
  <2> SUFFICES ASSUME TypeOK, BagInv, [Next]_vars
               PROVE  BagInv' /\ [Bag!Next]_(Bag!vars)
    OBVIOUS
  <2>1. CASE UNCHANGED vars
    BY <2>1, StaysMaps
  <2>2. CASE Next /\ ~ Alone
    <3>1. BagInv'
      BY <2>2 DEF BagInv
    <3>2. HasSession = FALSE /\ HasSession' = FALSE
      BY <2>2 DEF HasSession
    <3>3. /\ Handled = {} /\ BagExists = FALSE /\ BagSaved = {}
          /\ BagWork = {} /\ BagDirty = FALSE /\ BagOut = FALSE
      BY <2>2, <3>2, ViewRest
    <3>4. /\ Handled' = {} /\ BagExists' = FALSE /\ BagSaved' = {}
          /\ BagWork' = {} /\ BagDirty' = FALSE /\ BagOut' = FALSE
      BY <2>2, <3>2, ViewRestNext
    <3>5. (Handled # {})' = (Handled # {})
      BY <3>3, <3>4
    <3>6. UNCHANGED Bag!vars
      BY <2>2, <3>3, <3>4, <3>5 DEF Bag!vars, Next, config
    <3> QED
      BY <3>1, <3>6
  <2>3. CASE Next /\ Alone
    <3>1. UNCHANGED config
      BY <2>3 DEF Next
    <3>2. ASSUME NEW r \in Requests, Handle(r)
          PROVE  BagInv' /\ [Bag!Next]_(Bag!vars)
      <4>1. CASE Send(r) \/ Load(r)
        BY <2>3, <3>1, <4>1, BeginMaps
      <4>2. CASE Put(r) \/ Delete(r) \/ Clear(r) \/ Regenerate(r) \/ Destroy(r)
        BY <2>3, <3>1, <4>2, HandlerMaps
      <4>3. CASE LogOut(r) \/ DropOld(r) \/ Save(r) \/ Skip(r)
        BY <2>3, <3>1, <4>3, PersistMaps
      <4>4. CASE Throw(r) \/ Respond(r)
        BY <2>3, <3>1, <4>4, EndMaps
      <4> QED
        BY <3>2, <4>1, <4>2, <4>3, <4>4 DEF Handle
    <3>3. ASSUME NEW i \in Ids, Expire(i)
          PROVE  BagInv' /\ [Bag!Next]_(Bag!vars)
      BY <2>3, <3>1, <3>3, ExpireMaps
    <3> QED
      BY <2>3, <3>2, <3>3 DEF Next
  <2> QED
    BY <2>1, <2>2, <2>3
<1> QED
  BY <1>1, <1>2, TypeCorrect, PTL DEF Spec, ImplementsSession, Bag!Spec
=============================================================================
