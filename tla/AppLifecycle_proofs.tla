------------------------ MODULE AppLifecycle_proofs ------------------------
(* Proofs about AppLifecycle and its Scheduler, for any tasks, any number of
   overlapping calls of stop(), any number of hooks and any number of listen()
   calls. *)
EXTENDS AppLifecycle, SequenceTheorems, TLAPS

-----------------------------------------------------------------------------
(* The inductive invariant. *)

(* The state of the scheduler, and the rest, have their types. *)
SchedulerTypes ==
  /\ tasks \in Seq(Tasks) /\ timers \in [Tasks -> Nat]
  /\ started \in BOOLEAN /\ walk \in 0..Len(tasks) + 1
  /\ calls \in Seq(Call)

LifeTypes ==
  /\ server \in 0..MaxListens /\ servers \subseteq 1..server
  /\ handlers \in BOOLEAN
  /\ alive \in Seq(Tasks) /\ destroyed \in Seq(Tasks)
  /\ stop \in [Stops -> StopCall]
  /\ exit \in {"no", "code 0", "code 1", "killed"}
  /\ disorders \subseteq {"construct", "stop", "listen"}

(* A call of stop() holds services exactly while it destroys them. *)
Holding == \A s \in Stops : stop[s].pc = "dispose" <=> stop[s].mine # <<>>

Types == TypeOK /\ Holding

(* start() has come past the task, or schedule() was called for it later. *)
Due(t) ==
  /\ started
  /\ \E i \in 1..Len(tasks) : tasks[i] = t /\ (walk = 0 \/ i < walk)

(* A schedule() of the task is on the call stack: its interval is still to be set. *)
InCall(t) ==
  \E i \in 1..Len(calls) : calls[i].task = t /\ calls[i].by = "schedule"

(* The tasks of the schedule() calls on the stack are due, and differ. *)
CallsDue ==
  \A i \in 1..Len(calls) : calls[i].by = "schedule" =>
    /\ Due(calls[i].task)
    /\ \A j \in 1..Len(calls) :
         (calls[j].by = "schedule" /\ calls[j].task = calls[i].task) => j = i

TimersDue == \A t \in Tasks : timers[t] = IF Due(t) /\ ~ InCall(t) THEN 1 ELSE 0

Listens ==
  /\ \A s \in Stops : Pending(s) => ~ started
  /\ started => server \in servers

Walking == walk > 0 => started

OrderlyInv == Orderly => CallsDue /\ TimersDue /\ Walking

TimerInv == Types /\ Distinct(tasks) /\ OrderlyInv /\ (disorders = {} => Listens)

(* x comes before y in the list. *)
Before(list, x, y) ==
  \E i, j \in 1..Len(list) : i < j /\ list[i] = x /\ list[j] = y

(* The container lists its services in construction order, dispose() backwards. *)
InOrder ==
  /\ \A i, j \in 1..Len(alive) : i < j => Before(tasks, alive[i], alive[j])
  /\ \A s \in Stops : \A i, j \in 1..Len(stop[s].mine) :
       i < j => Before(tasks, stop[s].mine[j], stop[s].mine[i])

(* What dispose() found is no longer in the container. *)
Emptied ==
  \A s \in Stops :
    /\ stop[s].built <= Len(tasks)
    /\ stop[s].pc \in {"dispose", "done"} =>
         \A i \in 1..stop[s].built : tasks[i] \notin Elements(alive)

DestroyInv ==
  Types /\ Distinct(tasks) /\ DestroyedOnce /\ InOrder /\ Emptied /\ CleanExit

-----------------------------------------------------------------------------
(* Lists of services. *)

LEMMA Appended ==
  ASSUME NEW T, NEW l \in Seq(T), NEW x \in T
  PROVE  /\ Append(l, x) \in Seq(T) /\ Len(Append(l, x)) = Len(l) + 1
         /\ \A i \in 1..Len(l) : Append(l, x)[i] = l[i]
         /\ Append(l, x)[Len(l) + 1] = x
         /\ Elements(Append(l, x)) = Elements(l) \union {x}
<1>1. /\ Append(l, x) \in Seq(T) /\ Len(Append(l, x)) = Len(l) + 1 /\ Len(l) \in Nat
      /\ \A i \in 1..Len(l) : Append(l, x)[i] = l[i]
      /\ Append(l, x)[Len(l) + 1] = x
  BY AppendProperties, LenProperties
<1>2. 1..Len(l) + 1 = 1..Len(l) \union {Len(l) + 1}
  BY <1>1
<1>. QED
  BY <1>1, <1>2 DEF Elements

LEMMA Reversed ==
  ASSUME NEW T, NEW l \in Seq(T)
  PROVE  /\ Reverse(l) \in Seq(T) /\ Len(Reverse(l)) = Len(l) /\ Len(l) \in Nat
         /\ \A i \in 1..Len(l) : Len(l) - i + 1 \in 1..Len(l) /\ Reverse(l)[i] = l[Len(l) - i + 1]
         /\ Elements(Reverse(l)) = Elements(l)
<1>1. Len(l) \in Nat /\ \A i \in 1..Len(l) : l[i] \in T
  BY LenProperties
<1>2. \A i \in 1..Len(l) : Len(l) - i + 1 \in 1..Len(l) /\ Len(l) - (Len(l) - i + 1) + 1 = i
  BY <1>1
<1>3. Reverse(l) \in [1..Len(l) -> T]
  BY <1>1, <1>2 DEF Reverse
<1>4. Reverse(l) \in Seq(T)
  BY <1>1, <1>3, SeqDef
<1>5. Len(Reverse(l)) = Len(l)
  <2>1. DOMAIN Reverse(l) = 1..Len(l) /\ DOMAIN Reverse(l) = 1..Len(Reverse(l)) /\ Len(Reverse(l)) \in Nat
    BY <1>3, <1>4, LenProperties
  <2>. QED
    BY <1>1, <2>1
<1>6. \A i \in 1..Len(l) : Reverse(l)[i] = l[Len(l) - i + 1]
  BY DEF Reverse
<1>7. ASSUME NEW x PROVE x \in Elements(Reverse(l)) <=> x \in Elements(l)
  <2>1. ASSUME x \in Elements(Reverse(l)) PROVE x \in Elements(l)
    BY <1>2, <1>5, <1>6, <2>1 DEF Elements
  <2>2. ASSUME NEW i \in 1..Len(l), x = l[i] PROVE x \in Elements(Reverse(l))
    <3>1. Len(l) - i + 1 \in 1..Len(l) /\ Reverse(l)[Len(l) - i + 1] = x
      BY <1>2, <1>6, <2>2
    <3>. QED
      BY <1>5, <3>1 DEF Elements
  <2>. QED
    BY <2>1, <2>2 DEF Elements
<1>. QED
  BY <1>1, <1>2, <1>4, <1>5, <1>6, <1>7

LEMMA HeadAndTail ==
  ASSUME NEW T, NEW l \in Seq(T), l # <<>>
  PROVE  /\ Head(l) \in T /\ Head(l) = l[1] /\ Len(l) \in Nat /\ 1 \in 1..Len(l)
         /\ Tail(l) \in Seq(T) /\ Len(Tail(l)) = Len(l) - 1
         /\ \A i \in 1..Len(Tail(l)) : i + 1 \in 1..Len(l) /\ Tail(l)[i] = l[i + 1]
         /\ Elements(l) = Elements(Tail(l)) \union {Head(l)}
<1>1. /\ Head(l) \in T /\ Head(l) = l[1] /\ Len(l) \in Nat \ {0}
      /\ Tail(l) \in Seq(T) /\ Len(Tail(l)) = Len(l) - 1
      /\ \A i \in 1..Len(Tail(l)) : Tail(l)[i] = l[i + 1]
  BY HeadTailProperties, EmptySeq, LenProperties
<1>2. \A i \in 1..Len(l) : i = 1 \/ (i - 1 \in 1..Len(l) - 1 /\ (i - 1) + 1 = i)
  BY <1>1
<1>3. \A i \in 1..Len(l) - 1 : i + 1 \in 1..Len(l)
  BY <1>1
<1>4. Elements(Tail(l)) \union {Head(l)} \subseteq Elements(l)
  BY <1>1, <1>3 DEF Elements
<1>5. ASSUME NEW i \in 1..Len(l) PROVE l[i] \in Elements(Tail(l)) \union {Head(l)}
  BY <1>1, <1>2 DEF Elements
<1>. QED
  BY <1>1, <1>3, <1>4, <1>5 DEF Elements

LEMMA Last_Front ==
  ASSUME NEW T, NEW l \in Seq(T), l # <<>>
  PROVE  /\ Last(l) \in T /\ Last(l) = l[Len(l)] /\ Len(l) \in Nat \ {0}
         /\ Front(l) \in Seq(T) /\ Len(Front(l)) = Len(l) - 1
         /\ \A i \in 1..Len(l) - 1 : Front(l)[i] = l[i]
<1>1. Len(l) \in Nat \ {0} /\ l[Len(l)] \in T /\ \A i \in 1..Len(l) : l[i] \in T
  BY EmptySeq, LenProperties
<1>2. PICK n \in Nat : n = Len(l) - 1
  BY <1>1
<1>3. \A i \in 1..n : l[i] \in T
  BY <1>1, <1>2
<1>4. /\ SubSeq(l, 1, n) \in Seq(T)
      /\ Len(SubSeq(l, 1, n)) = IF 1 <= n THEN n - 1 + 1 ELSE 0
      /\ \A i \in 1..n - 1 + 1 : SubSeq(l, 1, n)[i] = l[1 + i - 1]
  BY <1>3, SubSeqProperties
<1>5. Len(SubSeq(l, 1, n)) = n /\ \A i \in 1..n : SubSeq(l, 1, n)[i] = l[i]
  BY <1>4
<1>. QED
  BY <1>1, <1>2, <1>4, <1>5 DEF Front, Last

-----------------------------------------------------------------------------
(* The record of a call of stop(). *)

LEMMA Began ==
  ASSUME TypeOK, NEW s \in Stops, NEW signal \in BOOLEAN, BeginStop(s, signal)
  PROVE  /\ stop' \in [Stops -> StopCall] /\ stop[s].pc = "idle"
         /\ stop'[s].pc = "hooks" /\ stop'[s].mine = stop[s].mine
         /\ stop'[s].built = stop[s].built
         /\ \A o \in Stops \ {s} : stop'[o] = stop[o]
<1>1. stop[s] \in StopCall
  BY DEF TypeOK
<1> DEFINE rec == [stop[s] EXCEPT !.pc = "hooks", !.at = 1, !.signal = signal]
<1>2. 1 \in 0..Hooks + 1
  BY HooksAssumption
<1>3. rec \in StopCall /\ rec.pc = "hooks" /\ rec.mine = stop[s].mine /\ rec.built = stop[s].built
  BY <1>1, <1>2 DEF StopCall
<1>4. stop' = [stop EXCEPT ![s] = rec] /\ stop[s].pc = "idle"
  BY DEF BeginStop, TypeOK
<1> HIDE DEF rec
<1>. QED
  BY <1>3, <1>4 DEF TypeOK

LEMMA HookEnded ==
  ASSUME TypeOK, NEW s \in Stops, HookEnds(s)
  PROVE  /\ stop' \in [Stops -> StopCall] /\ stop[s].pc = "hooks"
         /\ stop'[s].pc = "hooks" /\ stop'[s].mine = stop[s].mine
         /\ stop'[s].built = stop[s].built
         /\ \A o \in Stops \ {s} : stop'[o] = stop[o]
<1>1. stop[s] \in StopCall /\ stop[s].pc = "hooks" /\ stop[s].at <= Hooks
  BY DEF TypeOK, HookEnds
<1> DEFINE rec == [stop[s] EXCEPT !.at = @ + 1]
<1>2. stop[s].at + 1 \in 0..Hooks + 1
  BY <1>1, HooksAssumption DEF StopCall
<1>3. rec \in StopCall /\ rec.pc = "hooks" /\ rec.mine = stop[s].mine /\ rec.built = stop[s].built
  BY <1>1, <1>2 DEF StopCall
<1>4. stop' = [stop EXCEPT ![s] = rec]
  BY DEF HookEnds, TypeOK
<1> HIDE DEF rec
<1>. QED
  BY <1>1, <1>3, <1>4 DEF TypeOK

(* CloseServer and a ServerClosed that fails. *)
LEMMA Turned ==
  ASSUME TypeOK, NEW s \in Stops, NEW pc \in {"server", "failed"},
         stop' = [stop EXCEPT ![s].pc = pc]
  PROVE  /\ stop' \in [Stops -> StopCall]
         /\ stop'[s].pc = pc /\ stop'[s].mine = stop[s].mine
         /\ stop'[s].built = stop[s].built
         /\ \A o \in Stops \ {s} : stop'[o] = stop[o]
<1>1. stop[s] \in StopCall
  BY DEF TypeOK
<1> DEFINE rec == [stop[s] EXCEPT !.pc = pc]
<1>3. rec \in StopCall /\ rec.pc = pc /\ rec.mine = stop[s].mine /\ rec.built = stop[s].built
  BY <1>1 DEF StopCall
<1>4. stop' = [stop EXCEPT ![s] = rec]
  BY DEF TypeOK
<1> HIDE DEF rec
<1>. QED
  BY <1>3, <1>4 DEF TypeOK

LEMMA Disposing ==
  ASSUME TypeOK, NEW s \in Stops, Dispose(s)
  PROVE  /\ stop' \in [Stops -> StopCall] /\ alive' = <<>>
         /\ stop'[s].mine = Reverse(alive) /\ stop'[s].built = Len(tasks)
         /\ stop'[s].pc = IF Reverse(alive) = <<>> THEN "done" ELSE "dispose"
         /\ stop'[s].signal = stop[s].signal
         /\ \A o \in Stops \ {s} : stop'[o] = stop[o]
<1>1. stop[s] \in StopCall /\ Reverse(alive) \in Seq(Tasks) /\ Len(tasks) \in Nat
  BY Reversed, LenProperties DEF TypeOK
<1> DEFINE rec == [Destroying(s, Reverse(alive)) EXCEPT !.built = Len(tasks)]
<1>2. /\ rec \in StopCall /\ rec.mine = Reverse(alive) /\ rec.built = Len(tasks)
      /\ rec.pc = IF Reverse(alive) = <<>> THEN "done" ELSE "dispose"
      /\ rec.signal = stop[s].signal
  BY <1>1 DEF StopCall, Destroying
<1>3. stop' = [stop EXCEPT ![s] = rec] /\ alive' = <<>>
  BY DEF Dispose
<1> HIDE DEF rec
<1>. QED
  BY <1>2, <1>3 DEF TypeOK

LEMMA OneDestroyed ==
  ASSUME TypeOK, NEW s \in Stops, Destroyed(s), stop[s].mine # <<>>
  PROVE  /\ stop' \in [Stops -> StopCall] /\ stop[s].pc = "dispose"
         /\ stop'[s].mine = Tail(stop[s].mine) /\ stop'[s].built = stop[s].built
         /\ stop'[s].pc = IF Tail(stop[s].mine) = <<>> THEN "done" ELSE "dispose"
         /\ stop'[s].signal = stop[s].signal
         /\ \A o \in Stops \ {s} : stop'[o] = stop[o]
<1>1. stop[s] \in StopCall /\ stop[s].mine \in Seq(Tasks)
  BY DEF TypeOK, StopCall
<1>2. Tail(stop[s].mine) \in Seq(Tasks)
  BY <1>1, HeadAndTail
<1> DEFINE rec == Destroying(s, Tail(stop[s].mine))
<1>3. /\ rec \in StopCall /\ rec.mine = Tail(stop[s].mine) /\ rec.built = stop[s].built
      /\ rec.pc = IF Tail(stop[s].mine) = <<>> THEN "done" ELSE "dispose"
      /\ rec.signal = stop[s].signal
  BY <1>1, <1>2 DEF StopCall, Destroying
<1>4. stop' = [stop EXCEPT ![s] = rec] /\ stop[s].pc = "dispose"
  BY DEF Destroyed
<1> HIDE DEF rec
<1>. QED
  BY <1>3, <1>4 DEF TypeOK

-----------------------------------------------------------------------------
(* Types. *)

LEMMA Splitting == TypeOK <=> SchedulerTypes /\ LifeTypes
  BY DEF TypeOK, SchedulerTypes, LifeTypes

(* What a step may do to the scheduler. *)
SchedulerStep ==
  \/ \E t \in Tasks : Add(t)
  \/ Start \/ Walk \/ Walked \/ Return
  \/ \E t \in Tasks : Tick(t)
  \/ Stop
  \/ UNCHANGED schedulerVars

LEMMA SchedulerSteps == [Next]_vars => SchedulerStep
<1> SUFFICES ASSUME [Next]_vars PROVE SchedulerStep
  OBVIOUS
<1>1. CASE \E t \in Tasks : Construct(t)
  BY <1>1 DEF SchedulerStep, Construct
<1>2. CASE Listen \/ Listening \/ RunTasks
  BY <1>2 DEF SchedulerStep, Listen, Listening, RunTasks
<1>3. CASE \E s \in Stops : CallStop(s) \/ Signal(s) \/ StopStep(s)
  <2> PICK s \in Stops : CallStop(s) \/ Signal(s) \/ StopStep(s)
    BY <1>3
  <2>1. CASE CallStop(s) \/ Signal(s)
    BY <2>1 DEF SchedulerStep, CallStop, Signal, BeginStop
  <2>2. CASE StopStep(s)
    BY <2>2 DEF SchedulerStep, StopStep, HookEnds, CloseServer, ServerClosed, Destroyed, Exit
  <2>. QED
    BY <2>1, <2>2
<1>4. CASE Exited \/ UNCHANGED vars
  BY <1>4 DEF SchedulerStep, Exited, vars
<1>. QED
  BY <1>1, <1>2, <1>3, <1>4 DEF Next

LEMMA Calling ==
  ASSUME calls \in Seq(Call), NEW t \in Tasks, NEW by \in {"schedule", "timer"},
         Invoke(t, by)
  PROVE  /\ calls' \in Seq(Call) /\ Len(calls') = Len(calls) + 1 /\ Len(calls) \in Nat
         /\ \A i \in 1..Len(calls) : calls'[i] = calls[i]
         /\ calls'[Len(calls) + 1].task = t /\ calls'[Len(calls) + 1].by = by
<1> DEFINE call == [task |-> t, by |-> by]
<1>1. call \in Call /\ call.task = t /\ call.by = by
  BY DEF Call
<1>2. calls' = Append(calls, call) /\ Len(calls) \in Nat
  BY LenProperties DEF Invoke
<1> HIDE DEF call
<1>3. calls' \in Seq(Call) /\ Len(calls') = Len(calls) + 1 /\ calls'[Len(calls) + 1] = call
      /\ \A i \in 1..Len(calls) : calls'[i] = calls[i]
  BY <1>1, <1>2, Appended
<1>. QED
  BY <1>1, <1>2, <1>3

LEMMA Timed ==
  ASSUME timers \in [Tasks -> Nat], NEW t \in Tasks, SetInterval(t)
  PROVE  /\ timers' \in [Tasks -> Nat] /\ timers'[t] = timers[t] + 1
         /\ \A u \in Tasks \ {t} : timers'[u] = timers[u]
  BY DEF SetInterval

LEMMA SchedulerKept ==
  ASSUME SchedulerTypes, SchedulerStep PROVE SchedulerTypes'
<1> USE DEF SchedulerTypes
<1>0. Len(tasks) \in Nat
  BY LenProperties
<1>1. ASSUME NEW t \in Tasks, Schedule(t)
      PROVE  timers' \in [Tasks -> Nat] /\ calls' \in Seq(Call)
  <2>1. CASE Invoke(t, "schedule") /\ UNCHANGED timers
    BY <2>1, Calling
  <2>2. CASE SetInterval(t) /\ UNCHANGED calls
    BY <2>2, Timed
  <2>. QED
    BY <1>1, <2>1, <2>2 DEF Schedule
<1>2. ASSUME NEW t \in Tasks, Add(t) PROVE SchedulerTypes'
  <2>1. tasks' = Append(tasks, t) /\ started' = started /\ walk' = walk
    BY <1>2 DEF Add
  <2>2. tasks' \in Seq(Tasks) /\ Len(tasks') = Len(tasks) + 1
    BY <2>1, Appended
  <2>3. walk' \in 0..Len(tasks') + 1
    BY <1>0, <2>1, <2>2
  <2>4. timers' \in [Tasks -> Nat] /\ calls' \in Seq(Call)
    BY <1>1, <1>2 DEF Add
  <2>. QED
    BY <2>1, <2>2, <2>3, <2>4
<1>3. CASE Start
  BY <1>0, <1>3 DEF Start
<1>4. CASE Walk
  <2>1. tasks[walk] \in Tasks /\ Schedule(tasks[walk]) /\ walk' \in 0..Len(tasks) + 1
        /\ UNCHANGED <<tasks, started>>
    BY <1>0, <1>4 DEF Walk
  <2>2. timers' \in [Tasks -> Nat] /\ calls' \in Seq(Call)
    BY <1>1, <2>1
  <2>. QED
    BY <2>1, <2>2
<1>5. CASE Walked
  BY <1>0, <1>5 DEF Walked
<1>6. CASE Return
  <2>1. calls # <<>> /\ calls' = Front(calls) /\ UNCHANGED <<tasks, started, walk>>
    BY <1>6 DEF Return
  <2>2. Front(calls) \in Seq(Call) /\ Last(calls) \in Call
    BY <2>1, Last_Front
  <2>3. Last(calls).task \in Tasks
    BY <2>2 DEF Call
  <2>4. timers' \in [Tasks -> Nat]
    BY <1>6, <2>3, Timed DEF Return
  <2>. QED
    BY <2>1, <2>2, <2>4
<1>7. ASSUME NEW t \in Tasks, Tick(t) PROVE SchedulerTypes'
  BY <1>7, Calling DEF Tick
<1>8. CASE Stop
  BY <1>8 DEF Stop
<1>9. CASE UNCHANGED schedulerVars
  BY <1>9 DEF schedulerVars
<1>. QED
  BY <1>2, <1>3, <1>4, <1>5, <1>6, <1>7, <1>8, <1>9 DEF SchedulerStep

(* The steps that change a call of stop(), and how far they may. *)
LEMMA StopsKept ==
  ASSUME Types, NEW s \in Stops, stop' \in [Stops -> StopCall],
         stop'[s].pc = "dispose" <=> stop'[s].mine # <<>>,
         \A o \in Stops \ {s} : stop'[o] = stop[o]
  PROVE  Holding'
  BY DEF Types, Holding

LEMMA LifeKept == Types /\ [Next]_vars => LifeTypes' /\ Holding'
<1> SUFFICES ASSUME Types, [Next]_vars PROVE LifeTypes' /\ Holding'
  OBVIOUS
<1> USE DEF LifeTypes
<1>0. TypeOK /\ LifeTypes /\ Holding
  BY Splitting DEF Types
<1>1. ASSUME NEW t \in Tasks, Construct(t) PROVE LifeTypes' /\ Holding'
  <2>1. Append(alive, t) \in Seq(Tasks)
    BY <1>0, Appended
  <2>. QED
    BY <1>0, <1>1, <2>1 DEF Construct, Holding
<1>2. CASE Listen
  <2>1. server' = server + 1 /\ server < MaxListens /\ servers' = servers \union {server'}
        /\ UNCHANGED <<alive, destroyed, stop, exit>>
    BY <1>2 DEF Listen
  <2>2. handlers' \in BOOLEAN
    BY <1>0, <1>2 DEF Listen
  <2>0. server \in 0..MaxListens /\ MaxListens \in Nat
    BY <1>0, MaxListensAssumption
  <2>3. server' \in 0..MaxListens /\ server \in Nat
    BY <2>0, <2>1
  <2>4. 1..server \subseteq 1..server + 1 /\ server + 1 \in 1..server + 1
    BY <2>3
  <2>5. servers' \subseteq 1..server'
    BY <1>0, <2>1, <2>4
  <2>6. disorders' \subseteq {"construct", "stop", "listen"}
    BY <1>0, <1>2 DEF Listen
  <2>. QED
    BY <1>0, <2>1, <2>2, <2>3, <2>5, <2>6 DEF Holding
<1>3. CASE Listening
  BY <1>0, <1>3 DEF Listening, Holding
<1>4. CASE RunTasks
  BY <1>0, <1>4 DEF RunTasks, Holding, lifeVars
<1>5. ASSUME NEW s \in Stops, NEW signal \in BOOLEAN, BeginStop(s, signal)
      PROVE  LifeTypes' /\ Holding'
  <2>1. /\ stop' \in [Stops -> StopCall] /\ stop[s].pc = "idle"
        /\ stop'[s].pc = "hooks" /\ stop'[s].mine = stop[s].mine
        /\ \A o \in Stops \ {s} : stop'[o] = stop[o]
    BY <1>0, <1>5, Began
  <2>2. Holding'
    BY <1>0, <2>1, StopsKept DEF Types, Holding
  <2>. QED
    BY <1>0, <1>5, <2>1, <2>2 DEF BeginStop
<1>6. ASSUME NEW s \in Stops, CallStop(s) \/ Signal(s) PROVE LifeTypes' /\ Holding'
  <2>1. CASE BeginStop(s, FALSE) \/ BeginStop(s, TRUE)
    BY <1>5, <2>1
  <2>2. CASE exit' = "killed" /\ UNCHANGED <<servers, server, handlers, alive, destroyed, stop, disorders>>
    BY <1>0, <2>2 DEF Holding
  <2>. QED
    BY <1>6, <2>1, <2>2 DEF CallStop, Signal
<1>7. ASSUME NEW s \in Stops, StopStep(s) PROVE LifeTypes' /\ Holding'
  <2>1. CASE HookEnds(s)
    <3>1. /\ stop' \in [Stops -> StopCall] /\ stop[s].pc = "hooks"
          /\ stop'[s].pc = "hooks" /\ stop'[s].mine = stop[s].mine
          /\ \A o \in Stops \ {s} : stop'[o] = stop[o]
      BY <1>0, <2>1, HookEnded
    <3>2. Holding'
      BY <1>0, <3>1, StopsKept DEF Types, Holding
    <3>. QED
      BY <1>0, <2>1, <3>1, <3>2 DEF HookEnds
  <2>2. CASE CloseServer(s)
    <3>1. /\ stop' \in [Stops -> StopCall] /\ stop[s].pc = "hooks"
          /\ stop'[s].pc = "server" /\ stop'[s].mine = stop[s].mine
          /\ \A o \in Stops \ {s} : stop'[o] = stop[o]
      BY <1>0, <2>2, Turned DEF CloseServer
    <3>2. Holding'
      BY <1>0, <3>1, StopsKept DEF Types, Holding
    <3>. QED
      BY <1>0, <2>2, <3>1, <3>2 DEF CloseServer
  <2>3. CASE ServerClosed(s)
    <3>1. CASE Dispose(s)
      <4>1. /\ stop' \in [Stops -> StopCall] /\ alive' = <<>>
            /\ stop'[s].mine = Reverse(alive)
            /\ stop'[s].pc = IF Reverse(alive) = <<>> THEN "done" ELSE "dispose"
            /\ \A o \in Stops \ {s} : stop'[o] = stop[o]
        BY <1>0, <3>1, Disposing
      <4>2. Holding'
        BY <1>0, <4>1, StopsKept DEF Types
      <4>3. alive' \in Seq(Tasks)
        BY <4>1
      <4>. QED
        BY <1>0, <2>3, <4>1, <4>2, <4>3 DEF ServerClosed
    <3>2. CASE stop' = [stop EXCEPT ![s].pc = "failed"] /\ UNCHANGED alive
      <4>1. /\ stop' \in [Stops -> StopCall]
            /\ stop'[s].pc = "failed" /\ stop'[s].mine = stop[s].mine
            /\ \A o \in Stops \ {s} : stop'[o] = stop[o]
        BY <1>0, <3>2, Turned
      <4>2. stop[s].pc = "server"
        BY <2>3 DEF ServerClosed
      <4>3. Holding'
        BY <1>0, <4>1, <4>2, StopsKept DEF Types, Holding
      <4>. QED
        BY <1>0, <2>3, <3>2, <4>1, <4>3 DEF ServerClosed
    <3>. QED
      BY <2>3, <3>1, <3>2 DEF ServerClosed
  <2>4. CASE Destroyed(s)
    <3>1. stop[s] \in StopCall /\ stop[s].mine \in Seq(Tasks) /\ stop[s].mine # <<>>
      BY <1>0, <2>4 DEF Destroyed, Holding, StopCall
    <3>2. /\ stop' \in [Stops -> StopCall] /\ stop'[s].mine = Tail(stop[s].mine)
          /\ stop'[s].pc = IF Tail(stop[s].mine) = <<>> THEN "done" ELSE "dispose"
          /\ \A o \in Stops \ {s} : stop'[o] = stop[o]
      BY <1>0, <2>4, <3>1, OneDestroyed
    <3>3. Holding'
      BY <1>0, <3>2, StopsKept DEF Types
    <3>4. Head(stop[s].mine) \in Tasks
      BY <3>1, HeadAndTail
    <3>5. destroyed' \in Seq(Tasks)
      BY <1>0, <2>4, <3>4, Appended DEF Destroyed
    <3>. QED
      BY <1>0, <2>4, <3>2, <3>3, <3>5 DEF Destroyed
  <2>5. CASE Exit(s)
    BY <1>0, <2>5 DEF Exit, Holding
  <2>. QED
    BY <1>7, <2>1, <2>2, <2>3, <2>4, <2>5 DEF StopStep
<1>8. CASE Exited \/ UNCHANGED vars
  BY <1>0, <1>8 DEF Exited, vars, lifeVars, Holding
<1>. QED
  BY <1>1, <1>2, <1>3, <1>4, <1>6, <1>7, <1>8 DEF Next

LEMMA TypesStep == Types /\ [Next]_vars => Types'
<1> SUFFICES ASSUME Types, [Next]_vars PROVE Types'
  OBVIOUS
<1>1. SchedulerTypes' /\ LifeTypes' /\ Holding'
  BY SchedulerSteps, SchedulerKept, LifeKept, Splitting DEF Types
<1>. QED
  BY <1>1, Splitting DEF Types, TypeOK, SchedulerTypes, LifeTypes

LEMMA TypesInit == LifeInit => Types
<1> SUFFICES ASSUME LifeInit PROVE Types
  OBVIOUS
<1>1. Len(<<>>) = 0 /\ <<>> \in Seq(Tasks) /\ <<>> \in Seq(Call)
  OBVIOUS
<1>2. 0 \in 0..MaxListens /\ 0 \in 0..Hooks + 1 /\ 0 \in 0..Len(tasks) + 1
  BY <1>1, MaxListensAssumption, HooksAssumption DEF LifeInit, Init
<1>3. NotCalled \in StopCall /\ NotCalled.pc = "idle" /\ NotCalled.mine = <<>>
  BY <1>1, <1>2 DEF NotCalled, StopCall
<1>4. stop \in [Stops -> StopCall] /\ \A s \in Stops : stop[s] = NotCalled
  BY <1>3 DEF LifeInit
<1>5. SchedulerTypes
  BY <1>1, <1>2 DEF SchedulerTypes, LifeInit, Init
<1>6. LifeTypes
  BY <1>1, <1>2, <1>4 DEF LifeTypes, LifeInit
<1>. QED
  BY <1>3, <1>4, <1>5, <1>6, Splitting DEF Types, Holding

(* Every variable of an application keeps its type, whatever tasks, requests and
   overlapping stop() calls do. *)
THEOREM TypeCorrect == Spec => []TypeOK
<1>1. LifeInit => Types
  BY TypesInit
<1>2. Types /\ [Next]_vars => Types'
  BY TypesStep
<1>3. Types => TypeOK
  BY DEF Types
<1>. QED
  BY <1>1, <1>2, <1>3, PTL DEF Spec

-----------------------------------------------------------------------------
(* The timers. *)

LEMMA AddedTasks ==
  ASSUME SchedulerTypes, NEW t \in Tasks, Add(t)
  PROVE  /\ tasks' \in Seq(Tasks) /\ Len(tasks') = Len(tasks) + 1 /\ Len(tasks) \in Nat
         /\ \A i \in 1..Len(tasks) : tasks'[i] = tasks[i] /\ tasks[i] # t
         /\ tasks'[Len(tasks) + 1] = t
         /\ Registered' = Registered \union {t} /\ t \notin Registered
<1>1. tasks' = Append(tasks, t) /\ t \notin Registered /\ Len(tasks) \in Nat
  BY LenProperties DEF Add, SchedulerTypes
<1>2. /\ tasks' \in Seq(Tasks) /\ Len(tasks') = Len(tasks) + 1
      /\ \A i \in 1..Len(tasks) : tasks'[i] = tasks[i]
      /\ tasks'[Len(tasks) + 1] = t
      /\ Elements(tasks') = Elements(tasks) \union {t}
  BY <1>1, Appended DEF SchedulerTypes
<1>3. Registered' = Registered \union {t}
  BY <1>2 DEF Registered, Elements
<1>4. \A i \in 1..Len(tasks) : tasks[i] # t
  BY <1>1 DEF Registered
<1>. QED
  BY <1>1, <1>2, <1>3, <1>4

LEMMA StillDistinct ==
  ASSUME SchedulerTypes, Distinct(tasks), SchedulerStep PROVE Distinct(tasks)'
<1>1. ASSUME NEW t \in Tasks, Add(t) PROVE Distinct(tasks)'
  <2>1. \A i \in 1..Len(tasks') : i \in 1..Len(tasks) \/ i = Len(tasks) + 1
    BY <1>1, AddedTasks
  <2>. QED
    BY <1>1, <2>1, AddedTasks DEF Distinct
<1>2. CASE UNCHANGED tasks
  BY <1>2 DEF Distinct
<1>3. (\E t \in Tasks : Add(t)) \/ UNCHANGED tasks
  BY DEF SchedulerStep, Start, Walk, Walked, Return, Tick, Stop, schedulerVars
<1>. QED
  BY <1>1, <1>2, <1>3

(* schedule() of a task that was not due. *)
LEMMA Scheduled ==
  ASSUME SchedulerTypes, CallsDue, TimersDue, NEW t \in Tasks, ~ Due(t), Schedule(t),
         \A u \in Tasks : Due(u)' <=> (Due(u) \/ u = t)
  PROVE  CallsDue' /\ TimersDue'
<1> USE DEF SchedulerTypes
<1>0. \A i \in 1..Len(calls) : calls[i] \in Call
  BY LenProperties
<1>1. \A i \in 1..Len(calls) : calls[i].task \in Tasks
  BY <1>0 DEF Call
<1>2. ~ InCall(t) /\ timers[t] = 0
  BY DEF CallsDue, TimersDue, InCall
<1>3. CASE Invoke(t, "schedule") /\ UNCHANGED timers
  <2>1. /\ Len(calls') = Len(calls) + 1 /\ Len(calls) \in Nat
        /\ \A i \in 1..Len(calls) : calls'[i] = calls[i]
        /\ calls'[Len(calls) + 1].task = t /\ calls'[Len(calls) + 1].by = "schedule"
    BY <1>3, Calling
  <2>2. \A i \in 1..Len(calls') : i \in 1..Len(calls) \/ i = Len(calls) + 1
    BY <2>1
  <2>3. 1..Len(calls) \subseteq 1..Len(calls') /\ Len(calls) + 1 \in 1..Len(calls')
    BY <2>1
  <2>4. \A u \in Tasks : InCall(u)' <=> (InCall(u) \/ u = t)
    BY <2>1, <2>2, <2>3 DEF InCall
  <2>5. TimersDue'
    BY <1>2, <1>3, <2>4 DEF TimersDue
  <2>6. \A i \in 1..Len(calls) : calls[i].by = "schedule" => calls[i].task # t
    BY <1>2 DEF InCall
  <2>7. CallsDue'
    BY <1>1, <2>1, <2>2, <2>6 DEF CallsDue
  <2>. QED
    BY <2>5, <2>7
<1>4. CASE SetInterval(t) /\ UNCHANGED calls
  <2>1. timers'[t] = timers[t] + 1 /\ \A u \in Tasks \ {t} : timers'[u] = timers[u]
    BY <1>4, Timed
  <2>2. \A u \in Tasks : InCall(u)' <=> InCall(u)
    BY <1>4 DEF InCall
  <2>3. TimersDue'
    BY <1>2, <2>1, <2>2 DEF TimersDue
  <2>4. CallsDue'
    BY <1>1, <1>4 DEF CallsDue
  <2>. QED
    BY <2>3, <2>4
<1>. QED
  BY <1>3, <1>4 DEF Schedule

LEMMA AddTimers ==
  ASSUME SchedulerTypes, CallsDue, TimersDue, walk = 0, NEW t \in Tasks, Add(t)
  PROVE  CallsDue' /\ TimersDue'
<1>1. walk' = 0 /\ started' = started
  BY DEF Add
<1>2. /\ Len(tasks') = Len(tasks) + 1 /\ Len(tasks) \in Nat
      /\ \A i \in 1..Len(tasks) : tasks'[i] = tasks[i] /\ tasks[i] # t
      /\ tasks'[Len(tasks) + 1] = t
  BY AddedTasks
<1>3. \A i \in 1..Len(tasks') : i \in 1..Len(tasks) \/ i = Len(tasks) + 1
  BY <1>2
<1>4. 1..Len(tasks) \subseteq 1..Len(tasks') /\ Len(tasks) + 1 \in 1..Len(tasks')
  BY <1>2
<1>5. ~ Due(t)
  BY <1>2 DEF Due
<1>6. \A u \in Tasks : Due(u)' <=> (Due(u) \/ (started /\ u = t))
  BY <1>1, <1>2, <1>3, <1>4 DEF Due
<1>7. CASE started /\ Schedule(t)
  BY <1>5, <1>6, <1>7, Scheduled
<1>8. CASE ~ started /\ UNCHANGED <<timers, calls>>
  <2>1. \A u : ~ Due(u) /\ (InCall(u)' <=> InCall(u))
    BY <1>8 DEF Due, InCall
  <2>2. CallsDue'
    BY <1>8, <2>1 DEF CallsDue
  <2>3. TimersDue'
    BY <1>6, <1>8, <2>1 DEF TimersDue
  <2>. QED
    BY <2>2, <2>3
<1>. QED
  BY <1>7, <1>8 DEF Add

LEMMA WalkTimers ==
  ASSUME SchedulerTypes, Distinct(tasks), CallsDue, TimersDue, started, Walk
  PROVE  CallsDue' /\ TimersDue'
<1>1. /\ walk \in 1..Len(tasks) /\ Schedule(tasks[walk]) /\ walk' = walk + 1
      /\ UNCHANGED <<tasks, started>> /\ Len(tasks) \in Nat
  BY LenProperties DEF Walk, SchedulerTypes
<1>2. PICK t \in Tasks : t = tasks[walk]
  BY <1>1, LenProperties DEF SchedulerTypes
<1>3. \A i \in 1..Len(tasks) : tasks[i] = t => i = walk
  BY <1>1, <1>2 DEF Distinct
<1>4. ~ Due(t)
  BY <1>1, <1>3 DEF Due
<1>5. \A i \in 1..Len(tasks) : i < walk' <=> (i < walk \/ i = walk)
  BY <1>1
<1>6. walk # 0 /\ walk' # 0
  BY <1>1
<1>7. \A u \in Tasks : Due(u)' <=> (Due(u) \/ u = t)
  BY <1>1, <1>2, <1>5, <1>6 DEF Due
<1>. QED
  BY <1>1, <1>2, <1>4, <1>7, Scheduled

LEMMA ReturnTimers ==
  ASSUME SchedulerTypes, CallsDue, TimersDue, Return
  PROVE  CallsDue' /\ TimersDue'
<1> USE DEF SchedulerTypes
<1>1. calls # <<>> /\ calls' = Front(calls) /\ UNCHANGED <<tasks, started, walk>>
  BY DEF Return
<1>2. /\ Last(calls) \in Call /\ Last(calls) = calls[Len(calls)] /\ Len(calls) \in Nat \ {0}
      /\ Len(calls') = Len(calls) - 1
      /\ \A i \in 1..Len(calls) - 1 : calls'[i] = calls[i]
  BY <1>1, Last_Front
<1>3. \A i \in 1..Len(calls') : i \in 1..Len(calls) /\ calls'[i] = calls[i] /\ i # Len(calls)
  BY <1>2
<1>4. \A i \in 1..Len(calls) : i = Len(calls) \/ i \in 1..Len(calls')
  BY <1>2
<1>5. \A u : Due(u)' <=> Due(u)
  BY <1>1 DEF Due
<1>6. CallsDue'
  BY <1>3, <1>5 DEF CallsDue
<1>7. CASE Last(calls).by = "schedule" /\ SetInterval(Last(calls).task)
  <2>1. PICK t \in Tasks : t = Last(calls).task
    BY <1>2 DEF Call
  <2>2. Len(calls) \in 1..Len(calls)
    BY <1>2
  <2>3. Due(t) /\ InCall(t)
    BY <1>2, <1>7, <2>1, <2>2 DEF CallsDue, InCall
  <2>4. \A i \in 1..Len(calls) :
          (calls[i].by = "schedule" /\ calls[i].task = t) => i = Len(calls)
    BY <1>2, <1>7, <2>1, <2>2 DEF CallsDue
  <2>5. \A u \in Tasks : InCall(u)' <=> (InCall(u) /\ u # t)
    BY <1>2, <1>3, <1>4, <2>1, <2>4 DEF InCall
  <2>6. timers'[t] = timers[t] + 1 /\ \A u \in Tasks \ {t} : timers'[u] = timers[u]
    BY <1>7, <2>1, Timed
  <2>7. timers[t] = 0
    BY <2>3 DEF TimersDue
  <2>8. TimersDue'
    BY <1>5, <2>3, <2>5, <2>6, <2>7 DEF TimersDue
  <2>. QED
    BY <1>6, <2>8
<1>8. CASE Last(calls).by = "timer" /\ UNCHANGED timers
  <2>1. \A u \in Tasks : InCall(u)' <=> InCall(u)
    BY <1>2, <1>3, <1>4, <1>8 DEF InCall
  <2>2. TimersDue'
    BY <1>5, <1>8, <2>1 DEF TimersDue
  <2>. QED
    BY <1>6, <2>2
<1>. QED
  BY <1>7, <1>8 DEF Return

LEMMA TickTimers ==
  ASSUME SchedulerTypes, CallsDue, TimersDue, NEW t \in Tasks, Tick(t)
  PROVE  CallsDue' /\ TimersDue'
<1>1. /\ Len(calls') = Len(calls) + 1 /\ Len(calls) \in Nat
      /\ \A i \in 1..Len(calls) : calls'[i] = calls[i]
      /\ calls'[Len(calls) + 1].by = "timer"
      /\ UNCHANGED <<tasks, timers, started, walk>>
  BY Calling DEF Tick, SchedulerTypes
<1>2. \A i \in 1..Len(calls') : i \in 1..Len(calls) \/ i = Len(calls) + 1
  BY <1>1
<1>3. 1..Len(calls) \subseteq 1..Len(calls')
  BY <1>1
<1>4. \A u : (Due(u)' <=> Due(u)) /\ (InCall(u)' <=> InCall(u))
  BY <1>1, <1>2, <1>3 DEF Due, InCall
<1>5. CallsDue'
  BY <1>1, <1>2, <1>4 DEF CallsDue
<1>6. TimersDue'
  BY <1>1, <1>4 DEF TimersDue
<1>. QED
  BY <1>5, <1>6

(* start(), Walked and stop(): what is due and what is called. *)
LEMMA StartTimers ==
  ASSUME SchedulerTypes, CallsDue, TimersDue, ~ Running, Start
  PROVE  CallsDue' /\ TimersDue'
<1>1. calls = <<>> /\ ~ started /\ walk' = 1 /\ UNCHANGED <<tasks, timers, calls>>
  BY DEF Running, Start
<1>2. Len(calls) = 0 /\ Len(calls') = 0
  BY <1>1
<1>3. \A i \in 1..Len(tasks) : ~ (walk' = 0 \/ i < walk')
  BY <1>1
<1>4. \A u : ~ Due(u) /\ ~ Due(u)'
  BY <1>1, <1>3 DEF Due
<1>5. CallsDue'
  BY <1>2 DEF CallsDue
<1>. QED
  BY <1>1, <1>4, <1>5 DEF TimersDue

LEMMA WalkedTimers ==
  ASSUME SchedulerTypes, CallsDue, TimersDue, Walked
  PROVE  CallsDue' /\ TimersDue'
<1>1. walk > Len(tasks) /\ walk \in Nat /\ Len(tasks) \in Nat
      /\ walk' = 0 /\ UNCHANGED <<tasks, timers, started, calls>>
  BY LenProperties DEF Walked, SchedulerTypes
<1>2. \A i \in 1..Len(tasks) : i < walk
  BY <1>1
<1>3. \A u : (Due(u)' <=> Due(u)) /\ (InCall(u)' <=> InCall(u))
  BY <1>1, <1>2 DEF Due, InCall
<1>4. CallsDue'
  BY <1>1, <1>3 DEF CallsDue
<1>. QED
  BY <1>1, <1>3, <1>4 DEF TimersDue

LEMMA StopTimers ==
  ASSUME SchedulerTypes, ~ Starting, Stop
  PROVE  CallsDue' /\ TimersDue'
<1>1. calls' = calls /\ started' = FALSE /\ \A t \in Tasks : timers'[t] = 0
  BY DEF Stop
<1>2. \A i \in 1..Len(calls) : calls[i].by # "schedule"
  BY DEF Starting
<1>3. CallsDue'
  BY <1>1, <1>2 DEF CallsDue
<1>4. \A u : ~ Due(u)'
  BY <1>1 DEF Due
<1>. QED
  BY <1>1, <1>3, <1>4 DEF TimersDue

LEMMA SameTimers ==
  ASSUME CallsDue, TimersDue, UNCHANGED schedulerVars PROVE CallsDue' /\ TimersDue'
<1>1. \A u : (Due(u)' <=> Due(u)) /\ (InCall(u)' <=> InCall(u))
  BY DEF Due, InCall, schedulerVars
<1>2. CallsDue'
  BY <1>1 DEF CallsDue, schedulerVars
<1>. QED
  BY <1>1, <1>2 DEF TimersDue, schedulerVars

(* A call of stop() that goes on was pending before. *)
LEMMA WasPending ==
  ASSUME NEW s \in Stops, stop[s].pc \in {"hooks", "server", "dispose"},
         \A o \in Stops \ {s} : stop'[o] = stop[o], Listens, UNCHANGED schedulerVars,
         server' = server, servers' \in {servers, servers \ {server}}
  PROVE  Listens'
<1>1. ~ started /\ ~ started'
  BY DEF Listens, Pending, schedulerVars
<1>. QED
  BY <1>1 DEF Listens, Pending, schedulerVars

(* The walk of start() goes on while the scheduler is started. *)
LEMMA OrderlyStep ==
  ASSUME TimerInv, [Next]_vars, Orderly'
  PROVE  CallsDue' /\ TimersDue' /\ Walking'
<1>0. SchedulerTypes /\ Distinct(tasks)
  BY Splitting DEF TimerInv, Types
<1>a. ASSUME disorders \subseteq disorders' PROVE CallsDue /\ TimersDue /\ Walking
  BY <1>a DEF TimerInv, OrderlyInv, Orderly
<1>1. ASSUME NEW t \in Tasks, Construct(t) PROVE CallsDue' /\ TimersDue' /\ Walking'
  <2>1. walk = 0 /\ Add(t) /\ UNCHANGED <<started, walk>>
    BY <1>0, <1>1 DEF Construct, Add, SchedulerTypes, Orderly
  <2>2. CallsDue /\ TimersDue /\ Walking
    BY <1>1, <1>a DEF Construct
  <2>. QED
    BY <1>0, <2>1, <2>2, AddTimers DEF Walking
<1>2. CASE Listen
  <2>0. CallsDue /\ TimersDue /\ Walking
    BY <1>2, <1>a DEF Listen
  <2>1. CASE Start
    BY <1>0, <1>2, <2>0, <2>1, StartTimers DEF Listen, Start, Walking
  <2>2. CASE UNCHANGED schedulerVars
    BY <2>0, <2>2, SameTimers DEF Walking, schedulerVars
  <2>. QED
    BY <1>2, <2>1, <2>2 DEF Listen
<1>3. CASE Listening
  BY <1>0, <1>3, <1>a, WalkedTimers DEF Listening, Walked, Walking
<1>4. CASE RunTasks
  <2>0. CallsDue /\ TimersDue /\ Walking
    BY <1>4, <1>a DEF RunTasks, lifeVars
  <2>1. CASE Walk
    <3>1. started /\ UNCHANGED started
      BY <1>0, <2>0, <2>1 DEF Walk, Walking, SchedulerTypes
    <3>. QED
      BY <1>0, <2>0, <2>1, <3>1, WalkTimers DEF Walking
  <2>2. CASE Return
    BY <1>0, <2>0, <2>2, ReturnTimers DEF Return, Walking
  <2>3. ASSUME NEW t \in Tasks, Tick(t) PROVE CallsDue' /\ TimersDue' /\ Walking'
    BY <1>0, <2>0, <2>3, TickTimers DEF Tick, Walking
  <2>. QED
    BY <1>4, <2>1, <2>2, <2>3 DEF RunTasks
<1>5. ASSUME NEW s \in Stops, NEW signal \in BOOLEAN, BeginStop(s, signal)
      PROVE  CallsDue' /\ TimersDue' /\ Walking'
  <2>1. Stop /\ ~ Starting
    BY <1>5 DEF BeginStop, Orderly
  <2>2. walk' = 0
    BY <1>0, <2>1 DEF Stop, Starting, SchedulerTypes
  <2>. QED
    BY <1>0, <2>1, <2>2, StopTimers DEF Walking
<1>6. ASSUME NEW s \in Stops, CallStop(s) \/ Signal(s)
      PROVE  CallsDue' /\ TimersDue' /\ Walking'
  <2>1. CASE CallStop(s)
    BY <1>5, <2>1 DEF CallStop
  <2>2. CASE Signal(s)
    <3>1. CASE UNCHANGED <<schedulerVars, disorders>>
      BY <1>a, <3>1, SameTimers DEF Walking, schedulerVars
    <3>. QED
      BY <1>5, <2>2, <3>1 DEF Signal
  <2>. QED
    BY <1>6, <2>1, <2>2
<1>7. CASE UNCHANGED <<schedulerVars, disorders>>
  BY <1>7, <1>a, SameTimers DEF Walking, schedulerVars
<1>8. ASSUME NEW s \in Stops, StopStep(s) PROVE UNCHANGED <<schedulerVars, disorders>>
  BY <1>8 DEF StopStep, HookEnds, CloseServer, ServerClosed, Destroyed, Exit
<1>9. Exited \/ UNCHANGED vars => UNCHANGED <<schedulerVars, disorders>>
  BY DEF Exited, vars, lifeVars
<1>. QED
  BY <1>1, <1>2, <1>3, <1>4, <1>6, <1>7, <1>8, <1>9 DEF Next

LEMMA ListensStep ==
  ASSUME TimerInv, [Next]_vars, disorders' = {}
  PROVE  Listens'
<1>0. SchedulerTypes /\ Types /\ TypeOK
  BY Splitting DEF TimerInv, Types
<1>a. ASSUME disorders \subseteq disorders' PROVE Listens
  BY <1>a DEF TimerInv
<1>1. ASSUME NEW t \in Tasks, Construct(t) PROVE Listens'
  BY <1>0, <1>1, <1>a DEF Construct, Add, Listens, Pending
<1>2. CASE Listen
  <2>1. (\A s \in Stops : ~ Pending(s)) /\ server' \in servers' /\ stop' = stop
    BY <1>2 DEF Listen
  <2>2. Listens
    BY <1>2, <1>a DEF Listen
  <2>. QED
    BY <1>0, <2>1, <2>2 DEF Listens, Pending
<1>3. CASE Listening
  BY <1>0, <1>3, <1>a DEF Listening, Walked, Listens, Pending
<1>4. CASE RunTasks
  <2>1. UNCHANGED <<server, servers, stop, disorders>>
    BY <1>4 DEF RunTasks, lifeVars
  <2>2. started' = started
    BY <1>4 DEF RunTasks, Walk, Return, Tick
  <2>. QED
    BY <1>0, <1>a, <2>1, <2>2 DEF Listens, Pending
<1>5. ASSUME NEW s \in Stops, CallStop(s) \/ Signal(s) PROVE Listens'
  <2>1. CASE \E signal \in BOOLEAN : BeginStop(s, signal)
    <3>1. started' = FALSE
      BY <2>1 DEF BeginStop, Stop
    <3>. QED
      BY <3>1 DEF Listens
  <2>2. CASE UNCHANGED <<schedulerVars, servers, server, stop, disorders>>
    BY <1>a, <2>2 DEF Listens, Pending, schedulerVars
  <2>. QED
    BY <1>5, <2>1, <2>2 DEF CallStop, Signal
<1>6. ASSUME NEW s \in Stops, StopStep(s) PROVE Listens'
  <2>1. UNCHANGED <<schedulerVars, disorders>> /\ server' = server /\ servers' \in {servers, servers \ {server}}
    BY <1>6 DEF StopStep, HookEnds, CloseServer, ServerClosed, Destroyed, Exit
  <2>0. Listens
    BY <1>a, <2>1
  <2>2. CASE Exit(s)
    <3>1. UNCHANGED <<stop, server, servers>>
      BY <2>2 DEF Exit
    <3>. QED
      BY <2>0, <2>1, <3>1 DEF Listens, Pending, schedulerVars
  <2>3. CASE HookEnds(s) \/ CloseServer(s) \/ ServerClosed(s) \/ Destroyed(s)
    <3>1. stop[s].pc \in {"hooks", "server", "dispose"}
      BY <2>3 DEF HookEnds, CloseServer, ServerClosed, Destroyed
    <3>2. \A o \in Stops \ {s} : stop'[o] = stop[o]
      <4>1. CASE HookEnds(s)
        BY <1>0, <4>1, HookEnded
      <4>2. CASE CloseServer(s)
        BY <1>0, <4>2, Turned DEF CloseServer
      <4>3. CASE ServerClosed(s)
        BY <1>0, <4>3, Disposing, Turned DEF ServerClosed
      <4>4. CASE Destroyed(s)
        BY <4>4 DEF Destroyed, TypeOK
      <4>. QED
        BY <2>3, <4>1, <4>2, <4>3, <4>4
    <3>. QED
      BY <2>0, <2>1, <3>1, <3>2, WasPending
  <2>. QED
    BY <1>6, <2>2, <2>3 DEF StopStep
<1>7. CASE Exited \/ UNCHANGED vars
  <2>1. UNCHANGED <<schedulerVars, server, servers, stop, disorders>>
    BY <1>7 DEF Exited, vars, lifeVars
  <2>. QED
    BY <1>a, <2>1 DEF Listens, Pending, schedulerVars
<1>. QED
  BY <1>1, <1>2, <1>3, <1>4, <1>5, <1>6, <1>7 DEF Next

LEMMA TimerStep == TimerInv /\ [Next]_vars => TimerInv'
<1> SUFFICES ASSUME TimerInv, [Next]_vars PROVE TimerInv'
  OBVIOUS
<1>1. Types' /\ Distinct(tasks)'
  BY TypesStep, SchedulerSteps, StillDistinct, Splitting DEF TimerInv, Types
<1>2. OrderlyInv'
  BY OrderlyStep DEF OrderlyInv
<1>3. disorders' = {} => Listens'
  BY ListensStep
<1>. QED
  BY <1>1, <1>2, <1>3 DEF TimerInv

LEMMA TimerInit == LifeInit => TimerInv
<1> SUFFICES ASSUME LifeInit PROVE TimerInv
  OBVIOUS
<1>1. Types
  BY TypesInit
<1>2. /\ tasks = <<>> /\ calls = <<>> /\ walk = 0 /\ started = FALSE
      /\ \A s \in Stops : stop[s].pc = "idle"
      /\ \A t \in Tasks : timers[t] = 0
  BY DEF LifeInit, Init, NotCalled
<1>3. Len(tasks) = 0 /\ Len(calls) = 0
  BY <1>2
<1>4. Distinct(tasks) /\ CallsDue
  BY <1>3 DEF Distinct, CallsDue
<1>5. TimersDue /\ Listens /\ Walking
  BY <1>2 DEF TimersDue, Due, Listens, Pending, Walking
<1>. QED
  BY <1>1, <1>4, <1>5 DEF TimerInv, OrderlyInv

(* While the scheduler is started each registered task has exactly one interval
   timer, otherwise none has: for any number of tasks, each of which may run
   before its interval is set, and of listen() and overlapping stop() calls, also
   of a listen() while a stop() goes on.  TimersMatch leaves out the time from a
   construction or a stop() in a run that start() called to the next stop() that
   interrupts none. *)
THEOREM TimersAlwaysMatch == Spec => []TimersMatch
<1>1. ASSUME TimerInv PROVE TimersMatch
  <2> SUFFICES ASSUME ~ Running, Orderly, NEW t \in Tasks
               PROVE  timers[t] = IF started /\ t \in Registered THEN 1 ELSE 0
    BY DEF TimersMatch
  <2>1. walk = 0 /\ calls = <<>>
    BY <1>1, Splitting DEF Running, TimerInv, Types, SchedulerTypes
  <2>2. Len(calls) = 0
    BY <2>1
  <2>3. ~ InCall(t) /\ (Due(t) <=> started /\ t \in Registered)
    BY <2>1, <2>2 DEF InCall, Due, Registered
  <2>. QED
    BY <1>1, <2>3 DEF TimerInv, OrderlyInv, TimersDue
<1>. QED
  BY <1>1, TimerInit, TimerStep, PTL DEF Spec

(* A scheduled method fires only while the application listens: a timer exists
   only while the server of the last listen() accepts connections.  FiresOnlyWhileListening
   leaves out the same time, and that after a listen() during a stop(). *)
THEOREM FiresWhileListening == Spec => []FiresOnlyWhileListening
<1>1. ASSUME TimerInv PROVE FiresOnlyWhileListening
  <2> SUFFICES ASSUME ~ Running, disorders = {}, NEW t \in Tasks, timers[t] > 0
               PROVE  server \in servers
    BY DEF FiresOnlyWhileListening
  <2>1. Due(t)
    BY <1>1 DEF TimerInv, OrderlyInv, Orderly, TimersDue
  <2>. QED
    BY <1>1, <2>1 DEF Due, TimerInv, Listens
<1>. QED
  BY <1>1, TimerInit, TimerStep, PTL DEF Spec

-----------------------------------------------------------------------------
(* No task is forgotten, whatever the application does. *)

(* start() still has to come to the task. *)
Ahead(t) == walk > 0 /\ \E i \in 1..Len(tasks) : tasks[i] = t /\ i >= walk

Served == started => \A t \in Registered : timers[t] > 0 \/ InCall(t) \/ Ahead(t)

Known ==
  /\ \A t \in Tasks : timers[t] > 0 => t \in Registered
  /\ \A i \in 1..Len(calls) : calls[i].by = "schedule" => calls[i].task \in Registered

(* schedule() serves the task, and forgets no other. *)
LEMMA ScheduleServes ==
  ASSUME SchedulerTypes, NEW t \in Tasks, Schedule(t)
  PROVE  /\ timers'[t] > 0 \/ InCall(t)'
         /\ \A u \in Tasks : timers[u] > 0 \/ InCall(u) => timers'[u] > 0 \/ InCall(u)'
         /\ \A u \in Tasks : timers'[u] > 0 => timers[u] > 0 \/ u = t
         /\ \A i \in 1..Len(calls') :
              calls'[i].task = t \/ (i \in 1..Len(calls) /\ calls'[i] = calls[i])
<1> USE DEF SchedulerTypes
<1>1. CASE Invoke(t, "schedule") /\ UNCHANGED timers
  <2>1. /\ Len(calls') = Len(calls) + 1 /\ Len(calls) \in Nat
        /\ \A i \in 1..Len(calls) : calls'[i] = calls[i]
        /\ calls'[Len(calls) + 1].task = t /\ calls'[Len(calls) + 1].by = "schedule"
    BY <1>1, Calling
  <2>2. 1..Len(calls) \subseteq 1..Len(calls') /\ Len(calls) + 1 \in 1..Len(calls')
    BY <2>1
  <2>3. InCall(t)' /\ \A u : InCall(u) => InCall(u)'
    BY <2>1, <2>2 DEF InCall
  <2>4. \A i \in 1..Len(calls') : i \in 1..Len(calls) \/ i = Len(calls) + 1
    BY <2>1
  <2>. QED
    BY <1>1, <2>1, <2>3, <2>4
<1>2. CASE SetInterval(t) /\ UNCHANGED calls
  <2>1. timers'[t] = timers[t] + 1 /\ \A u \in Tasks \ {t} : timers'[u] = timers[u]
    BY <1>2, Timed
  <2>2. timers[t] \in Nat
    OBVIOUS
  <2>3. \A u : InCall(u)' <=> InCall(u)
    BY <1>2 DEF InCall
  <2>. QED
    BY <1>2, <2>1, <2>2, <2>3
<1>. QED
  BY <1>1, <1>2 DEF Schedule

LEMMA AddServes ==
  ASSUME SchedulerTypes, Served, Known, NEW t \in Tasks, Add(t)
  PROVE  Served' /\ Known'
<1>1. walk' = walk /\ started' = started
  BY DEF Add
<1>2. /\ Len(tasks') = Len(tasks) + 1 /\ Len(tasks) \in Nat
      /\ \A i \in 1..Len(tasks) : tasks'[i] = tasks[i] /\ tasks[i] # t
      /\ tasks'[Len(tasks) + 1] = t
  BY AddedTasks
<1>3. \A i \in 1..Len(tasks') : i \in 1..Len(tasks) \/ i = Len(tasks) + 1
  BY <1>2
<1>4. 1..Len(tasks) \subseteq 1..Len(tasks') /\ Len(tasks) + 1 \in 1..Len(tasks')
  BY <1>2
<1>5. Registered' = Registered \union {t}
  BY <1>2, <1>3, <1>4 DEF Registered
<1>6. \A u : Ahead(u) => Ahead(u)'
  BY <1>1, <1>2, <1>4 DEF Ahead
<1>7. CASE started /\ Schedule(t)
  <2>1. Registered \subseteq Tasks
    BY DEF Registered, SchedulerTypes
  <2>2. /\ timers'[t] > 0 \/ InCall(t)'
        /\ \A u \in Tasks : timers[u] > 0 \/ InCall(u) => timers'[u] > 0 \/ InCall(u)'
        /\ \A u \in Tasks : timers'[u] > 0 => timers[u] > 0 \/ u = t
        /\ \A i \in 1..Len(calls') :
             calls'[i].task = t \/ (i \in 1..Len(calls) /\ calls'[i] = calls[i])
    BY <1>7, ScheduleServes
  <2>3. Served'
    BY <1>1, <1>5, <1>6, <1>7, <2>1, <2>2 DEF Served
  <2>4. Known'
    BY <1>5, <2>2 DEF Known
  <2>. QED
    BY <2>3, <2>4
<1>8. CASE ~ started /\ UNCHANGED <<timers, calls>>
  <2>1. Served'
    BY <1>1, <1>8 DEF Served
  <2>2. Known'
    BY <1>5, <1>8 DEF Known
  <2>. QED
    BY <2>1, <2>2
<1>. QED
  BY <1>7, <1>8 DEF Add

LEMMA WalkServes ==
  ASSUME SchedulerTypes, Served, Known, Walk
  PROVE  Served' /\ Known'
<1>1. /\ walk \in 1..Len(tasks) /\ Schedule(tasks[walk]) /\ walk' = walk + 1
      /\ UNCHANGED <<tasks, started>> /\ Len(tasks) \in Nat
  BY LenProperties DEF Walk, SchedulerTypes
<1>2. PICK t \in Tasks : t = tasks[walk]
  BY <1>1, LenProperties DEF SchedulerTypes
<1>3. Registered' = Registered /\ t \in Registered /\ Registered \subseteq Tasks
  BY <1>1, <1>2 DEF Registered, SchedulerTypes
<1>4. \A u : Ahead(u) => Ahead(u)' \/ u = t
  <2>1. \A i \in 1..Len(tasks) : i >= walk => i >= walk' \/ i = walk
    BY <1>1
  <2>2. walk' > 0
    BY <1>1
  <2>. QED
    BY <1>1, <1>2, <2>1, <2>2 DEF Ahead
<1>5. /\ timers'[t] > 0 \/ InCall(t)'
      /\ \A u \in Tasks : timers[u] > 0 \/ InCall(u) => timers'[u] > 0 \/ InCall(u)'
      /\ \A u \in Tasks : timers'[u] > 0 => timers[u] > 0 \/ u = t
      /\ \A i \in 1..Len(calls') :
           calls'[i].task = t \/ (i \in 1..Len(calls) /\ calls'[i] = calls[i])
  BY <1>1, <1>2, ScheduleServes
<1>6. Served'
  BY <1>1, <1>2, <1>3, <1>4, <1>5 DEF Served
<1>7. Known'
  BY <1>3, <1>5 DEF Known
<1>. QED
  BY <1>6, <1>7

LEMMA ReturnServes ==
  ASSUME SchedulerTypes, Served, Known, Return
  PROVE  Served' /\ Known'
<1> USE DEF SchedulerTypes
<1>1. calls # <<>> /\ calls' = Front(calls) /\ UNCHANGED <<tasks, started, walk>>
  BY DEF Return
<1>2. /\ Last(calls) \in Call /\ Last(calls) = calls[Len(calls)] /\ Len(calls) \in Nat \ {0}
      /\ Len(calls') = Len(calls) - 1
      /\ \A i \in 1..Len(calls) - 1 : calls'[i] = calls[i]
  BY <1>1, Last_Front
<1>3. \A i \in 1..Len(calls') : i \in 1..Len(calls) /\ calls'[i] = calls[i]
  BY <1>2
<1>4. \A i \in 1..Len(calls) : i = Len(calls) \/ (i \in 1..Len(calls') /\ calls'[i] = calls[i])
  BY <1>2
<1>5. Registered' = Registered /\ Registered \subseteq Tasks /\ \A u : Ahead(u)' <=> Ahead(u)
  BY <1>1 DEF Ahead, Registered
<1>6. CASE Last(calls).by = "schedule" /\ SetInterval(Last(calls).task)
  <2>1. PICK t \in Tasks : t = Last(calls).task
    BY <1>2 DEF Call
  <2>2. timers'[t] = timers[t] + 1 /\ \A u \in Tasks \ {t} : timers'[u] = timers[u]
    BY <1>6, <2>1, Timed
  <2>3. timers[t] \in Nat
    OBVIOUS
  <2>4. \A u : InCall(u) => InCall(u)' \/ u = t
    BY <1>2, <1>4, <2>1 DEF InCall
  <2>5. Served'
    BY <1>1, <1>5, <2>2, <2>3, <2>4 DEF Served
  <2>6. t \in Registered
    <3>1. Len(calls) \in 1..Len(calls)
      BY <1>2
    <3>. QED
      BY <1>2, <1>6, <2>1, <3>1 DEF Known
  <2>7. Known'
    BY <1>3, <1>5, <2>2, <2>6 DEF Known
  <2>. QED
    BY <2>5, <2>7
<1>7. CASE Last(calls).by = "timer" /\ UNCHANGED timers
  <2>1. \A u : InCall(u) => InCall(u)'
    BY <1>2, <1>4, <1>7 DEF InCall
  <2>2. Served'
    BY <1>1, <1>5, <1>7, <2>1 DEF Served
  <2>3. Known'
    BY <1>3, <1>5, <1>7 DEF Known
  <2>. QED
    BY <2>2, <2>3
<1>. QED
  BY <1>6, <1>7 DEF Return

LEMMA TickServes ==
  ASSUME SchedulerTypes, Served, Known, NEW t \in Tasks, Tick(t)
  PROVE  Served' /\ Known'
<1>1. /\ Len(calls') = Len(calls) + 1 /\ Len(calls) \in Nat
      /\ \A i \in 1..Len(calls) : calls'[i] = calls[i]
      /\ calls'[Len(calls) + 1].by = "timer"
      /\ UNCHANGED <<tasks, timers, started, walk>>
  BY Calling DEF Tick, SchedulerTypes
<1>2. \A i \in 1..Len(calls') : i \in 1..Len(calls) \/ i = Len(calls) + 1
  BY <1>1
<1>3. 1..Len(calls) \subseteq 1..Len(calls')
  BY <1>1
<1>4. Registered' = Registered /\ \A u : (Ahead(u)' <=> Ahead(u)) /\ (InCall(u) => InCall(u)')
  BY <1>1, <1>3 DEF Ahead, Registered, InCall
<1>5. Served'
  BY <1>1, <1>4 DEF Served
<1>6. Known'
  BY <1>1, <1>2, <1>4 DEF Known
<1>. QED
  BY <1>5, <1>6

LEMMA OtherServes ==
  ASSUME SchedulerTypes, Served, Known,
         Stop \/ (Start /\ walk = 0) \/ Walked \/ UNCHANGED schedulerVars
  PROVE  Served' /\ Known'
<1>1. tasks' = tasks /\ calls' = calls /\ timers' \in {timers, [t \in Tasks |-> 0]}
  BY DEF Stop, Start, Walked, schedulerVars
<1>2. Registered' = Registered /\ \A u : InCall(u)' <=> InCall(u)
  BY <1>1 DEF Registered, InCall
<1>3. Known'
  BY <1>1, <1>2 DEF Known
<1>4. CASE Stop
  BY <1>3, <1>4 DEF Stop, Served
<1>5. CASE Start
  <2>1. \A i \in 1..Len(tasks) : i >= walk' /\ walk' > 0
    BY <1>5 DEF Start
  <2>2. \A u \in Registered : Ahead(u)'
    BY <1>1, <2>1 DEF Ahead, Registered
  <2>. QED
    BY <1>2, <1>3, <2>2 DEF Served
<1>6. CASE Walked
  <2>1. walk > Len(tasks) /\ walk \in Nat /\ Len(tasks) \in Nat
        /\ UNCHANGED <<tasks, timers, started, calls>>
    BY <1>6, LenProperties DEF Walked, SchedulerTypes
  <2>2. \A i \in 1..Len(tasks) : ~ (i >= walk)
    BY <2>1
  <2>3. \A u : ~ Ahead(u)
    BY <2>2 DEF Ahead
  <2>. QED
    BY <1>2, <1>3, <2>1, <2>3 DEF Served
<1>7. CASE UNCHANGED schedulerVars
  <2>1. \A u : Ahead(u)' <=> Ahead(u)
    BY <1>7 DEF Ahead, schedulerVars
  <2>. QED
    BY <1>2, <1>3, <1>7, <2>1 DEF Served, schedulerVars
<1>. QED
  BY <1>4, <1>5, <1>6, <1>7

ServedInv == Types /\ Served /\ Known

LEMMA ServedStep == ServedInv /\ [Next]_vars => ServedInv'
<1> SUFFICES ASSUME ServedInv, [Next]_vars PROVE ServedInv'
  OBVIOUS
<1>1. Types' /\ SchedulerTypes /\ Served /\ Known
  BY TypesStep, Splitting DEF ServedInv, Types
<1> SUFFICES Served' /\ Known'
  BY <1>1 DEF ServedInv
<1>2. ASSUME NEW t \in Tasks, Construct(t) PROVE Served' /\ Known'
  BY <1>1, <1>2, AddServes DEF Construct
<1>3. CASE Listen
  <2>1. walk = 0
    BY <1>1, <1>3 DEF Listen, Running, SchedulerTypes
  <2>2. Start \/ UNCHANGED schedulerVars
    BY <1>3 DEF Listen
  <2>. QED
    BY <1>1, <2>1, <2>2, OtherServes
<1>4. CASE Listening
  <2>1. Walked
    BY <1>4 DEF Listening
  <2>. QED
    BY <1>1, <2>1, OtherServes
<1>5. CASE RunTasks
  <2>1. CASE Walk
    BY <1>1, <2>1, WalkServes
  <2>2. CASE Return
    BY <1>1, <2>2, ReturnServes
  <2>3. ASSUME NEW t \in Tasks, Tick(t) PROVE Served' /\ Known'
    BY <1>1, <2>3, TickServes
  <2>. QED
    BY <1>5, <2>1, <2>2, <2>3 DEF RunTasks
<1>6. ASSUME NEW s \in Stops, CallStop(s) \/ Signal(s) PROVE Served' /\ Known'
  BY <1>1, <1>6, OtherServes DEF CallStop, Signal, BeginStop
<1>7. ASSUME NEW s \in Stops, StopStep(s) PROVE UNCHANGED schedulerVars
  BY <1>7 DEF StopStep, HookEnds, CloseServer, ServerClosed, Destroyed, Exit
<1>8. Exited \/ UNCHANGED vars => UNCHANGED schedulerVars
  BY DEF Exited, vars
<1>9. UNCHANGED schedulerVars => Served' /\ Known'
  BY <1>1, OtherServes
<1>. QED
  BY <1>2, <1>3, <1>4, <1>5, <1>6, <1>7, <1>8, <1>9 DEF Next

(* While the scheduler is started every registered task has an interval timer, and
   only registered tasks have: whatever the runs of tasks construct and stop, and
   whenever listen() is called. *)
THEOREM TasksKeepTimers == Spec => []NoTaskForgotten
<1>1. ASSUME LifeInit PROVE ServedInv
  <2>1. Types
    BY <1>1, TypesInit
  <2>2. /\ calls = <<>> /\ started = FALSE /\ \A t \in Tasks : timers[t] = 0
    BY <1>1 DEF LifeInit, Init
  <2>3. Len(calls) = 0
    BY <2>2
  <2>. QED
    BY <2>1, <2>2, <2>3 DEF ServedInv, Served, Known
<1>2. ASSUME ServedInv PROVE NoTaskForgotten
  <2>1. SchedulerTypes /\ Served /\ Known
    BY <1>2, Splitting DEF ServedInv, Types
  <2>2. ASSUME ~ Running PROVE walk = 0 /\ Len(calls) = 0
    BY <2>1, <2>2 DEF Running, SchedulerTypes
  <2>3. ASSUME ~ Running PROVE \A t : ~ InCall(t) /\ ~ Ahead(t)
    BY <2>2, <2>3 DEF InCall, Ahead
  <2>. QED
    BY <2>1, <2>3 DEF NoTaskForgotten, Served, Known
<1>. QED
  BY <1>1, <1>2, ServedStep, PTL DEF Spec

-----------------------------------------------------------------------------
(* The services and their @preDestroy hooks. *)

(* Nothing here depends on more than these. *)
LEMMA SameServices ==
  ASSUME DestroyInv, UNCHANGED <<tasks, alive, destroyed>>,
         \A s \in Stops :
           /\ stop'[s].mine = stop[s].mine /\ stop'[s].built = stop[s].built
           /\ stop'[s].pc \in {"dispose", "done"} => stop[s].pc \in {"dispose", "done"}
  PROVE  DestroyedOnce' /\ InOrder' /\ Emptied'
<1>0. \A x, y : Before(tasks', x, y) <=> Before(tasks, x, y)
  BY DEF Before
<1>1. \A s \in Stops : Taken(s)' = Taken(s)
  BY DEF Taken, Elements
<1>2. Registered' = Registered /\ Elements(alive)' = Elements(alive)
      /\ Elements(destroyed)' = Elements(destroyed)
      /\ Distinct(destroyed)' = Distinct(destroyed)
  BY DEF Registered, Elements, Distinct
<1>3. DestroyedOnce'
  BY <1>1, <1>2 DEF DestroyInv, DestroyedOnce
<1>4. InOrder'
  BY <1>0 DEF DestroyInv, InOrder
<1>5. Emptied'
  BY <1>2 DEF DestroyInv, Emptied
<1>. QED
  BY <1>3, <1>4, <1>5

(* Whatever is listed was constructed. *)
LEMMA Listed ==
  ASSUME DestroyInv
  PROVE  /\ \A i \in 1..Len(alive) : alive[i] \in Registered
         /\ \A s \in Stops : \A i \in 1..Len(stop[s].mine) : stop[s].mine[i] \in Registered
<1>1. \A i \in 1..Len(alive) : alive[i] \in Elements(alive)
  BY DEF Elements
<1>2. \A s \in Stops : \A i \in 1..Len(stop[s].mine) : stop[s].mine[i] \in Taken(s)
  BY DEF Elements, Taken
<1>. QED
  BY <1>1, <1>2 DEF DestroyInv, DestroyedOnce

LEMMA Constructed ==
  ASSUME DestroyInv, SchedulerTypes, LifeTypes, NEW t \in Tasks, Construct(t)
  PROVE  DestroyedOnce' /\ InOrder' /\ Emptied'
<1>1. Add(t) /\ alive' = Append(alive, t) /\ UNCHANGED <<destroyed, stop>>
  BY DEF Construct
<1>2. /\ tasks' \in Seq(Tasks) /\ Len(tasks') = Len(tasks) + 1 /\ Len(tasks) \in Nat
      /\ \A i \in 1..Len(tasks) : tasks'[i] = tasks[i] /\ tasks[i] # t
      /\ tasks'[Len(tasks) + 1] = t
      /\ Registered' = Registered \union {t} /\ t \notin Registered
  BY <1>1, AddedTasks
<1>3. /\ Len(alive') = Len(alive) + 1 /\ Len(alive) \in Nat
      /\ \A i \in 1..Len(alive) : alive'[i] = alive[i]
      /\ alive'[Len(alive) + 1] = t
      /\ Elements(alive') = Elements(alive) \union {t}
  <2>1. alive \in Seq(Tasks)
    BY DEF LifeTypes
  <2>. QED
    BY <1>1, <2>1, Appended, LenProperties
<1>4. \A s \in Stops : Taken(s)' = Taken(s)
  BY <1>1 DEF Taken
<1>5. DestroyedOnce'
  <2>1. t \notin Elements(destroyed) /\ \A s \in Stops : t \notin Taken(s)
    BY <1>2 DEF DestroyInv, DestroyedOnce
  <2>2. Elements(destroyed)' = Elements(destroyed) /\ Distinct(destroyed)' = Distinct(destroyed)
    BY <1>1 DEF Elements, Distinct
  <2>. QED
    BY <1>2, <1>3, <1>4, <2>1, <2>2 DEF DestroyInv, DestroyedOnce
<1>6. 1..Len(tasks) \subseteq 1..Len(tasks') /\ Len(tasks) + 1 \in 1..Len(tasks')
      /\ \A i \in 1..Len(tasks) : i < Len(tasks) + 1
  BY <1>2
<1>7. \A x, y : Before(tasks, x, y) => Before(tasks', x, y)
  BY <1>2, <1>6 DEF Before
<1>8. \A x \in Registered : Before(tasks', x, t)
  BY <1>2, <1>6 DEF Before, Registered
<1>9. InOrder'
  <2>1. \A i, j \in 1..Len(alive') : i < j =>
          i \in 1..Len(alive) /\ (j \in 1..Len(alive) \/ j = Len(alive) + 1)
    BY <1>3
  <2>2. \A i, j \in 1..Len(alive') : i < j => Before(tasks', alive'[i], alive'[j])
    BY <1>3, <1>7, <1>8, <2>1, Listed DEF DestroyInv, InOrder
  <2>3. \A s \in Stops : \A i, j \in 1..Len(stop'[s].mine) :
          i < j => Before(tasks', stop'[s].mine[j], stop'[s].mine[i])
    BY <1>1, <1>7 DEF DestroyInv, InOrder
  <2>. QED
    BY <2>2, <2>3 DEF InOrder
<1>10. Emptied'
  <2>1. ASSUME NEW s \in Stops PROVE stop[s].built \in Nat
    BY DEF LifeTypes, StopCall
  <2>2. ASSUME NEW s \in Stops, NEW i \in 1..stop[s].built
        PROVE  i \in 1..Len(tasks)
    BY <1>2, <2>1 DEF DestroyInv, Emptied
  <2>3. ASSUME NEW s \in Stops PROVE stop'[s].built <= Len(tasks')
    BY <1>1, <1>2, <2>1 DEF DestroyInv, Emptied
  <2>4. ASSUME NEW s \in Stops, stop'[s].pc \in {"dispose", "done"},
               NEW i \in 1..stop'[s].built
        PROVE  tasks'[i] \notin Elements(alive')
    <3>1. i \in 1..stop[s].built /\ tasks[i] \notin Elements(alive)
      BY <1>1, <2>4 DEF DestroyInv, Emptied
    <3>. QED
      BY <1>2, <1>3, <2>2, <3>1
  <2>. QED
    BY <2>3, <2>4 DEF Emptied
<1>. QED
  BY <1>5, <1>9, <1>10

LEMMA Disposed ==
  ASSUME DestroyInv, SchedulerTypes, NEW s \in Stops, Dispose(s), stop[s].pc = "server",
         UNCHANGED <<tasks, destroyed>>
  PROVE  DestroyedOnce' /\ InOrder' /\ Emptied'
<1>0. TypeOK /\ LifeTypes /\ Holding /\ Len(tasks) \in Nat
  BY Splitting, LenProperties DEF DestroyInv, Types, SchedulerTypes
<1>1. /\ alive' = <<>> /\ stop'[s].mine = Reverse(alive) /\ stop'[s].built = Len(tasks)
      /\ \A o \in Stops \ {s} : stop'[o] = stop[o]
  BY <1>0, Disposing
<1>2. /\ Len(Reverse(alive)) = Len(alive) /\ Len(alive) \in Nat
      /\ \A i \in 1..Len(alive) :
           Len(alive) - i + 1 \in 1..Len(alive) /\ Reverse(alive)[i] = alive[Len(alive) - i + 1]
      /\ Elements(Reverse(alive)) = Elements(alive)
  BY <1>0, Reversed DEF LifeTypes
<1>3. Len(stop[s].mine) = 0 /\ Len(alive') = 0
  BY <1>0, <1>1 DEF Holding
<1>4. Taken(s) = {} /\ Elements(alive') = {} /\ Taken(s)' = Elements(alive)
      /\ \A o \in Stops \ {s} : Taken(o)' = Taken(o)
  <2>1. Taken(s) = {} /\ Elements(alive') = {}
    BY <1>3 DEF Taken, Elements
  <2>. QED
    BY <1>1, <1>2, <2>1 DEF Taken
<1>5. Registered' = Registered /\ Elements(destroyed)' = Elements(destroyed)
      /\ Distinct(destroyed)' = Distinct(destroyed)
  BY DEF Registered, Elements, Distinct
<1>6. DestroyedOnce'
  <2>1. UNION {Taken(o)' : o \in Stops} = Elements(alive) \union UNION {Taken(o) : o \in Stops}
    BY <1>4
  <2>2. Registered' = Elements(alive') \union Elements(destroyed)'
                        \union UNION {Taken(o)' : o \in Stops}
    BY <1>4, <1>5, <2>1 DEF DestroyInv, DestroyedOnce
  <2>3. ASSUME NEW o \in Stops
        PROVE  Taken(o)' \intersect (Elements(alive') \union Elements(destroyed)') = {}
    BY <1>4, <1>5 DEF DestroyInv, DestroyedOnce
  <2>4. ASSUME NEW o \in Stops, NEW q \in Stops \ {o} PROVE Taken(o)' \intersect Taken(q)' = {}
    BY <1>4 DEF DestroyInv, DestroyedOnce
  <2>5. Elements(alive') \intersect Elements(destroyed)' = {} /\ Distinct(destroyed)'
    BY <1>4, <1>5 DEF DestroyInv, DestroyedOnce
  <2>. QED
    BY <2>2, <2>3, <2>4, <2>5 DEF DestroyedOnce
<1>7. \A x, y : Before(tasks', x, y) <=> Before(tasks, x, y)
  BY DEF Before
<1>8. InOrder'
  <2>1. ASSUME NEW i \in 1..Len(Reverse(alive)), NEW j \in 1..Len(Reverse(alive)), i < j
        PROVE  Before(tasks, Reverse(alive)[j], Reverse(alive)[i])
    <3>1. Len(alive) - j + 1 < Len(alive) - i + 1
      BY <1>2, <2>1
    <3>. QED
      BY <1>2, <2>1, <3>1 DEF DestroyInv, InOrder
  <2>2. ASSUME NEW o \in Stops \ {s}, NEW i \in 1..Len(stop[o].mine),
               NEW j \in 1..Len(stop[o].mine), i < j
        PROVE  Before(tasks, stop[o].mine[j], stop[o].mine[i])
    BY <2>2 DEF DestroyInv, InOrder
  <2>. QED
    BY <1>1, <1>3, <1>7, <2>1, <2>2 DEF InOrder
<1>9. Emptied'
  BY <1>0, <1>1, <1>4 DEF DestroyInv, Emptied
<1>. QED
  BY <1>6, <1>8, <1>9

LEMMA HookDone ==
  ASSUME DestroyInv, SchedulerTypes, NEW s \in Stops, Destroyed(s)
  PROVE  DestroyedOnce' /\ InOrder' /\ Emptied'
<1>0. TypeOK /\ LifeTypes /\ Holding /\ stop[s].pc = "dispose"
      /\ UNCHANGED <<tasks, alive>> /\ destroyed' = Append(destroyed, Head(stop[s].mine))
  BY Splitting DEF DestroyInv, Types, Destroyed, schedulerVars
<1>1. stop[s] \in StopCall /\ stop[s].mine \in Seq(Tasks) /\ stop[s].mine # <<>>
  BY <1>0 DEF LifeTypes, Holding, StopCall
<1>2. /\ stop'[s].mine = Tail(stop[s].mine) /\ stop'[s].built = stop[s].built
      /\ \A o \in Stops \ {s} : stop'[o] = stop[o]
  BY <1>0, <1>1, OneDestroyed
<1>3. PICK list \in Seq(Tasks) : list = stop[s].mine /\ list # <<>>
  BY <1>1
<1>4. PICK x \in Tasks : x = Head(list)
  BY <1>3, HeadAndTail
<1>5. /\ x = list[1] /\ Len(list) \in Nat /\ 1 \in 1..Len(list)
      /\ Len(Tail(list)) = Len(list) - 1
      /\ \A i \in 1..Len(Tail(list)) : i + 1 \in 1..Len(list) /\ Tail(list)[i] = list[i + 1]
      /\ Elements(list) = Elements(Tail(list)) \union {x}
  BY <1>3, <1>4, HeadAndTail
<1>6. \A a, b : Before(tasks, a, b) => a # b
  BY DEF Before, DestroyInv, Distinct
<1>7. x \notin Elements(Tail(list))
  <2>1. ASSUME NEW i \in 1..Len(Tail(list)) PROVE Tail(list)[i] # x
    <3>1. 1 < i + 1 /\ i + 1 \in 1..Len(list)
      BY <1>5
    <3>2. Before(tasks, list[i + 1], list[1])
      BY <1>3, <1>5, <3>1 DEF DestroyInv, InOrder
    <3>. QED
      BY <1>5, <1>6, <3>2
  <2>. QED
    BY <2>1 DEF Elements
<1>8. /\ Taken(s) = Elements(Tail(list)) \union {x} /\ Taken(s)' = Elements(Tail(list))
      /\ \A o \in Stops \ {s} : Taken(o)' = Taken(o)
  BY <1>2, <1>3, <1>5 DEF Taken
<1>9. /\ Elements(destroyed') = Elements(destroyed) \union {x}
      /\ Len(destroyed') = Len(destroyed) + 1 /\ Len(destroyed) \in Nat
      /\ \A i \in 1..Len(destroyed) : destroyed'[i] = destroyed[i]
      /\ destroyed'[Len(destroyed) + 1] = x
  <2>1. destroyed \in Seq(Tasks) /\ destroyed' = Append(destroyed, x)
    BY <1>0, <1>3, <1>4 DEF LifeTypes
  <2>. QED
    BY <2>1, Appended, LenProperties
<1>10. Registered' = Registered /\ Elements(alive') = Elements(alive)
  BY <1>0 DEF Registered, Elements
<1>11. x \notin Elements(destroyed) /\ x \notin Elements(alive)
       /\ \A o \in Stops \ {s} : x \notin Taken(o)
  BY <1>8 DEF DestroyInv, DestroyedOnce
<1>12. DestroyedOnce'
  <2>1. UNION {Taken(o) : o \in Stops} = {x} \union UNION {Taken(o)' : o \in Stops}
    BY <1>8
  <2>2. Registered' = Elements(alive') \union Elements(destroyed')
                        \union UNION {Taken(o)' : o \in Stops}
    BY <1>9, <1>10, <2>1 DEF DestroyInv, DestroyedOnce
  <2>3. ASSUME NEW o \in Stops
        PROVE  Taken(o)' \intersect (Elements(alive') \union Elements(destroyed')) = {}
    BY <1>7, <1>8, <1>9, <1>10, <1>11 DEF DestroyInv, DestroyedOnce
  <2>4. ASSUME NEW o \in Stops, NEW q \in Stops \ {o} PROVE Taken(o)' \intersect Taken(q)' = {}
    BY <1>8 DEF DestroyInv, DestroyedOnce
  <2>5. Elements(alive') \intersect Elements(destroyed') = {}
    BY <1>9, <1>10, <1>11 DEF DestroyInv, DestroyedOnce
  <2>6. \A i \in 1..Len(destroyed) : destroyed[i] # x
    BY <1>11 DEF Elements
  <2>7. \A i \in 1..Len(destroyed') : i \in 1..Len(destroyed) \/ i = Len(destroyed) + 1
    BY <1>9
  <2>8. Distinct(destroyed')
    BY <1>9, <2>6, <2>7 DEF DestroyInv, DestroyedOnce, Distinct
  <2>. QED
    BY <2>2, <2>3, <2>4, <2>5, <2>8 DEF DestroyedOnce
<1>13. InOrder'
  <2>1. \A a, b : Before(tasks', a, b) <=> Before(tasks, a, b)
    BY <1>0 DEF Before
  <2>2. ASSUME NEW i \in 1..Len(Tail(list)), NEW j \in 1..Len(Tail(list)), i < j
        PROVE  Before(tasks, Tail(list)[j], Tail(list)[i])
    <3>1. i + 1 < j + 1
      BY <1>5, <2>2
    <3>. QED
      BY <1>3, <1>5, <3>1 DEF DestroyInv, InOrder
  <2>3. ASSUME NEW o \in Stops \ {s}, NEW i \in 1..Len(stop[o].mine),
               NEW j \in 1..Len(stop[o].mine), i < j
        PROVE  Before(tasks, stop[o].mine[j], stop[o].mine[i])
    BY <2>3 DEF DestroyInv, InOrder
  <2>4. \A i, j \in 1..Len(alive) : i < j => Before(tasks, alive[i], alive[j])
    BY DEF DestroyInv, InOrder
  <2>. QED
    BY <1>0, <1>2, <1>3, <2>1, <2>2, <2>3, <2>4 DEF InOrder
<1>14. Emptied'
  <2>1. \A o \in Stops : stop'[o].built = stop[o].built
    BY <1>2
  <2>2. \A o \in Stops : stop'[o].pc \in {"dispose", "done"} => stop[o].pc \in {"dispose", "done"}
    BY <1>0, <1>2
  <2>. QED
    BY <1>0, <1>10, <2>1, <2>2 DEF DestroyInv, Emptied
<1>. QED
  BY <1>12, <1>13, <1>14

(* Every other step leaves the services alone, and no call of stop() gets to
   "dispose" or "done" by it. *)
LEMMA ServicesStep ==
  ASSUME DestroyInv, [Next]_vars PROVE DestroyedOnce' /\ InOrder' /\ Emptied'
<1>0. Types /\ TypeOK /\ SchedulerTypes /\ LifeTypes
  BY Splitting DEF DestroyInv, Types
<1>1. ASSUME NEW t \in Tasks, Construct(t) PROVE DestroyedOnce' /\ InOrder' /\ Emptied'
  BY <1>0, <1>1, Constructed
<1>2. CASE Listen \/ Listening \/ RunTasks \/ Exited \/ UNCHANGED vars
  <2>1. UNCHANGED <<tasks, alive, destroyed, stop>>
    BY <1>2 DEF Listen, Listening, RunTasks, Exited, vars, schedulerVars, lifeVars,
                Start, Walked, Walk, Return, Tick
  <2>. QED
    BY <2>1, SameServices
<1>3. ASSUME NEW s \in Stops, CallStop(s) \/ Signal(s)
      PROVE  DestroyedOnce' /\ InOrder' /\ Emptied'
  <2>1. ASSUME NEW signal \in BOOLEAN, BeginStop(s, signal)
        PROVE  DestroyedOnce' /\ InOrder' /\ Emptied'
    <3>1. UNCHANGED <<tasks, alive, destroyed>>
      BY <2>1 DEF BeginStop, Stop
    <3>2. /\ stop'[s].pc = "hooks" /\ stop'[s].mine = stop[s].mine
          /\ stop'[s].built = stop[s].built
          /\ \A o \in Stops \ {s} : stop'[o] = stop[o]
      BY <1>0, <2>1, Began
    <3>. QED
      BY <3>1, <3>2, SameServices
  <2>2. CASE UNCHANGED <<schedulerVars, alive, destroyed, stop>>
    BY <2>2, SameServices DEF schedulerVars
  <2>. QED
    BY <1>3, <2>1, <2>2 DEF CallStop, Signal
<1>4. ASSUME NEW s \in Stops, HookEnds(s) \/ CloseServer(s) \/ Exit(s)
      PROVE  DestroyedOnce' /\ InOrder' /\ Emptied'
  <2>1. UNCHANGED <<tasks, alive, destroyed>>
    BY <1>4 DEF HookEnds, CloseServer, Exit, schedulerVars
  <2>2. CASE HookEnds(s)
    BY <1>0, <2>1, <2>2, HookEnded, SameServices
  <2>3. CASE CloseServer(s)
    <3>1. /\ stop'[s].pc = "server" /\ stop'[s].mine = stop[s].mine
          /\ stop'[s].built = stop[s].built
          /\ \A o \in Stops \ {s} : stop'[o] = stop[o]
      BY <1>0, <2>3, Turned DEF CloseServer
    <3>. QED
      BY <2>1, <3>1, SameServices
  <2>4. CASE Exit(s)
    BY <2>1, <2>4, SameServices DEF Exit
  <2>. QED
    BY <1>4, <2>2, <2>3, <2>4
<1>5. ASSUME NEW s \in Stops, ServerClosed(s)
      PROVE  DestroyedOnce' /\ InOrder' /\ Emptied'
  <2>1. stop[s].pc = "server" /\ UNCHANGED <<tasks, destroyed>>
    BY <1>5 DEF ServerClosed, schedulerVars
  <2>2. CASE Dispose(s)
    BY <1>0, <2>1, <2>2, Disposed
  <2>3. CASE stop' = [stop EXCEPT ![s].pc = "failed"] /\ UNCHANGED alive
    <3>1. /\ stop'[s].pc = "failed" /\ stop'[s].mine = stop[s].mine
          /\ stop'[s].built = stop[s].built
          /\ \A o \in Stops \ {s} : stop'[o] = stop[o]
      BY <1>0, <2>3, Turned
    <3>. QED
      BY <2>1, <2>3, <3>1, SameServices
  <2>. QED
    BY <1>5, <2>2, <2>3 DEF ServerClosed
<1>6. ASSUME NEW s \in Stops, Destroyed(s) PROVE DestroyedOnce' /\ InOrder' /\ Emptied'
  BY <1>0, <1>6, HookDone
<1>. QED
  BY <1>1, <1>2, <1>3, <1>4, <1>5, <1>6 DEF Next, StopStep

(* What a call of stop() found when it destroyed was constructed then. *)
LEMMA Found ==
  ASSUME DestroyInv, NEW s \in Stops
  PROVE  1..stop[s].built \subseteq 1..Len(tasks)
<1>1. stop[s].built \in Nat /\ Len(tasks) \in Nat
  BY Splitting, LenProperties DEF DestroyInv, Types, SchedulerTypes, LifeTypes, StopCall
<1>. QED
  BY <1>1 DEF DestroyInv, Emptied

LEMMA CleanExitStep ==
  ASSUME DestroyInv, [Next]_vars PROVE CleanExit'
<1>1. CASE Up
  <2>1. ASSUME NEW s \in Stops, Exit(s) PROVE CleanExit'
    <3>1. stop[s].signal /\ (exit' = "code 0" => stop[s].pc = "done")
          /\ UNCHANGED <<schedulerVars, alive, destroyed, stop>>
      BY <2>1 DEF Exit
    <3>2. ASSUME stop[s].pc = "done", NEW i \in 1..stop[s].built
          PROVE  \/ tasks[i] \in Elements(destroyed)
                 \/ \E o \in Stops \ {s} : tasks[i] \in Taken(o)
      <4>1. tasks[i] \notin Elements(alive) /\ tasks[i] \in Registered
        BY <3>2, Found DEF DestroyInv, Emptied, Registered
      <4>2. stop[s].mine = <<>>
        BY <3>2 DEF DestroyInv, Types, Holding
      <4>3. Len(stop[s].mine) = 0
        BY <4>2
      <4>4. Taken(s) = {}
        BY <4>3 DEF Taken, Elements
      <4>. QED
        BY <4>1, <4>4 DEF DestroyInv, DestroyedOnce
    <3>3. tasks' = tasks /\ Elements(destroyed)' = Elements(destroyed)
          /\ \A o \in Stops : Taken(o)' = Taken(o)
      BY <3>1 DEF schedulerVars, Taken, Elements
    <3>4. CASE exit' = "code 0"
      <4>1. stop' = stop /\ stop[s].signal /\ stop[s].pc = "done"
        BY <3>1, <3>4
      <4>2. ASSUME NEW i \in 1..stop'[s].built
            PROVE  \/ tasks'[i] \in Elements(destroyed)'
                   \/ \E o \in Stops \ {s} : tasks'[i] \in Taken(o)'
        BY <3>2, <3>3, <4>1
      <4>. QED
        BY <4>1, <4>2 DEF CleanExit
    <3>. QED
      BY <3>4 DEF CleanExit
  <2>2. CASE exit' # "code 0"
    BY <2>2 DEF CleanExit
  <2>3. exit' # "code 0" \/ \E s \in Stops : Exit(s)
    BY <1>1 DEF Next, Construct, Listen, Listening, RunTasks, CallStop, Signal, BeginStop,
                StopStep, HookEnds, CloseServer, ServerClosed, Destroyed, Exited, Up, vars, lifeVars
  <2>. QED
    BY <2>1, <2>2, <2>3
<1>2. CASE ~ Up
  <2>1. UNCHANGED vars
    BY <1>2 DEF Next, Construct, Listen, Listening, RunTasks, CallStop, Signal,
                StopStep, HookEnds, CloseServer, ServerClosed, Destroyed, Exit, Exited
  <2>2. UNCHANGED <<tasks, destroyed, stop, exit>>
    BY <2>1 DEF vars, schedulerVars, lifeVars
  <2>3. Elements(destroyed)' = Elements(destroyed) /\ \A o \in Stops : Taken(o)' = Taken(o)
    BY <2>2 DEF Taken, Elements
  <2>4. tasks' = tasks /\ stop' = stop /\ exit' = exit /\ CleanExit
    BY <2>2 DEF DestroyInv
  <2>5. CASE exit = "code 0"
    <3>1. PICK s \in Stops :
            /\ stop[s].signal /\ stop[s].pc = "done"
            /\ \A i \in 1..stop[s].built :
                 \/ tasks[i] \in Elements(destroyed)
                 \/ \E o \in Stops \ {s} : tasks[i] \in Taken(o)
      BY <2>4, <2>5 DEF CleanExit
    <3>2. ASSUME NEW i \in 1..stop'[s].built
          PROVE  \/ tasks'[i] \in Elements(destroyed)'
                 \/ \E o \in Stops \ {s} : tasks'[i] \in Taken(o)'
      BY <2>3, <2>4, <3>1
    <3>3. stop'[s].signal /\ stop'[s].pc = "done"
      BY <2>4, <3>1
    <3>. QED
      BY <3>2, <3>3 DEF CleanExit
  <2>. QED
    BY <2>4, <2>5 DEF CleanExit
<1>. QED
  BY <1>1, <1>2

LEMMA DestroyStep == DestroyInv /\ [Next]_vars => DestroyInv'
<1> SUFFICES ASSUME DestroyInv, [Next]_vars PROVE DestroyInv'
  OBVIOUS
<1>1. Types' /\ Distinct(tasks)'
  BY TypesStep, SchedulerSteps, StillDistinct, Splitting DEF DestroyInv, Types
<1>. QED
  BY <1>1, ServicesStep, CleanExitStep DEF DestroyInv

LEMMA DestroyInit == LifeInit => DestroyInv
<1> SUFFICES ASSUME LifeInit PROVE DestroyInv
  OBVIOUS
<1>1. /\ tasks = <<>> /\ alive = <<>> /\ destroyed = <<>> /\ exit = "no"
      /\ \A s \in Stops : stop[s].pc = "idle" /\ stop[s].mine = <<>> /\ stop[s].built = 0
  BY DEF LifeInit, Init, NotCalled
<1>2. /\ Len(tasks) = 0 /\ Len(alive) = 0 /\ Len(destroyed) = 0
      /\ \A s \in Stops : Len(stop[s].mine) = 0
  BY <1>1
<1>3. /\ Registered = {} /\ Elements(alive) = {} /\ Elements(destroyed) = {}
      /\ \A s \in Stops : Taken(s) = {}
  BY <1>2 DEF Registered, Elements, Taken
<1>4. Distinct(tasks) /\ Distinct(destroyed)
  BY <1>2 DEF Distinct
<1>5. DestroyedOnce
  BY <1>3, <1>4 DEF DestroyedOnce
<1>6. InOrder /\ Emptied
  BY <1>1, <1>2 DEF InOrder, Emptied
<1>7. CleanExit
  BY <1>1 DEF CleanExit
<1>. QED
  BY <1>4, <1>5, <1>6, <1>7, TypesInit DEF DestroyInv

(* However many calls of stop() overlap, no @preDestroy hook runs twice and none
   is forgotten. *)
THEOREM EachDestroyedOnce == Spec => []DestroyedOnce
<1>1. DestroyInv => DestroyedOnce
  BY DEF DestroyInv
<1>. QED
  BY <1>1, DestroyInit, DestroyStep, PTL DEF Spec

(* Each dispose() destroys a service after all the services constructed later. *)
THEOREM UsersDestroyedFirst == Spec => []UsersFirst
<1>1. ASSUME DestroyInv PROVE UsersFirst
  <2> SUFFICES ASSUME NEW s \in Stops, stop[s].pc = "dispose",
                      NEW i \in 1..stop[s].built, NEW j \in 1..stop[s].built,
                      i < j, tasks[i] = Head(stop[s].mine), tasks[j] \in Taken(s)
               PROVE  FALSE
    BY DEF UsersFirst
  <2>1. stop[s].mine \in Seq(Tasks) /\ stop[s].mine # <<>>
    BY <1>1, Splitting DEF DestroyInv, Types, LifeTypes, StopCall, Holding
  <2>2. PICK list \in Seq(Tasks) : list = stop[s].mine /\ list # <<>>
    BY <2>1
  <2>3. tasks[i] = list[1] /\ 1 \in 1..Len(list) /\ Len(list) \in Nat
    BY <2>2, HeadAndTail
  <2>4. PICK k \in 1..Len(list) : tasks[j] = list[k]
    BY <2>2 DEF Taken, Elements
  <2>5. i \in 1..Len(tasks) /\ j \in 1..Len(tasks)
    BY <1>1, Found
  <2>6. k # 1
    BY <1>1, <2>3, <2>4, <2>5 DEF DestroyInv, Distinct
  <2>7. 1 < k
    BY <2>3, <2>6
  <2>8. Before(tasks, tasks[j], tasks[i])
    BY <1>1, <2>2, <2>3, <2>4, <2>7 DEF DestroyInv, InOrder
  <2>9. PICK a \in 1..Len(tasks), b \in 1..Len(tasks) :
          a < b /\ tasks[a] = tasks[j] /\ tasks[b] = tasks[i]
    BY <2>8 DEF Before
  <2>10. a = j /\ b = i
    BY <1>1, <2>5, <2>9 DEF DestroyInv, Distinct
  <2>. QED
    BY <2>9, <2>10
<1>. QED
  BY <1>1, DestroyInit, DestroyStep, PTL DEF Spec

(* The process exits with code 0 only after one stop() destroyed all it found,
   but for what another one is destroying. *)
THEOREM ExitsCleanly == Spec => []CleanExit
<1>1. DestroyInv => CleanExit
  BY DEF DestroyInv
<1>. QED
  BY <1>1, DestroyInit, DestroyStep, PTL DEF Spec
=============================================================================
