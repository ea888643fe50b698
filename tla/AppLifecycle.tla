---------------------------- MODULE AppLifecycle ----------------------------
(***************************************************************************)
(* The life of an application: listen(), stop() and the signal handlers    *)
(* (src/src/app.ts), with the Scheduler they start and stop and the        *)
(* services whose @preDestroy hooks stop() runs (Container.dispose in      *)
(* src/src/di.ts).  stop() awaits every onStop hook, the server and every  *)
(* @preDestroy hook, and nothing keeps a second stop() from running        *)
(* meanwhile.                                                              *)
(***************************************************************************)
EXTENDS Scheduler

CONSTANTS
  Stops,       \* the calls of stop()
  Hooks,       \* how many onStop hooks are registered
  MaxListens   \* bound: how often listen() opens a server

ASSUME HooksAssumption == Hooks \in Nat
ASSUME MaxListensAssumption == MaxListens \in Nat

VARIABLES
  servers,     \* the servers that accept connections
  server,      \* the server of the last listen(), 0 before
  handlers,    \* the signal handlers are installed
  alive,       \* services that dispose() has not taken, in construction order
  destroyed,   \* services whose @preDestroy hook has ended, in that order
  stop,        \* for each call of stop(), where it is
  exit,        \* how the process ended: "no", "code 0", "code 1" or "killed"
  disorders    \* history, since the last stop() that did not interrupt start(): the
               \* application constructed a service in a run that start() called
               \* ("construct"), stopped in one that start() or schedule() called
               \* ("stop"), or listened while a stop() went on ("listen")

lifeVars == <<servers, server, handlers, alive, destroyed, stop, exit, disorders>>
vars == <<schedulerVars, lifeVars>>

StopCall ==
  [pc : {"idle", "hooks", "server", "dispose", "done", "failed"},
   at : 0..Hooks + 1,        \* the onStop hook that is awaited
   mine : Seq(Tasks),        \* what dispose() took and has not destroyed
   built : Nat,              \* how many services there were when it did
   signal : BOOLEAN]         \* the call is gracefulExit's

NotCalled == [pc |-> "idle", at |-> 0, mine |-> <<>>, built |-> 0, signal |-> FALSE]

LifeInit ==
  /\ Init
  /\ servers = {} /\ server = 0
  /\ handlers = FALSE
  /\ alive = <<>> /\ destroyed = <<>>
  /\ stop = [s \in Stops |-> NotCalled]
  /\ exit = "no"
  /\ disorders = {}

Up == exit = "no"

Pending(s) == stop[s].pc \in {"hooks", "server", "dispose"}

-----------------------------------------------------------------------------
(* A service is constructed, by a request, a run of a task or at start-up: the
   container keeps its @preDestroy hook and its task is registered. *)
Construct(t) ==
  /\ Up /\ MayCall
  /\ Add(t)
  /\ disorders' = IF walk > 0 THEN disorders \union {"construct"} ELSE disorders
  /\ alive' = Append(alive, t)
  /\ UNCHANGED <<servers, server, handlers, destroyed, stop, exit>>

(* listen(): opens a server, or throws because the port is taken; then the
   scheduler starts unless it has. *)
Listen ==
  /\ Up /\ ~ Running /\ server < MaxListens
  /\ server' = server + 1
  /\ servers' = servers \union {server'}
  /\ disorders' =
       IF \E s \in Stops : Pending(s) THEN disorders \union {"listen"} ELSE disorders
  /\ \/ Start /\ UNCHANGED handlers
     \/ /\ started
        /\ UNCHANGED schedulerVars
        /\ handlers' \in {handlers, TRUE}
  /\ UNCHANGED <<alive, destroyed, stop, exit>>

(* start() has scheduled every task: listen() installs the signal handlers if it
   was asked to. *)
Listening ==
  /\ Up /\ Walked
  /\ handlers' \in {handlers, TRUE}
  /\ UNCHANGED <<servers, server, alive, destroyed, stop, exit, disorders>>

(* The steps of the scheduler alone. *)
RunTasks ==
  /\ Up
  /\ Walk \/ Return \/ \E t \in Tasks : Tick(t)
  /\ UNCHANGED lifeVars

-----------------------------------------------------------------------------
(* Mutant of BeginStop: the scheduler is left running. *)
BeginStopKeepsTasks(s, signal) ==
  /\ stop[s].pc = "idle"
  /\ handlers' = FALSE
  /\ disorders' = IF Starting THEN disorders \union {"stop"} ELSE {}
  /\ stop' = [stop EXCEPT ![s].pc = "hooks", ![s].at = 1, ![s].signal = signal]
  /\ UNCHANGED <<schedulerVars, servers, server, alive, destroyed, exit>>

(* What stop() does before its first await. *)
BeginStop(s, signal) ==
  /\ stop[s].pc = "idle"
  /\ Stop
  /\ handlers' = FALSE
  /\ disorders' = IF Starting THEN disorders \union {"stop"} ELSE {}
  /\ stop' = [stop EXCEPT ![s].pc = "hooks", ![s].at = 1, ![s].signal = signal]
  /\ UNCHANGED <<servers, server, alive, destroyed, exit>>

(* The application calls stop(), maybe in a task. *)
CallStop(s) ==
  /\ Up /\ MayCall
  /\ BeginStop(s, FALSE)

(* SIGTERM or SIGINT: without the handlers the process dies at once. *)
Signal(s) ==
  /\ Up /\ ~ Running
  /\ \/ handlers /\ BeginStop(s, TRUE)
     \/ /\ ~ handlers
        /\ exit' = "killed"
        /\ UNCHANGED <<schedulerVars, servers, server, handlers, alive, destroyed, stop, disorders>>

(* An onStop hook settles; what it throws is logged. *)
HookEnds(s) ==
  /\ Up /\ ~ Running
  /\ stop[s].pc = "hooks" /\ stop[s].at <= Hooks
  /\ stop' = [stop EXCEPT ![s].at = @ + 1]
  /\ UNCHANGED <<schedulerVars, servers, server, handlers, alive, destroyed, exit, disorders>>

(* Mutant of CloseServer: calls of stop() wait for each other. *)
CloseServerWaits(s) ==
  /\ Up /\ ~ Running
  /\ stop[s].pc = "hooks" /\ stop[s].at > Hooks
  /\ \A o \in Stops \ {s} : ~ Pending(o)
  /\ servers' = servers \ {server}
  /\ stop' = [stop EXCEPT ![s].pc = "server"]
  /\ UNCHANGED <<schedulerVars, server, handlers, alive, destroyed, exit, disorders>>

(* After the hooks: the server that is current now is told to stop. *)
CloseServer(s) ==
  /\ Up /\ ~ Running
  /\ stop[s].pc = "hooks" /\ stop[s].at > Hooks
  /\ servers' = servers \ {server}
  /\ stop' = [stop EXCEPT ![s].pc = "server"]
  /\ UNCHANGED <<schedulerVars, server, handlers, alive, destroyed, exit, disorders>>

(* Call s destroys list, one hook after the other. *)
Destroying(s, list) ==
  [stop[s] EXCEPT !.pc = IF list = <<>> THEN "done" ELSE "dispose", !.mine = list]

(* Mutant of Dispose: the list is copied and not emptied. *)
DisposeCopies(s) ==
  /\ stop' = [stop EXCEPT ![s] = [Destroying(s, Reverse(alive)) EXCEPT !.built = Len(tasks)]]
  /\ UNCHANGED alive

(* Mutant of Dispose: in the order of construction. *)
DisposeForward(s) ==
  /\ stop' = [stop EXCEPT ![s] = [Destroying(s, alive) EXCEPT !.built = Len(tasks)]]
  /\ alive' = <<>>

(* dispose() takes every service there is. *)
Dispose(s) ==
  /\ stop' = [stop EXCEPT ![s] = [Destroying(s, Reverse(alive)) EXCEPT !.built = Len(tasks)]]
  /\ alive' = <<>>

(* The connections of the server have ended, or closing it failed: then nothing
   is destroyed. *)
ServerClosed(s) ==
  /\ Up /\ ~ Running
  /\ stop[s].pc = "server"
  /\ \/ Dispose(s)
     \/ /\ server # 0
        /\ stop' = [stop EXCEPT ![s].pc = "failed"]
        /\ UNCHANGED alive
  /\ UNCHANGED <<schedulerVars, servers, server, handlers, destroyed, exit, disorders>>

(* The @preDestroy hook of a service settles; what it throws is logged. *)
Destroyed(s) ==
  /\ Up /\ ~ Running
  /\ stop[s].pc = "dispose"
  /\ destroyed' = Append(destroyed, Head(stop[s].mine))
  /\ stop' = [stop EXCEPT ![s] = Destroying(s, Tail(stop[s].mine))]
  /\ UNCHANGED <<schedulerVars, servers, server, handlers, alive, exit, disorders>>

(* Mutant of Exit: gracefulExit does not wait for stop(). *)
ExitAtOnce(s) ==
  /\ Up /\ ~ Running
  /\ stop[s].signal
  /\ exit' = "code 0"
  /\ UNCHANGED <<schedulerVars, servers, server, handlers, alive, destroyed, stop, disorders>>

(* gracefulExit ends the process once its stop() has settled. *)
Exit(s) ==
  /\ Up /\ ~ Running
  /\ stop[s].signal
  /\ \/ stop[s].pc = "done" /\ exit' = "code 0"
     \/ stop[s].pc = "failed" /\ exit' = "code 1"
  /\ UNCHANGED <<schedulerVars, servers, server, handlers, alive, destroyed, stop, disorders>>

(* What the event loop does for call s once its awaits have settled. *)
StopStep(s) ==
  HookEnds(s) \/ CloseServer(s) \/ ServerClosed(s) \/ Destroyed(s) \/ Exit(s)

(* Code on the call stack goes on. *)
Synchronous == Up /\ Running /\ (RunTasks \/ Listening)

(* The process has ended. *)
Exited == ~ Up /\ UNCHANGED vars

Next ==
  \/ \E t \in Tasks : Construct(t)
  \/ Listen \/ Listening \/ RunTasks
  \/ \E s \in Stops : CallStop(s) \/ Signal(s) \/ StopStep(s)
  \/ Exited

Spec == LifeInit /\ [][Next]_vars

(* The call stack empties, hooks settle and connections end; whatever timers keep
   firing, the event loop comes to an await that has settled between two of them. *)
FairSpec ==
  /\ Spec
  /\ WF_vars(Synchronous)
  /\ \A s \in Stops : SF_vars(StopStep(s))

-----------------------------------------------------------------------------
(* Properties. *)

Elements(list) == {list[i] : i \in 1..Len(list)}

Distinct(list) == \A i, j \in 1..Len(list) : list[i] = list[j] => i = j

(* What call s has taken and not destroyed yet. *)
Taken(s) == Elements(stop[s].mine)

(* Every variable has its type. *)
TypeOK ==
  /\ tasks \in Seq(Tasks) /\ timers \in [Tasks -> Nat]
  /\ started \in BOOLEAN /\ walk \in 0..Len(tasks) + 1
  /\ calls \in Seq(Call)
  /\ server \in 0..MaxListens /\ servers \subseteq 1..server
  /\ handlers \in BOOLEAN
  /\ alive \in Seq(Tasks) /\ destroyed \in Seq(Tasks)
  /\ stop \in [Stops -> StopCall]
  /\ exit \in {"no", "code 0", "code 1", "killed"}
  /\ disorders \subseteq {"construct", "stop", "listen"}

(* While the scheduler is started no registered task is without an interval timer,
   whatever the runs of tasks construct or stop and whenever listen() is called (add,
   start and stop of Scheduler); and no timer is left of a task nobody registered. *)
NoTaskForgotten ==
  ~ Running =>
    \A t \in Tasks :
      /\ started /\ t \in Registered => timers[t] > 0
      /\ timers[t] > 0 => t \in Registered

(* Since that stop() no run in the middle of start() or add() interfered with it. *)
Orderly == "construct" \notin disorders /\ "stop" \notin disorders

(* While the scheduler is started each registered task has exactly one interval
   timer, otherwise none has; unless, since the last stop() that did not interrupt
   start(), a run that start() called constructed a service (it may get two timers)
   or a run that start() or schedule() called stopped the application (its own timer
   is set after all).  A stop() that interrupts nothing puts everything right. *)
TimersMatch ==
  ~ Running /\ Orderly =>
    \A t \in Tasks :
      timers[t] = IF started /\ t \in Registered THEN 1 ELSE 0

(* "Fires only while the app is listening" (scheduled): a task has a timer only
   while the server of the last listen() accepts connections; unless there was one
   of the disorders, a listen() during a stop() among them (that stop() closes the
   new server), since the last stop() that did not interrupt start(). *)
FiresOnlyWhileListening ==
  ~ Running /\ disorders = {} =>
    ((\E t \in Tasks : timers[t] > 0) => server \in servers)

(* Every service that was constructed is in exactly one place: known to the
   container, taken by one dispose(), or destroyed; so no @preDestroy hook runs
   twice or is forgotten, however the calls of stop() overlap. *)
DestroyedOnce ==
  /\ Registered = Elements(alive) \union Elements(destroyed)
                    \union UNION {Taken(s) : s \in Stops}
  /\ Elements(alive) \intersect Elements(destroyed) = {}
  /\ \A s \in Stops :
       /\ Taken(s) \intersect (Elements(alive) \union Elements(destroyed)) = {}
       /\ \A o \in Stops \ {s} : Taken(s) \intersect Taken(o) = {}
  /\ Distinct(destroyed)

(* A service is destroyed after all those constructed later than it, which may
   use it, of the services there were when dispose() ran (reverse order). *)
UsersFirst ==
  \A s \in Stops : stop[s].pc = "dispose" =>
    \A i, j \in 1..stop[s].built :
      (i < j /\ tasks[i] = Head(stop[s].mine)) => tasks[j] \notin Taken(s)

(* The process exits with code 0 only after a stop() came to its end: of the
   services there were when that call destroyed, none is left but those that
   another stop() is destroying (gracefulExit does not wait for it). *)
CleanExit ==
  exit = "code 0" =>
    \E s \in Stops :
      /\ stop[s].signal /\ stop[s].pc = "done"
      /\ \A i \in 1..stop[s].built :
           \/ tasks[i] \in Elements(destroyed)
           \/ \E o \in Stops \ {s} : tasks[i] \in Taken(o)

(* Every call of stop() comes to an end, or the process does, although stop()
   calls overlap and tasks go on to construct services. *)
StopSettles ==
  \A s \in Stops :
    stop[s].pc = "hooks" ~> (stop[s].pc \in {"done", "failed"} \/ ~ Up)

(* "Milliseconds between the starts of consecutive runs" (interval of
   ScheduledOptions): no task is fired by two timers.  FALSE: a task that is added
   while start() walks the list is scheduled by both. *)
OneTimerEach == \A t \in Tasks : timers[t] <= 1
=============================================================================
