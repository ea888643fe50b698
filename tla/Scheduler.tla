----------------------------- MODULE Scheduler -----------------------------
(***************************************************************************)
(* The Scheduler of an application: the tasks that @scheduled services     *)
(* register, and their interval timers (src/src/scheduling.ts).  start()   *)
(* and schedule() run a task at once when it asks for runOnStart, so the   *)
(* code of a task runs in the middle of both, and it may construct the     *)
(* next service, which registers its own task.                             *)
(***************************************************************************)
EXTENDS Naturals, SequencesExt

CONSTANTS
  Tasks,       \* one task per service: a service is constructed at most once
  OnStart      \* the tasks with runOnStart

ASSUME OnStartAssumption == OnStart \subseteq Tasks

VARIABLES
  tasks,       \* the registered tasks, in the order of registration
  timers,      \* for each task, how many interval timers it has
  started,
  walk,        \* the index start() comes to next, 0 when start() is not running
  calls        \* the runs of tasks on the call stack, innermost last

schedulerVars == <<tasks, timers, started, walk, calls>>

(* A run is called by schedule(), which then sets the interval, or by a timer. *)
Call == [task : Tasks, by : {"schedule", "timer"}]

Init ==
  /\ tasks = <<>>
  /\ timers = [t \in Tasks |-> 0]
  /\ started = FALSE
  /\ walk = 0
  /\ calls = <<>>

Registered == {tasks[i] : i \in 1..Len(tasks)}

(* Code of the scheduler is on the call stack: nothing else runs. *)
Running == walk > 0 \/ calls # <<>>

(* The event loop is free, or a run is at a point where it may call anything. *)
MayCall == ~ Running \/ calls # <<>>

(* start() is on the call stack, or a schedule() is. *)
Starting == walk > 0 \/ \E i \in 1..Len(calls) : calls[i].by = "schedule"

Invoke(t, by) == calls' = Append(calls, [task |-> t, by |-> by])

SetInterval(t) == timers' = [timers EXCEPT ![t] = @ + 1]

(* schedule(): the run comes first, then the interval is set. *)
Schedule(t) ==
  \/ /\ t \in OnStart
     /\ Invoke(t, "schedule")
     /\ UNCHANGED timers
  \/ /\ t \notin OnStart
     /\ SetInterval(t)
     /\ UNCHANGED calls

(* Mutant of Add: a task that is added while the scheduler is started waits for the
   next start(). *)
AddOnlyRegisters(t) ==
  /\ t \notin Registered
  /\ tasks' = Append(tasks, t)
  /\ UNCHANGED <<timers, started, walk, calls>>

(* The service of t is constructed and schedulingProcessor registers its task. *)
Add(t) ==
  /\ t \notin Registered
  /\ tasks' = Append(tasks, t)
  /\ \/ started /\ Schedule(t)
     \/ ~ started /\ UNCHANGED <<timers, calls>>
  /\ UNCHANGED <<started, walk>>

Start ==
  /\ ~ started
  /\ started' = TRUE
  /\ walk' = 1
  /\ UNCHANGED <<tasks, timers, calls>>

(* The loop of start() looks at the tasks there are when it gets to them. *)
Walk ==
  /\ walk \in 1..Len(tasks) /\ calls = <<>>
  /\ Schedule(tasks[walk])
  /\ walk' = walk + 1
  /\ UNCHANGED <<tasks, started>>

Walked ==
  /\ walk > Len(tasks) /\ calls = <<>>
  /\ walk' = 0
  /\ UNCHANGED <<tasks, timers, started, calls>>

(* The innermost run returns, throws or gives a promise: all the same here. *)
Return ==
  /\ calls # <<>>
  /\ calls' = Front(calls)
  /\ \/ Last(calls).by = "schedule" /\ SetInterval(Last(calls).task)
     \/ Last(calls).by = "timer" /\ UNCHANGED timers
  /\ UNCHANGED <<tasks, started, walk>>

Tick(t) ==
  /\ ~ Running
  /\ timers[t] > 0
  /\ Invoke(t, "timer")
  /\ UNCHANGED <<tasks, timers, started, walk>>

(* Mutant of Stop: the scheduler stays marked as started. *)
StopStaysStarted ==
  /\ timers' = [t \in Tasks |-> 0]
  /\ UNCHANGED <<tasks, started, walk, calls>>

Stop ==
  /\ timers' = [t \in Tasks |-> 0]
  /\ started' = FALSE
  /\ UNCHANGED <<tasks, walk, calls>>
=============================================================================
