------------------------------ MODULE JobQueue ------------------------------
(***************************************************************************)
(* The background job queue (src/src/jobs.ts) over its two stores: the     *)
(* memory store, which hands out the stored objects themselves, and the    *)
(* Redis hash (redisJobStore in src/src/redis.ts), which hands out copies. *)
(*                                                                         *)
(* A poller is one call of process() in progress.  setInterval starts a    *)
(* call whether or not the previous one has ended, and replicas that share *)
(* a Redis hash poll it too, so several pollers may be in progress.        *)
(*                                                                         *)
(* Time is kept as what is left of it: "wait" is how long a job still has  *)
(* to wait for its runAt, "age" how long ago a poller read its clock.  The *)
(* order of a batch by runAt is left out: a poller takes its jobs in any   *)
(* order.                                                                  *)
(***************************************************************************)
EXTENDS Integers

CONSTANTS
  Jobs,          \* the jobs that are enqueued; ids are unique (one seq per process)
  Pollers,       \* the calls of process() that may be in progress together
  MaxAttempts,   \* maxAttempts of every job
  MaxWait,       \* the longest delay or backoff
  Backoff,       \* Backoff[n]: how long to wait before attempt n
  Delays,        \* the delays that enqueue() is called with
  MaxCrashes     \* bound: how many crashes happen (Redis store only)

ASSUME JobsAssumption == Jobs # {}
ASSUME AttemptsAssumption == MaxAttempts \in Nat \ {0}
ASSUME TimesAssumption ==
  /\ MaxWait \in Nat
  /\ Delays \subseteq 0..MaxWait
  /\ Backoff \in [2..MaxAttempts -> 0..MaxWait]
ASSUME CrashAssumption == MaxCrashes \in Nat

VARIABLES
  shared,        \* TRUE: memory store, FALSE: Redis store; chosen once
  store,         \* the records of the store
  copy,          \* copy[p]: the records that the Redis store parsed for poller p
  poll,          \* where each poller is
  timer,         \* the interval of start() is installed
  enqueued,      \* history: the jobs enqueue() accepted
  ran,           \* history: for each job, how many attempts were begun
  won,           \* history: for each job, how many attempts succeeded
  crashes        \* how many crashes there were

vars == <<shared, store, copy, poll, timer, enqueued, ran, won, crashes>>

Statuses == {"absent", "pending", "completed", "failed"}
Record == [status : Statuses, attempts : Nat, wait : 0..MaxWait]
NoJob == [status |-> "absent", attempts |-> 0, wait |-> 0]

(* batch: the due jobs still to take; job: the one being run or saved. *)
Poller == [pc : {"idle", "take", "run", "save"}, batch : SUBSET Jobs,
           job : Jobs, age : 0..MaxWait]

Idle == [pc |-> "idle", batch |-> {}, job |-> CHOOSE j \in Jobs : TRUE, age |-> 0]

Init ==
  /\ shared \in BOOLEAN
  /\ store = [j \in Jobs |-> NoJob]
  /\ copy = [p \in Pollers |-> [j \in Jobs |-> NoJob]]
  /\ poll = [p \in Pollers |-> Idle]
  /\ timer = FALSE
  /\ enqueued = {}
  /\ ran = [j \in Jobs |-> 0]
  /\ won = [j \in Jobs |-> 0]
  /\ crashes = 0

-----------------------------------------------------------------------------
(* The job object that poller p works on, and what writing to it changes. *)
Object(p, j) == IF shared THEN store[j] ELSE copy[p][j]

Write(p, j, rec) ==
  IF shared THEN store' = [store EXCEPT ![j] = rec] /\ UNCHANGED copy
            ELSE copy' = [copy EXCEPT ![p][j] = rec] /\ UNCHANGED store

Max0(n) == IF n > 0 THEN n ELSE 0

(* enqueue(): a new job, pending after its delay. *)
Enqueue(j, d) ==
  /\ j \notin enqueued
  /\ enqueued' = enqueued \union {j}
  /\ store' = [store EXCEPT ![j] = [status |-> "pending", attempts |-> 0, wait |-> d]]
  /\ UNCHANGED <<copy, poll, timer, ran, won, crashes>>

(* start() and stop(): a call of process() in progress is not waited for. *)
Start ==
  /\ ~ timer
  /\ timer' = TRUE
  /\ UNCHANGED <<store, copy, poll, enqueued, ran, won, crashes>>

Stop ==
  /\ timer
  /\ timer' = FALSE
  /\ UNCHANGED <<store, copy, poll, enqueued, ran, won, crashes>>

(* Mutants of Due: the filter forgets runAt, or leaves out jobs that were tried
   before. *)
DueAnyTime == {j \in Jobs : store[j].status = "pending"}
DueFirstTry == {j \in Jobs : store[j] = [NoJob EXCEPT !.status = "pending"]}

(* The jobs that due() returns: pending and past their runAt. *)
Due == {j \in Jobs : store[j].status = "pending" /\ store[j].wait = 0}

(* The interval fires: process() reads the clock and the due jobs.  Nothing
   happens if there are none. *)
Poll(p) ==
  /\ timer
  /\ poll[p].pc = "idle"
  /\ Due # {}
  /\ poll' = [poll EXCEPT ![p].pc = "take", ![p].batch = Due, ![p].age = 0]
  /\ copy' = IF shared THEN copy
             ELSE [copy EXCEPT ![p] = [j \in Jobs |-> IF j \in Due THEN store[j] ELSE NoJob]]
  /\ UNCHANGED <<store, timer, enqueued, ran, won, crashes>>

(* The next job of the batch: its attempt is counted and its handler called.  The
   status is not looked at again.  A job without a handler fails at once, which
   is an attempt that ends in Fail. *)
Take(p, j) ==
  /\ poll[p].pc = "take"
  /\ j \in poll[p].batch
  /\ Write(p, j, [Object(p, j) EXCEPT !.attempts = @ + 1])
  /\ poll' = [poll EXCEPT ![p].pc = "run", ![p].batch = @ \ {j}, ![p].job = j]
  /\ ran' = [ran EXCEPT ![j] = @ + 1]
  /\ UNCHANGED <<timer, enqueued, won, crashes>>

(* The handler resolves. *)
Succeed(p) ==
  /\ poll[p].pc = "run"
  /\ LET j == poll[p].job IN
     /\ Write(p, j, [Object(p, j) EXCEPT !.status = "completed"])
     /\ won' = [won EXCEPT ![j] = @ + 1]
  /\ poll' = [poll EXCEPT ![p].pc = "save"]
  /\ UNCHANGED <<timer, enqueued, ran, crashes>>

(* Mutants of AfterFailure: a retry counts from the start; > for >=. *)
AfterFailureRestarts(rec, age) ==
  IF rec.attempts >= MaxAttempts
  THEN [rec EXCEPT !.status = "failed"]
  ELSE [rec EXCEPT !.wait = Max0(Backoff[rec.attempts + 1] - age), !.attempts = 0]
AfterFailureLate(rec, age) ==
  IF rec.attempts > MaxAttempts THEN [rec EXCEPT !.status = "failed"]
                                ELSE [rec EXCEPT !.wait = 0]

(* The record after a failed attempt, polled age ago. *)
AfterFailure(rec, age) ==
  IF rec.attempts >= MaxAttempts
  THEN [rec EXCEPT !.status = "failed"]
  ELSE [rec EXCEPT !.wait = Max0(Backoff[rec.attempts + 1] - age)]

(* The handler throws or rejects. *)
Fail(p) ==
  /\ poll[p].pc = "run"
  /\ LET j == poll[p].job IN
     Write(p, j, AfterFailure(Object(p, j), poll[p].age))
  /\ poll' = [poll EXCEPT ![p].pc = "save"]
  /\ UNCHANGED <<timer, enqueued, ran, won, crashes>>

(* Mutant of Save: every job that is no longer pending is dropped. *)
SaveDropsFailed(p) ==
  /\ poll[p].pc = "save"
  /\ LET j == poll[p].job IN
     /\ store' = [store EXCEPT ![j] = IF copy[p][j].status # "pending"
                                      THEN NoJob ELSE copy[p][j]]
     /\ copy' = [copy EXCEPT ![p][j] = NoJob]
  /\ poll' = [poll EXCEPT ![p] = IF poll[p].batch = {} THEN Idle
                                 ELSE [poll[p] EXCEPT !.pc = "take"]]
  /\ UNCHANGED <<timer, enqueued, ran, won, crashes>>

(* The store saves the job: the memory store holds the object already; the Redis
   store drops a completed job and overwrites any other. *)
Save(p) ==
  /\ poll[p].pc = "save"
  /\ LET j == poll[p].job IN
     IF shared THEN UNCHANGED <<store, copy>>
     ELSE /\ store' = [store EXCEPT ![j] = IF copy[p][j].status = "completed"
                                           THEN NoJob ELSE copy[p][j]]
          /\ copy' = [copy EXCEPT ![p][j] = NoJob]
  /\ poll' = [poll EXCEPT ![p] = IF poll[p].batch = {} THEN Idle
                                 ELSE [poll[p] EXCEPT !.pc = "take"]]
  /\ UNCHANGED <<timer, enqueued, ran, won, crashes>>

(* One unit of time passes, for the jobs in the store and for those in hand. *)
Tick ==
  /\ store' = [j \in Jobs |-> [store[j] EXCEPT !.wait = Max0(@ - 1)]]
  /\ copy' = [p \in Pollers |-> [j \in Jobs |-> [copy[p][j] EXCEPT !.wait = Max0(@ - 1)]]]
  /\ poll' = [p \in Pollers |->
                [poll[p] EXCEPT !.age = IF poll[p].pc # "idle" /\ @ < MaxWait THEN @ + 1 ELSE @]]
  /\ UNCHANGED <<timer, enqueued, ran, won, crashes>>

(* The process of poller p is killed and started again, or a Redis command it
   awaits rejects: its call of process() is over, the Redis hash stays. *)
Crash(p) ==
  /\ ~ shared
  /\ crashes < MaxCrashes
  /\ poll[p].pc # "idle"
  /\ crashes' = crashes + 1
  /\ poll' = [poll EXCEPT ![p] = Idle]
  /\ copy' = [copy EXCEPT ![p] = [j \in Jobs |-> NoJob]]
  /\ UNCHANGED <<store, timer, enqueued, ran, won>>

PollerStep(p) ==
  Poll(p) \/ (\E j \in Jobs : Take(p, j)) \/ Succeed(p) \/ Fail(p) \/ Save(p)

Next ==
  /\ \/ \E j \in Jobs, d \in Delays : Enqueue(j, d)
     \/ Start \/ Stop \/ Tick
     \/ \E p \in Pollers : PollerStep(p) \/ Crash(p)
  /\ UNCHANGED shared

Spec == Init /\ [][Next]_vars

(* Handlers return, the store answers, the interval fires and time passes. *)
FairSpec ==
  /\ Spec
  /\ WF_vars(Tick /\ UNCHANGED shared)
  /\ \A p \in Pollers : WF_vars(PollerStep(p) /\ UNCHANGED shared)

-----------------------------------------------------------------------------
(* Properties. *)

(* Every variable has its type: no backoff is negative or longer than MaxWait, and
   no record gets a status that JobStatus (jobs.ts) lacks. *)
TypeOK ==
  /\ shared \in BOOLEAN
  /\ store \in [Jobs -> Record]
  /\ copy \in [Pollers -> [Jobs -> Record]]
  /\ poll \in [Pollers -> Poller]
  /\ timer \in BOOLEAN
  /\ enqueued \subseteq Jobs
  /\ ran \in [Jobs -> Nat] /\ won \in [Jobs -> Nat]
  /\ crashes \in 0..MaxCrashes

(* Some poller runs job j or has yet to save it. *)
InHand(j) == \E p \in Pollers : poll[p].job = j /\ poll[p].pc \in {"run", "save"}

(* "attempts: How many times the handler has run" (Job, jobs.ts): so it is in the
   store, whenever no poller has the job in hand. *)
AttemptsCountRuns ==
  \A j \in Jobs : store[j].status # "absent" /\ ~ InHand(j) => store[j].attempts = ran[j]

(* A handler is called only for a job that is pending in the store and whose
   delay or backoff is over, although the poller read the job before it awaited
   the handlers of the jobs ahead of it. *)
RunsOnlyDue ==
  [][\A j \in Jobs : ran'[j] > ran[j] => store[j].status = "pending" /\ store[j].wait = 0]_vars

(* "pending until a handler succeeds or its attempts run out" (JobStatus,
   jobs.ts): a job that completed or failed stays as it is. *)
TerminalIsFinal ==
  [][\A j \in Jobs : /\ store[j].status = "completed" => store'[j].status \in {"completed", "absent"}
                     /\ store[j].status = "failed" => store'[j].status = "failed"
                     /\ won[j] > 0 => store'[j].status # "failed"]_vars

(* Whatever overlaps or crashes, a job leaves the store only after it succeeded,
   and is dead-lettered only after maxAttempts attempts. *)
NoJobLost ==
  \A j \in Jobs : /\ j \in enqueued /\ won[j] = 0 => store[j].status # "absent"
                  /\ store[j].status = "failed" => ran[j] >= MaxAttempts

(* While polling goes on, every job completes or is dead-lettered. *)
EveryJobSettles ==
  \A j \in Jobs :
    []<>(~ timer) \/ (store[j].status = "pending" ~> [](store[j].status # "pending"))

(* The queue implements the life cycle of each job: an attempt ends when the
   store shows its outcome. *)
JStatus == [j \in Jobs |-> IF j \in enqueued /\ store[j].status = "absent"
                           THEN "completed" ELSE store[j].status]
Unfinished(j) ==
  \E p \in Pollers : /\ poll[p].job = j
                     /\ poll[p].pc = "run" \/ (~ shared /\ poll[p].pc = "save")
JTries == [j \in Jobs |-> IF Unfinished(j) THEN ran[j] - 1 ELSE ran[j]]

Lifecycle == INSTANCE JobLifecycle WITH status <- JStatus, tries <- JTries
ImplementsLifecycle == Lifecycle!Spec
=============================================================================
