--------------------------- MODULE JobQueue_proofs ---------------------------
(* Proofs about JobQueue, for any jobs, pollers, limits and either store. *)
EXTENDS JobQueue, TLAPS

(* What every record of job j says truthfully, whoever holds it. *)
Truthful(rec, j) ==
  /\ rec.attempts <= ran[j]
  /\ rec.status = "completed" => won[j] > 0
  /\ rec.status = "failed" => rec.attempts >= MaxAttempts

(* The jobs that poller p has read and not yet saved. *)
Held(p) == poll[p].batch \union
             (IF poll[p].pc \in {"run", "save"} THEN {poll[p].job} ELSE {})

(* What every poller knows of the jobs it holds. *)
PollerInv ==
  \A p \in Pollers :
    /\ Held(p) \subseteq enqueued
    /\ poll[p].pc \in {"run", "save"} => poll[p].job \notin poll[p].batch
    /\ \A j \in Held(p) : Object(p, j).status # "absent"
    /\ poll[p].pc = "run" => Object(p, poll[p].job).attempts >= 1

StoreInv ==
  \A j \in Jobs :
    /\ j \notin enqueued => store[j].status = "absent"
    /\ j \in enqueued /\ won[j] = 0 => store[j].status # "absent"
    /\ Truthful(store[j], j)
    /\ \A p \in Pollers : Truthful(copy[p][j], j)

(* With the memory store no job ever leaves the store. *)
MemoryInv == shared => \A j \in enqueued : store[j].status # "absent"

IndInv == TypeOK /\ PollerInv /\ StoreInv /\ MemoryInv

-----------------------------------------------------------------------------
(* The records that the actions write. *)
LEMMA CountedRecord ==
  ASSUME NEW rec \in Record
  PROVE  LET new == [rec EXCEPT !.attempts = @ + 1] IN
         /\ new \in Record
         /\ new.status = rec.status /\ new.attempts = rec.attempts + 1
BY DEF Record

LEMMA CompletedRecord ==
  ASSUME NEW rec \in Record
  PROVE  LET new == [rec EXCEPT !.status = "completed"] IN
         /\ new \in Record
         /\ new.status = "completed" /\ new.attempts = rec.attempts
BY DEF Record, Statuses

LEMMA FailedRecord ==
  ASSUME NEW rec \in Record, rec.attempts >= 1, NEW age \in 0..MaxWait
  PROVE  LET new == AfterFailure(rec, age) IN
         /\ new \in Record /\ new.attempts = rec.attempts
         /\ \/ new.status = "failed" /\ rec.attempts >= MaxAttempts
            \/ new.status = rec.status /\ rec.attempts < MaxAttempts
<1>1. CASE rec.attempts >= MaxAttempts
  BY <1>1 DEF AfterFailure, Record, Statuses
<1>2. CASE ~ rec.attempts >= MaxAttempts
  <2>1. rec.attempts + 1 \in 2..MaxAttempts /\ rec.attempts < MaxAttempts
    BY <1>2, AttemptsAssumption DEF Record
  <2>2. Max0(Backoff[rec.attempts + 1] - age) \in 0..MaxWait
    BY <2>1, TimesAssumption DEF Max0
  <2>. QED
    BY <1>2, <2>1, <2>2 DEF AfterFailure, Record
<1>. QED
  BY <1>1, <1>2

LEMMA TickedRecord ==
  ASSUME NEW rec \in Record
  PROVE  LET new == [rec EXCEPT !.wait = Max0(@ - 1)] IN
         /\ new \in Record
         /\ new.status = rec.status /\ new.attempts = rec.attempts
<1>1. Max0(rec.wait - 1) \in 0..MaxWait
  BY TimesAssumption DEF Record, Max0
<1>. QED
  BY <1>1 DEF Record

(* What Write changes. *)
LEMMA Written ==
  ASSUME TypeOK, NEW p \in Pollers, NEW j \in Jobs, NEW rec \in Record, Write(p, j, rec),
         shared' = shared
  PROVE  /\ store' \in [Jobs -> Record] /\ copy' \in [Pollers -> [Jobs -> Record]]
         /\ \A i \in Jobs : store'[i] = store[i] \/ (i = j /\ store'[i] = rec)
         /\ \A i \in Jobs, o \in Pollers :
              copy'[o][i] = copy[o][i] \/ (i = j /\ copy'[o][i] = rec)
         /\ Object(p, j)' = rec
         /\ \A i \in Jobs, o \in Pollers :
              Object(o, i)' = Object(o, i) \/ (i = j /\ Object(o, i)' = rec)
<1>1. CASE shared
  BY <1>1 DEF Write, TypeOK, Object
<1>2. CASE ~ shared
  <2>1. copy[p] \in [Jobs -> Record]
    BY DEF TypeOK
  <2>2. PICK row \in [Jobs -> Record] : row = [copy[p] EXCEPT ![j] = rec]
    BY <2>1
  <2>3. copy' = [copy EXCEPT ![p] = row] /\ store' = store
    BY <1>2, <2>2 DEF Write, TypeOK
  <2>4. row[j] = rec /\ \A i \in Jobs \ {j} : row[i] = copy[p][i]
    BY <2>1, <2>2
  <2>. QED
    BY <1>2, <2>2, <2>3, <2>4 DEF TypeOK, Object
<1>. QED
  BY <1>1, <1>2

-----------------------------------------------------------------------------
LEMMA InitEstablishes == Init => IndInv
<1> SUFFICES ASSUME Init PROVE IndInv
  OBVIOUS
<1>1. NoJob \in Record /\ NoJob.status = "absent" /\ NoJob.attempts = 0
  BY TimesAssumption DEF NoJob, Record, Statuses
<1>2. Idle \in Poller /\ Idle.batch = {} /\ Idle.pc = "idle"
  BY JobsAssumption, TimesAssumption DEF Idle, Poller
<1>3. [j \in Jobs |-> NoJob] \in [Jobs -> Record]
  BY <1>1
<1>3a. store \in [Jobs -> Record] /\ copy \in [Pollers -> [Jobs -> Record]]
  BY <1>3 DEF Init
<1>3b. TypeOK
  <2>1. poll \in [Pollers -> Poller]
    BY <1>2 DEF Init
  <2>2. ran \in [Jobs -> Nat] /\ won \in [Jobs -> Nat] /\ crashes \in 0..MaxCrashes
    BY CrashAssumption DEF Init
  <2>3. shared \in BOOLEAN /\ timer \in BOOLEAN /\ enqueued \subseteq Jobs
    BY DEF Init
  <2>. QED
    BY <1>3a, <2>1, <2>2, <2>3 DEF TypeOK
<1>4. PollerInv
  BY <1>2 DEF Init, PollerInv, Held
<1>5. StoreInv /\ MemoryInv
  BY <1>1 DEF Init, StoreInv, MemoryInv, Truthful
<1>. QED
  BY <1>3b, <1>4, <1>5 DEF IndInv

LEMMA EnqueuePreserves ==
  ASSUME IndInv, NEW j \in Jobs, NEW d \in Delays, Enqueue(j, d), shared' = shared
  PROVE  IndInv'
<1> USE DEF IndInv
<1>0. [status |-> "pending", attempts |-> 0, wait |-> d] \in Record
  BY TimesAssumption DEF Record, Statuses
<1>1. PICK rec \in Record : /\ store' = [store EXCEPT ![j] = rec]
                           /\ rec.status = "pending" /\ rec.attempts = 0
  BY <1>0 DEF Enqueue
<1>2. TypeOK'
  BY <1>1 DEF Enqueue, TypeOK
<1>3. PollerInv'
  BY <1>1 DEF Enqueue, PollerInv, Held, Object, TypeOK
<1>4. StoreInv'
  BY <1>1 DEF Enqueue, StoreInv, Truthful, TypeOK
<1>5. MemoryInv'
  BY <1>1 DEF Enqueue, MemoryInv, TypeOK
<1>. QED
  BY <1>2, <1>3, <1>4, <1>5

LEMMA PollPreserves ==
  ASSUME IndInv, NEW p \in Pollers, Poll(p), shared' = shared
  PROVE  IndInv'
<1> USE DEF IndInv
<1> DEFINE rows == [j \in Jobs |-> IF j \in Due THEN store[j] ELSE NoJob]
<1>1. NoJob \in Record /\ NoJob.status = "absent" /\ NoJob.attempts = 0
  BY TimesAssumption DEF NoJob, Record, Statuses
<1>2. /\ poll' \in [Pollers -> Poller]
      /\ poll'[p].pc = "take" /\ poll'[p].batch = Due
      /\ \A o \in Pollers \ {p} : poll'[o] = poll[o]
  <2>1. PICK row : row = [poll[p] EXCEPT !.pc = "take", !.batch = Due, !.age = 0]
    OBVIOUS
  <2>2. row \in Poller /\ row.pc = "take" /\ row.batch = Due
    <3>1. poll[p] \in Poller /\ Due \in SUBSET Jobs /\ 0 \in 0..MaxWait
      BY TimesAssumption DEF TypeOK, Due
    <3>. QED
      BY <2>1, <3>1 DEF Poller
  <2>3. poll' = [poll EXCEPT ![p] = row]
    BY <2>1 DEF Poll, TypeOK
  <2>. QED
    BY <2>2, <2>3 DEF TypeOK
<1>3. /\ copy' \in [Pollers -> [Jobs -> Record]]
      /\ shared => copy' = copy
      /\ ~ shared => \A j \in Jobs : copy'[p][j] = IF j \in Due THEN store[j] ELSE NoJob
      /\ \A o \in Pollers \ {p} : copy'[o] = copy[o]
  <2>1. rows \in [Jobs -> Record]
    BY <1>1 DEF TypeOK
  <2>. QED
    BY <2>1 DEF Poll, TypeOK
<1>4. store' = store /\ UNCHANGED <<timer, enqueued, ran, won, crashes>>
  BY DEF Poll
<1>5. TypeOK'
  BY <1>2, <1>3, <1>4 DEF TypeOK
<1>6. \A j \in Due : j \in enqueued /\ store[j].status = "pending"
  BY DEF Due, StoreInv
<1>7. PollerInv'
  <2>1. Held(p)' = Due /\ \A o \in Pollers \ {p} : Held(o)' = Held(o)
    BY <1>2 DEF Held
  <2>2. \A o \in Pollers \ {p}, j \in Jobs : Object(o, j)' = Object(o, j)
    BY <1>3, <1>4 DEF Object
  <2>3. \A j \in Due : Object(p, j)'.status = "pending"
    BY <1>3, <1>4, <1>6 DEF Object, Due
  <2>4. \A o \in Pollers : Held(o) \subseteq Jobs /\ poll[o].job \in Jobs
    BY DEF Held, TypeOK, Poller
  <2>. QED
    BY <1>2, <1>4, <1>6, <2>1, <2>2, <2>3, <2>4 DEF PollerInv
<1>8. StoreInv' /\ MemoryInv'
  <2>1. \A j \in Jobs, o \in Pollers : copy'[o][j] \in {copy[o][j], store[j], NoJob}
    BY <1>3
  <2>2. \A j \in Jobs : Truthful(NoJob, j)
    BY <1>1 DEF Truthful, TypeOK
  <2>3. \A j \in Jobs, o \in Pollers : Truthful(copy'[o][j], j)
    BY <2>1, <2>2 DEF StoreInv
  <2>. QED
    BY <1>4, <2>3 DEF StoreInv, MemoryInv, Truthful
<1>. QED
  BY <1>5, <1>7, <1>8

(* The steps of a poller that writes rec to the job in hand. *)
LEMMA WritePreserves ==
  ASSUME IndInv, NEW p \in Pollers, NEW j \in Jobs, NEW rec \in Record, Write(p, j, rec),
         j \in Held(p), rec.status # "absent", rec.attempts >= 1, Truthful(rec, j)',
         ran' \in [Jobs -> Nat], \A i \in Jobs : ran'[i] >= ran[i],
         won' \in [Jobs -> Nat], \A i \in Jobs : won'[i] >= won[i],
         UNCHANGED <<shared, timer, enqueued, crashes>>,
         poll' \in [Pollers -> Poller],
         poll'[p].pc \in {"run", "save"}, poll'[p].job = j,
         poll'[p].batch = poll[p].batch \ {j},
         Held(p)' = Held(p),
         \A o \in Pollers \ {p} : poll'[o] = poll[o]
  PROVE  IndInv'
<1> USE DEF IndInv
<1>1. TypeOK'
  BY Written DEF TypeOK
<1>2. \A o \in Pollers : /\ Held(o)' = Held(o)
                         /\ Held(o) \subseteq Jobs /\ poll[o].job \in Jobs
  BY DEF Held, TypeOK, Poller
<1>3. /\ Object(p, j)' = rec
      /\ \A i \in Jobs, o \in Pollers :
           Object(o, i)' = Object(o, i) \/ (i = j /\ Object(o, i)' = rec)
  BY Written
<1>4. PollerInv'
  <2> SUFFICES ASSUME NEW o \in Pollers
               PROVE  /\ Held(o)' \subseteq enqueued'
                      /\ poll'[o].pc \in {"run", "save"} => poll'[o].job \notin poll'[o].batch
                      /\ \A i \in Held(o)' : Object(o, i)'.status # "absent"
                      /\ poll'[o].pc = "run" => Object(o, poll[o].job)'.attempts >= 1
    BY DEF PollerInv
  <2>1. Held(o)' \subseteq enqueued' /\ \A i \in Held(o)' : Object(o, i)'.status # "absent"
    BY <1>2, <1>3 DEF PollerInv
  <2>2. poll'[o].pc \in {"run", "save"} => poll'[o].job \notin poll'[o].batch
    BY DEF PollerInv
  <2>3. poll'[o].pc = "run" => Object(o, poll[o].job)'.attempts >= 1
    BY <1>2, <1>3 DEF PollerInv
  <2>. QED
    BY <2>1, <2>2, <2>3
<1>5. StoreInv'
  <2> SUFFICES ASSUME NEW i \in Jobs
               PROVE  /\ i \notin enqueued' => store'[i].status = "absent"
                      /\ i \in enqueued' /\ won'[i] = 0 => store'[i].status # "absent"
                      /\ Truthful(store[i], i)'
                      /\ \A o \in Pollers : Truthful(copy[o][i], i)'
    BY DEF StoreInv
  <2>1. store'[i] = store[i] \/ (i = j /\ store'[i] = rec)
    BY Written
  <2>2. \A o \in Pollers : copy'[o][i] = copy[o][i] \/ (i = j /\ copy'[o][i] = rec)
    BY Written
  <2>3. ASSUME NEW r \in Record, Truthful(r, i) PROVE Truthful(r, i)'
    BY <2>3, <1>1 DEF Truthful, TypeOK, Record
  <2>4. j \in enqueued /\ won[i] \in Nat /\ won'[i] \in Nat
    BY DEF PollerInv, TypeOK
  <2>5. Truthful(store[i], i)'
    BY <2>1, <2>3 DEF StoreInv, TypeOK, Truthful
  <2>6. \A o \in Pollers : Truthful(copy[o][i], i)'
    <3> TAKE o \in Pollers
    <3>1. copy[o][i] \in Record /\ Truthful(copy[o][i], i)
      BY DEF StoreInv, TypeOK
    <3>2. copy'[o][i] = copy[o][i] \/ (i = j /\ copy'[o][i] = rec)
      BY <2>2
    <3>. QED
      BY <2>3, <3>1, <3>2 DEF Truthful
  <2>. QED
    BY <2>1, <2>4, <2>5, <2>6 DEF StoreInv
<1>6. MemoryInv'
  BY Written DEF MemoryInv, TypeOK
<1>. QED
  BY <1>1, <1>4, <1>5, <1>6

LEMMA TakePreserves ==
  ASSUME IndInv, NEW p \in Pollers, NEW j \in Jobs, Take(p, j), shared' = shared
  PROVE  IndInv'
<1> USE DEF IndInv
<1>1. /\ Object(p, j) \in Record /\ j \in Held(p) /\ Object(p, j).status # "absent"
      /\ Truthful(Object(p, j), j)
  BY DEF TypeOK, Object, Take, Held, StoreInv, PollerInv
<1>2. PICK rec \in Record :
        /\ Write(p, j, rec)
        /\ rec.status = Object(p, j).status /\ rec.attempts = Object(p, j).attempts + 1
  BY <1>1, CountedRecord DEF Take
<1>3. /\ poll' \in [Pollers -> Poller]
      /\ poll'[p].pc = "run" /\ poll'[p].batch = poll[p].batch \ {j} /\ poll'[p].job = j
      /\ \A o \in Pollers \ {p} : poll'[o] = poll[o]
  <2>1. PICK new \in Poller :
          /\ new = [poll[p] EXCEPT !.pc = "run", !.batch = @ \ {j}, !.job = j]
          /\ new.pc = "run" /\ new.batch = poll[p].batch \ {j} /\ new.job = j
    <3>1. poll[p] \in Poller
      BY DEF TypeOK
    <3>2. [poll[p] EXCEPT !.pc = "run", !.batch = @ \ {j}, !.job = j] \in Poller
      BY <3>1 DEF Poller
    <3>. QED
      BY <3>1, <3>2 DEF Poller
  <2>2. poll' = [poll EXCEPT ![p] = new]
    BY <2>1 DEF Take
  <2>. QED
    BY <2>1, <2>2 DEF TypeOK
<1>4. /\ ran' \in [Jobs -> Nat] /\ ran'[j] = ran[j] + 1
      /\ \A i \in Jobs : ran'[i] >= ran[i]
      /\ won \in [Jobs -> Nat] /\ \A i \in Jobs : won[i] >= won[i]
      /\ UNCHANGED <<timer, enqueued, won, crashes>>
  BY DEF Take, TypeOK
<1>5. Held(p)' = Held(p)
  BY <1>1, <1>3 DEF Held, Take
<1>6. rec.attempts >= 1 /\ Truthful(rec, j)'
  BY <1>1, <1>2, <1>4, AttemptsAssumption DEF Truthful, Record, TypeOK
<1>. QED
  BY <1>1, <1>2, <1>3, <1>4, <1>5, <1>6, WritePreserves

(* What Succeed and Fail have in common. *)
LEMMA RunEnds ==
  ASSUME IndInv, NEW p \in Pollers, poll[p].pc = "run",
         poll' = [poll EXCEPT ![p].pc = "save"]
  PROVE  /\ poll[p].job \in Jobs /\ poll[p].job \in Held(p)
         /\ Object(p, poll[p].job) \in Record
         /\ Object(p, poll[p].job).status # "absent"
         /\ Object(p, poll[p].job).attempts >= 1
         /\ Truthful(Object(p, poll[p].job), poll[p].job)
         /\ poll' \in [Pollers -> Poller]
         /\ poll'[p].pc = "save" /\ poll'[p].job = poll[p].job
         /\ poll'[p].batch = poll[p].batch \ {poll[p].job}
         /\ Held(p)' = Held(p)
         /\ \A o \in Pollers \ {p} : poll'[o] = poll[o]
<1> USE DEF IndInv
<1>1. /\ poll[p].job \in Jobs /\ poll[p].job \in Held(p)
      /\ Object(p, poll[p].job) \in Record
      /\ Truthful(Object(p, poll[p].job), poll[p].job)
  BY DEF TypeOK, Poller, Object, Held, StoreInv
<1>2. /\ Object(p, poll[p].job).status # "absent" /\ Object(p, poll[p].job).attempts >= 1
      /\ poll[p].job \notin poll[p].batch
  BY <1>1 DEF PollerInv
<1>3. /\ poll' \in [Pollers -> Poller]
      /\ poll'[p].pc = "save" /\ poll'[p].job = poll[p].job
      /\ poll'[p].batch = poll[p].batch
      /\ \A o \in Pollers \ {p} : poll'[o] = poll[o]
  BY DEF TypeOK, Poller
<1>4. Held(p)' = Held(p)
  BY <1>3 DEF Held
<1>. QED
  BY <1>1, <1>2, <1>3, <1>4

LEMMA SucceedPreserves ==
  ASSUME IndInv, NEW p \in Pollers, Succeed(p), shared' = shared
  PROVE  IndInv'
<1>1. poll[p].pc = "run" /\ poll' = [poll EXCEPT ![p].pc = "save"]
  BY DEF Succeed
<1>0. PICK j \in Jobs : j = poll[p].job
  BY <1>1, RunEnds
<1>2. PICK rec \in Record : /\ Write(p, j, rec)
                           /\ rec.status = "completed" /\ rec.attempts = Object(p, j).attempts
  BY <1>0, <1>1, RunEnds, CompletedRecord DEF Succeed
<1>3. /\ won' \in [Jobs -> Nat] /\ won'[j] > 0
      /\ \A i \in Jobs : won'[i] >= won[i]
      /\ ran \in [Jobs -> Nat] /\ \A i \in Jobs : ran[i] >= ran[i]
      /\ UNCHANGED <<timer, enqueued, ran, crashes>>
  <2>1. j \in Jobs /\ won \in [Jobs -> Nat] /\ ran \in [Jobs -> Nat]
    BY <1>0, <1>1, RunEnds DEF TypeOK, IndInv
  <2>2. won' = [won EXCEPT ![j] = @ + 1] /\ UNCHANGED <<timer, enqueued, ran, crashes>>
    BY <1>0 DEF Succeed
  <2>. QED
    BY <1>0, <2>1, <2>2
<1>4. Truthful(rec, j)'
  BY <1>0, <1>1, <1>2, <1>3, RunEnds DEF Truthful
<1>5. /\ j \in Jobs /\ j \in Held(p)
      /\ rec.status # "absent" /\ rec.attempts >= 1
      /\ poll' \in [Pollers -> Poller]
      /\ poll'[p].pc \in {"run", "save"} /\ poll'[p].job = j
      /\ poll'[p].batch = poll[p].batch \ {j}
      /\ Held(p)' = Held(p)
      /\ \A o \in Pollers \ {p} : poll'[o] = poll[o]
  BY <1>0, <1>1, <1>2, RunEnds
<1>6. /\ ran' \in [Jobs -> Nat] /\ \A i \in Jobs : ran'[i] >= ran[i]
      /\ won' \in [Jobs -> Nat] /\ \A i \in Jobs : won'[i] >= won[i]
      /\ UNCHANGED <<shared, timer, enqueued, crashes>>
  BY <1>0, <1>3
<1>. QED
  BY <1>0, <1>2, <1>4, <1>5, <1>6, WritePreserves

LEMMA FailPreserves ==
  ASSUME IndInv, NEW p \in Pollers, Fail(p), shared' = shared
  PROVE  IndInv'
<1>1. poll[p].pc = "run" /\ poll' = [poll EXCEPT ![p].pc = "save"]
  BY DEF Fail
<1>0. PICK j \in Jobs : j = poll[p].job
  BY <1>1, RunEnds
<1>2. poll[p].age \in 0..MaxWait
  BY <1>0 DEF IndInv, TypeOK, Poller
<1>3. PICK rec \in Record :
        /\ Write(p, j, rec) /\ rec.attempts = Object(p, j).attempts
        /\ \/ rec.status = "failed" /\ rec.attempts >= MaxAttempts
           \/ rec.status = Object(p, j).status
  <2>1. Object(p, j) \in Record /\ Object(p, j).attempts >= 1
    BY <1>0, <1>1, RunEnds
  <2>2. Write(p, j, AfterFailure(Object(p, j), poll[p].age))
    BY <1>0 DEF Fail
  <2>3. \A rec \in Record, age \in 0..MaxWait : rec.attempts >= 1 =>
          LET new == AfterFailure(rec, age) IN
          /\ new \in Record /\ new.attempts = rec.attempts
          /\ \/ new.status = "failed" /\ rec.attempts >= MaxAttempts
             \/ new.status = rec.status
    BY FailedRecord
  <2>. QED
    BY <1>0, <1>2, <2>1, <2>2, <2>3
<1>4. /\ ran \in [Jobs -> Nat] /\ \A i \in Jobs : ran[i] >= ran[i]
      /\ won \in [Jobs -> Nat] /\ \A i \in Jobs : won[i] >= won[i]
      /\ UNCHANGED <<timer, enqueued, ran, won, crashes>>
  BY <1>0 DEF Fail, TypeOK, IndInv
<1>5. Truthful(rec, j)'
  BY <1>0, <1>1, <1>3, <1>4, RunEnds DEF Truthful
<1>6. /\ j \in Jobs /\ j \in Held(p)
      /\ rec.status # "absent" /\ rec.attempts >= 1
      /\ poll' \in [Pollers -> Poller]
      /\ poll'[p].pc \in {"run", "save"} /\ poll'[p].job = j
      /\ poll'[p].batch = poll[p].batch \ {j}
      /\ Held(p)' = Held(p)
      /\ \A o \in Pollers \ {p} : poll'[o] = poll[o]
  BY <1>0, <1>1, <1>3, RunEnds
<1>7. /\ ran' \in [Jobs -> Nat] /\ \A i \in Jobs : ran'[i] >= ran[i]
      /\ won' \in [Jobs -> Nat] /\ \A i \in Jobs : won'[i] >= won[i]
      /\ UNCHANGED <<shared, timer, enqueued, crashes>>
  BY <1>0, <1>4
<1>. QED
  BY <1>0, <1>3, <1>5, <1>6, <1>7, WritePreserves

LEMMA SavePreserves ==
  ASSUME IndInv, NEW p \in Pollers, Save(p), shared' = shared
  PROVE  IndInv'
<1> USE DEF IndInv
<1> DEFINE j == poll[p].job
<1>0. NoJob \in Record /\ NoJob.status = "absent" /\ NoJob.attempts = 0
  BY TimesAssumption DEF NoJob, Record, Statuses
<1>1. /\ poll[p].pc = "save" /\ j \in Jobs /\ j \in Held(p) /\ j \notin poll[p].batch
      /\ UNCHANGED <<timer, enqueued, ran, won, crashes>>
  BY DEF Save, Held, TypeOK, Poller, PollerInv
<1>2. /\ poll' \in [Pollers -> Poller]
      /\ poll'[p].pc \in {"idle", "take"} /\ Held(p)' = poll[p].batch
      /\ \A o \in Pollers \ {p} : poll'[o] = poll[o]
  <2>1. CASE poll[p].batch = {}
    <3>1. Idle \in Poller /\ Idle.batch = {} /\ Idle.pc = "idle"
      BY JobsAssumption, TimesAssumption DEF Idle, Poller
    <3>2. poll' = [poll EXCEPT ![p] = Idle]
      BY <2>1 DEF Save
    <3>. QED
      BY <2>1, <3>1, <3>2 DEF Held, TypeOK
  <2>2. CASE poll[p].batch # {}
    <3>1. poll' = [poll EXCEPT ![p] = [poll[p] EXCEPT !.pc = "take"]]
      BY <2>2 DEF Save
    <3>2. PICK row \in Poller : row = [poll[p] EXCEPT !.pc = "take"]
      BY DEF TypeOK, Poller
    <3>3. row.pc = "take" /\ row.batch = poll[p].batch
      BY <3>2 DEF TypeOK, Poller
    <3>. QED
      BY <3>1, <3>2, <3>3 DEF Held, TypeOK
  <2>. QED
    BY <2>1, <2>2
<1>3. \A o \in Pollers \ {p} : Held(o)' = Held(o)
  BY <1>2 DEF Held
<1>4. CASE shared
  <2>1. store' = store /\ copy' = copy
    BY <1>4 DEF Save
  <2>2. TypeOK'
    BY <1>1, <1>2, <2>1 DEF TypeOK
  <2>3. PollerInv'
    BY <1>1, <1>2, <1>3, <2>1 DEF PollerInv, Held, Object
  <2>4. StoreInv' /\ MemoryInv'
    BY <1>1, <2>1 DEF StoreInv, MemoryInv, Truthful
  <2>. QED
    BY <2>2, <2>3, <2>4
<1>5. CASE ~ shared
  <2>1. /\ copy[p] \in [Jobs -> Record] /\ copy[p][j] \in Record
        /\ copy[p][j].status # "absent" /\ Truthful(copy[p][j], j)
    BY <1>1, <1>5 DEF TypeOK, PollerInv, StoreInv, Object
  <2>2. PICK saved \in Record :
          /\ saved = IF copy[p][j].status = "completed" THEN NoJob ELSE copy[p][j]
          /\ store' = [store EXCEPT ![j] = saved]
    BY <1>0, <1>5, <2>1 DEF Save
  <2>3. PICK row \in [Jobs -> Record] :
          /\ row[j] = NoJob /\ \A i \in Jobs \ {j} : row[i] = copy[p][i]
          /\ copy' = [copy EXCEPT ![p] = row]
    <3>1. [copy[p] EXCEPT ![j] = NoJob] \in [Jobs -> Record]
      BY <1>0, <2>1
    <3>2. copy' = [copy EXCEPT ![p] = [copy[p] EXCEPT ![j] = NoJob]]
      BY <1>5 DEF Save, TypeOK
    <3>. QED
      BY <1>1, <2>1, <3>1, <3>2
  <2>4. TypeOK'
    BY <1>1, <1>2, <2>2, <2>3 DEF TypeOK
  <2>5. PollerInv'
    <3>1. \A o \in Pollers, i \in Jobs : <<o, i>> # <<p, j>> => Object(o, i)' = Object(o, i)
      BY <1>5, <2>3 DEF Object, TypeOK
    <3>2. \A o \in Pollers : Held(o) \subseteq Jobs /\ poll[o].job \in Jobs
      BY DEF Held, TypeOK, Poller
    <3>3. Held(p)' \subseteq Held(p) \ {j}
      BY <1>1, <1>2 DEF Held
    <3>. QED
      BY <1>1, <1>2, <1>3, <3>1, <3>2, <3>3 DEF PollerInv
  <2>6. StoreInv'
    <3>1. Truthful(saved, j) /\ Truthful(NoJob, j)
      BY <1>0, <1>1, <2>1, <2>2 DEF Truthful, TypeOK
    <3>2. won[j] = 0 => saved.status # "absent"
      BY <2>1, <2>2 DEF Truthful
    <3>3. \A i \in Jobs : store'[i] = IF i = j THEN saved ELSE store[i]
      BY <1>1, <2>2 DEF TypeOK
    <3>4. \A i \in Jobs, o \in Pollers :
            copy'[o][i] = copy[o][i] \/ (i = j /\ copy'[o][i] = NoJob)
      BY <2>3 DEF TypeOK
    <3>5. j \in enqueued
      BY <1>1 DEF PollerInv
    <3>6. \A i \in Jobs : Truthful(store'[i], i)
      BY <3>1, <3>3 DEF StoreInv
    <3>7. \A i \in Jobs, o \in Pollers : Truthful(copy'[o][i], i)
      BY <3>1, <3>4 DEF StoreInv
    <3>. QED
      BY <1>1, <3>2, <3>3, <3>5, <3>6, <3>7 DEF StoreInv, Truthful
  <2>. QED
    BY <1>5, <2>4, <2>5, <2>6 DEF MemoryInv
<1>. QED
  BY <1>4, <1>5

LEMMA TickPreserves ==
  ASSUME IndInv, Tick, shared' = shared
  PROVE  IndInv'
<1> USE DEF IndInv
<1>1. \A rec \in Record : LET new == [rec EXCEPT !.wait = Max0(@ - 1)] IN
        new \in Record /\ new.status = rec.status /\ new.attempts = rec.attempts
  BY TickedRecord
<1>2. UNCHANGED <<timer, enqueued, ran, won, crashes>>
  BY DEF Tick
<1>3. /\ store' \in [Jobs -> Record]
      /\ \A j \in Jobs : /\ store'[j].status = store[j].status
                         /\ store'[j].attempts = store[j].attempts
  BY <1>1 DEF Tick, TypeOK
<1>4. /\ copy' \in [Pollers -> [Jobs -> Record]]
      /\ \A p \in Pollers, j \in Jobs : /\ copy'[p][j].status = copy[p][j].status
                                        /\ copy'[p][j].attempts = copy[p][j].attempts
  <2> DEFINE row(p) == [j \in Jobs |-> [copy[p][j] EXCEPT !.wait = Max0(@ - 1)]]
  <2>1. ASSUME NEW p \in Pollers
        PROVE  /\ row(p) \in [Jobs -> Record]
               /\ \A j \in Jobs : /\ row(p)[j].status = copy[p][j].status
                                  /\ row(p)[j].attempts = copy[p][j].attempts
    <3>1. \A j \in Jobs : copy[p][j] \in Record
      BY DEF TypeOK
    <3>2. \A j \in Jobs : LET new == [copy[p][j] EXCEPT !.wait = Max0(@ - 1)] IN
            /\ new \in Record /\ new.status = copy[p][j].status
            /\ new.attempts = copy[p][j].attempts
      BY <1>1, <3>1
    <3>. QED
      BY <3>2
  <2>2. copy' = [p \in Pollers |-> row(p)]
    BY DEF Tick
  <2>. HIDE DEF row
  <2>. QED
    BY <2>1, <2>2
<1>5. /\ poll' \in [Pollers -> Poller]
      /\ \A p \in Pollers : /\ poll'[p].pc = poll[p].pc /\ poll'[p].job = poll[p].job
                            /\ poll'[p].batch = poll[p].batch
  <2> DEFINE row(p) == [poll[p] EXCEPT !.age =
                          IF poll[p].pc # "idle" /\ @ < MaxWait THEN @ + 1 ELSE @]
  <2>1. ASSUME NEW p \in Pollers
        PROVE  /\ row(p) \in Poller
               /\ row(p).pc = poll[p].pc /\ row(p).job = poll[p].job
               /\ row(p).batch = poll[p].batch
    <3>1. (IF poll[p].pc # "idle" /\ poll[p].age < MaxWait
           THEN poll[p].age + 1 ELSE poll[p].age) \in 0..MaxWait
      BY TimesAssumption DEF TypeOK, Poller
    <3>. QED
      BY <3>1 DEF TypeOK, Poller
  <2>2. poll' = [p \in Pollers |-> row(p)]
    BY DEF Tick
  <2>. HIDE DEF row
  <2>. QED
    BY <2>1, <2>2
<1>6. TypeOK'
  BY <1>2, <1>3, <1>4, <1>5 DEF TypeOK
<1>7. PollerInv'
  <2>1. \A p \in Pollers : /\ Held(p)' = Held(p)
                          /\ Held(p) \subseteq Jobs /\ poll[p].job \in Jobs
    BY <1>5 DEF Held, TypeOK, Poller
  <2>2. \A p \in Pollers, j \in Jobs : /\ Object(p, j)'.status = Object(p, j).status
                                      /\ Object(p, j)'.attempts = Object(p, j).attempts
    BY <1>3, <1>4 DEF Object
  <2>. QED
    BY <1>2, <1>5, <2>1, <2>2 DEF PollerInv
<1>8. StoreInv'
  <2>1. ASSUME NEW j \in Jobs PROVE Truthful(store[j], j)'
    BY <1>2, <1>3 DEF StoreInv, Truthful
  <2>2. ASSUME NEW j \in Jobs, NEW p \in Pollers PROVE Truthful(copy[p][j], j)'
    BY <1>2, <1>4 DEF StoreInv, Truthful
  <2>. QED
    BY <1>2, <1>3, <2>1, <2>2 DEF StoreInv
<1>9. MemoryInv'
  <2>1. enqueued \subseteq Jobs
    BY DEF TypeOK
  <2>. QED
    BY <1>2, <1>3, <2>1 DEF MemoryInv
<1>. QED
  BY <1>6, <1>7, <1>8, <1>9

LEMMA CrashPreserves ==
  ASSUME IndInv, NEW p \in Pollers, Crash(p), shared' = shared
  PROVE  IndInv'
<1> USE DEF IndInv
<1>1. NoJob \in Record /\ NoJob.status = "absent" /\ NoJob.attempts = 0
  BY TimesAssumption DEF NoJob, Record, Statuses
<1>2. Idle \in Poller /\ Idle.batch = {} /\ Idle.pc = "idle"
  BY JobsAssumption, TimesAssumption DEF Idle, Poller
<1>3. /\ ~ shared /\ UNCHANGED <<store, timer, enqueued, ran, won>>
      /\ poll' = [poll EXCEPT ![p] = Idle]
      /\ crashes' \in 0..MaxCrashes
  BY CrashAssumption DEF Crash, TypeOK
<1>4. /\ copy' \in [Pollers -> [Jobs -> Record]]
      /\ \A o \in Pollers \ {p} : copy'[o] = copy[o]
      /\ \A j \in Jobs : copy'[p][j] = NoJob
  <2>1. [j \in Jobs |-> NoJob] \in [Jobs -> Record]
    BY <1>1
  <2>. QED
    BY <2>1 DEF Crash, TypeOK
<1>5. TypeOK'
  BY <1>2, <1>3, <1>4 DEF TypeOK
<1>6. PollerInv'
  <2>1. Held(p)' = {} /\ poll'[p].pc = "idle"
    BY <1>2, <1>3 DEF Held, TypeOK
  <2>2. \A o \in Pollers \ {p} : Held(o)' = Held(o) /\ poll'[o] = poll[o]
    BY <1>3 DEF Held, TypeOK
  <2>3. \A o \in Pollers \ {p}, j \in Jobs : Object(o, j)' = Object(o, j)
    BY <1>3, <1>4 DEF Object
  <2>4. \A o \in Pollers : Held(o) \subseteq Jobs /\ poll[o].job \in Jobs
    BY DEF Held, TypeOK, Poller
  <2>. QED
    BY <1>3, <2>1, <2>2, <2>3, <2>4 DEF PollerInv
<1>7. StoreInv'
  <2>1. \A j \in Jobs : Truthful(NoJob, j)
    BY <1>1 DEF Truthful, TypeOK
  <2>2. \A j \in Jobs, o \in Pollers : Truthful(copy'[o][j], j)
    BY <1>4, <2>1 DEF StoreInv
  <2>. QED
    BY <1>3, <2>2 DEF StoreInv, Truthful
<1>. QED
  BY <1>3, <1>5, <1>6, <1>7 DEF MemoryInv

LEMMA NextPreserves == IndInv /\ [Next]_vars => IndInv'
<1> SUFFICES ASSUME IndInv, [Next]_vars PROVE IndInv'
  OBVIOUS
<1>1. ASSUME UNCHANGED <<shared, store, copy, poll, enqueued, ran, won, crashes>>, timer' \in BOOLEAN
      PROVE  IndInv'
  BY <1>1 DEF IndInv, TypeOK, PollerInv, Held, Object, StoreInv, MemoryInv, Truthful
<1>2. CASE UNCHANGED vars
  BY <1>1, <1>2 DEF vars, IndInv, TypeOK
<1>3. CASE Start /\ shared' = shared
  BY <1>1, <1>3 DEF Start
<1>4. CASE Stop /\ shared' = shared
  BY <1>1, <1>4 DEF Stop
<1>5. ASSUME NEW p \in Pollers, PollerStep(p), shared' = shared
      PROVE  IndInv'
  BY <1>5, PollPreserves, TakePreserves, SucceedPreserves, FailPreserves, SavePreserves
  DEF PollerStep
<1>. QED
  BY <1>2, <1>3, <1>4, <1>5, EnqueuePreserves, TickPreserves, CrashPreserves DEF Next

-----------------------------------------------------------------------------
(* The invariant is inductive: it holds however polls overlap, whatever the handlers
   do and wherever a replica crashes (process() in jobs.ts over both stores). *)
THEOREM Inductive == Spec => []IndInv
<1>1. Init => IndInv
  BY InitEstablishes
<1>2. IndInv /\ [Next]_vars => IndInv'
  BY NextPreserves
<1>. QED
  BY <1>1, <1>2, PTL DEF Spec

(* The records, batches and counters keep their types; in particular a backoff never
   becomes negative and no record has a status outside Job["status"] (jobs.ts). *)
THEOREM TypeCorrect == Spec => []TypeOK
<1>1. IndInv => TypeOK
  BY DEF IndInv
<1>. QED
  BY <1>1, Inductive, PTL

(* The memory store (memoryJobStore in jobs.ts) keeps every job for good, the
   completed and the dead-lettered ones too. *)
THEOREM MemoryStoreKeeps == Spec => []MemoryInv
<1>1. IndInv => MemoryInv
  BY DEF IndInv
<1>. QED
  BY <1>1, Inductive, PTL

(* Whatever polls overlap and wherever a replica crashes, process() and the stores'
   save() lose no job: one leaves the store only after its handler succeeded, and is
   dead-lettered only after maxAttempts attempts. *)
THEOREM NoJobsLost == Spec => []NoJobLost
<1>1. IndInv => NoJobLost
  <2> SUFFICES ASSUME IndInv, NEW j \in Jobs
               PROVE  /\ j \in enqueued /\ won[j] = 0 => store[j].status # "absent"
                      /\ store[j].status = "failed" => ran[j] >= MaxAttempts
    BY DEF NoJobLost
  <2>1. store[j].attempts \in Nat /\ ran[j] \in Nat
    BY DEF IndInv, TypeOK, Record
  <2>. QED
    BY <2>1, AttemptsAssumption DEF IndInv, StoreInv, Truthful
<1>. QED
  BY <1>1, Inductive, PTL

-----------------------------------------------------------------------------
(* What holds besides when polls do not overlap, as with one process whose handlers
   are faster than its interval. *)
OneAtATime == (\A p, q \in Pollers : p = q) /\ MaxCrashes = 0

NewInv == \A j \in Jobs : j \notin enqueued => ran[j] = 0

MemoryCounts == shared => \A j \in Jobs : store[j].attempts = ran[j]

RedisCounts ==
  ~ shared /\ OneAtATime =>
    /\ AttemptsCountRuns
    /\ \A p \in Pollers : \A j \in Held(p) : copy[p][j].attempts = ran[j]

BatchInv ==
  OneAtATime =>
    \A p \in Pollers : \A j \in poll[p].batch :
      store[j].status = "pending" /\ store[j].wait = 0

CountInv == NewInv /\ MemoryCounts /\ RedisCounts /\ BatchInv

(* Who holds what. *)
LEMMA Holding ==
  ASSUME IndInv
  PROVE  \A p \in Pollers :
           /\ Held(p) \subseteq enqueued /\ enqueued \subseteq Jobs
           /\ poll[p].batch \subseteq Held(p) /\ poll[p].job \in Jobs
           /\ poll[p].pc \in {"run", "save"} =>
                poll[p].job \in Held(p) /\ poll[p].job \notin poll[p].batch
BY DEF IndInv, PollerInv, Held, TypeOK, Poller

LEMMA InitCounts == Init => CountInv
<1> SUFFICES ASSUME Init PROVE CountInv
  OBVIOUS
<1>1. NoJob.attempts = 0 /\ NoJob.status = "absent" /\ Idle.batch = {} /\ Idle.pc = "idle"
  BY DEF NoJob, Idle
<1>2. NewInv /\ MemoryCounts /\ BatchInv
  BY <1>1 DEF Init, NewInv, MemoryCounts, BatchInv
<1>3. RedisCounts
  BY <1>1 DEF Init, RedisCounts, AttemptsCountRuns, Held
<1>. QED
  BY <1>2, <1>3 DEF CountInv

LEMMA EnqueueCounts ==
  ASSUME IndInv, CountInv, NEW j \in Jobs, NEW d \in Delays, Enqueue(j, d), shared' = shared
  PROVE  CountInv'
<1> USE DEF CountInv
<1>1. /\ j \notin enqueued /\ enqueued' = enqueued \union {j}
      /\ UNCHANGED <<copy, poll, ran>>
  BY DEF Enqueue
<1>2. /\ store'[j].attempts = 0
      /\ \A i \in Jobs \ {j} : store'[i] = store[i]
  BY DEF Enqueue, IndInv, TypeOK
<1>3. ran[j] = 0
  BY <1>1 DEF NewInv
<1>4. NewInv'
  BY <1>1 DEF NewInv
<1>5. MemoryCounts'
  BY <1>1, <1>2, <1>3 DEF MemoryCounts
<1>6. \A p \in Pollers : Held(p)' = Held(p)
  BY <1>1 DEF Held
<1>7. RedisCounts'
  <2>1. ASSUME ~ shared, OneAtATime
        PROVE  AttemptsCountRuns'
    BY <1>1, <1>2, <1>3, <2>1 DEF RedisCounts, AttemptsCountRuns, InHand
  <2>. QED
    BY <1>1, <1>6, <2>1 DEF RedisCounts
<1>8. BatchInv'
  <2>1. \A p \in Pollers : \A i \in poll[p].batch : i \in Jobs \ {j}
    BY <1>1, Holding
  <2>. QED
    BY <1>1, <1>2, <2>1 DEF BatchInv
<1>. QED
  BY <1>4, <1>5, <1>7, <1>8

LEMMA PollCounts ==
  ASSUME IndInv, CountInv, NEW p \in Pollers, Poll(p), shared' = shared
  PROVE  CountInv'
<1> USE DEF CountInv
<1>1. /\ poll[p].pc = "idle" /\ UNCHANGED <<store, enqueued, ran>>
      /\ poll'[p].pc = "take" /\ poll'[p].batch = Due
      /\ \A o \in Pollers \ {p} : poll'[o] = poll[o]
  BY DEF Poll, IndInv, TypeOK, Poller
<1>2. ~ shared => \A j \in Due : copy'[p][j] = store[j]
  BY DEF Poll, IndInv, TypeOK, Due
<1>3. NewInv' /\ MemoryCounts'
  BY <1>1 DEF NewInv, MemoryCounts
<1>4. ASSUME OneAtATime
      PROVE  \A o \in Pollers : o = p
  BY <1>4 DEF OneAtATime
<1>5. RedisCounts'
  <2>1. ASSUME ~ shared, OneAtATime
        PROVE  /\ AttemptsCountRuns'
               /\ \A j \in Held(p)' : copy'[p][j].attempts = ran'[j]
    <3>1. \A j \in Jobs : ~ InHand(j) /\ ~ InHand(j)'
      BY <1>1, <1>4, <2>1 DEF InHand
    <3>2. AttemptsCountRuns'
      BY <1>1, <2>1, <3>1 DEF RedisCounts, AttemptsCountRuns
    <3>3. Held(p)' = Due
      BY <1>1 DEF Held
    <3>4. \A j \in Due : j \in Jobs /\ store[j].status # "absent"
      BY DEF Due
    <3>5. \A j \in Due : store[j].attempts = ran[j]
      BY <2>1, <3>1, <3>4 DEF RedisCounts, AttemptsCountRuns
    <3>. QED
      BY <1>1, <1>2, <2>1, <3>2, <3>3, <3>5
  <2>. QED
    BY <1>4, <2>1 DEF RedisCounts
<1>6. BatchInv'
  BY <1>1, <1>4 DEF BatchInv, Due
<1>. QED
  BY <1>3, <1>5, <1>6

(* A step of poller p on its job j, whose object gets one more attempt exactly if the
   step began one. *)
LEMMA WriteCounts ==
  ASSUME IndInv, CountInv, NEW p \in Pollers, NEW j \in Jobs, NEW rec \in Record,
         Write(p, j, rec), j \in Held(p), shared' = shared, enqueued' = enqueued,
         Object(p, j).attempts = ran[j] => rec.attempts = ran'[j],
         \A i \in Jobs \ {j} : ran'[i] = ran[i],
         poll'[p].pc \in {"run", "save"}, poll'[p].job = j,
         poll'[p].batch = poll[p].batch \ {j}, Held(p)' = Held(p),
         poll[p].pc = "take" \/ poll[p].job = j,
         \A o \in Pollers \ {p} : poll'[o] = poll[o]
  PROVE  CountInv'
<1> USE DEF CountInv
<1>1. j \in enqueued /\ \A o \in Pollers : Held(o) \subseteq Jobs
  BY Holding
<1>2. /\ store' \in [Jobs -> Record] /\ Object(p, j)' = rec
      /\ \A i \in Jobs \ {j} : store'[i] = store[i]
      /\ \A o \in Pollers, i \in Jobs \ {j} : copy'[o][i] = copy[o][i]
  BY Written DEF IndInv
<1>3. NewInv'
  BY <1>1 DEF NewInv
<1>4. MemoryCounts'
  BY <1>2 DEF MemoryCounts, Object
<1>5. RedisCounts'
  <2> SUFFICES ASSUME ~ shared, OneAtATime
               PROVE  /\ AttemptsCountRuns'
                      /\ \A o \in Pollers : \A i \in Held(o)' : copy'[o][i].attempts = ran'[i]
    BY DEF RedisCounts
  <2>1. store' = store
    BY DEF Write
  <2>2. \A i \in Jobs : ~ InHand(i)' => i # j /\ ~ InHand(i)
    BY DEF InHand, OneAtATime
  <2>3. AttemptsCountRuns'
    BY <2>1, <2>2 DEF RedisCounts, AttemptsCountRuns
  <2>4. \A o \in Pollers : o = p
    BY DEF OneAtATime
  <2>5. copy[p][j].attempts = ran[j] /\ copy'[p][j] = rec
    BY <1>2 DEF RedisCounts, Object
  <2>6. \A i \in Held(p) : copy'[p][i].attempts = ran'[i]
    BY <1>1, <1>2, <2>5 DEF RedisCounts, Object
  <2>. QED
    BY <2>3, <2>4, <2>6
<1>6. BatchInv'
  <2>1. ASSUME OneAtATime, NEW i \in poll[p].batch \ {j}
        PROVE  store'[i].status = "pending" /\ store'[i].wait = 0
    <3>1. i \in Jobs
      BY <1>1, Holding
    <3>. QED
      BY <1>2, <2>1, <3>1 DEF BatchInv
  <2>2. OneAtATime => \A o \in Pollers : o = p
    BY DEF OneAtATime
  <2>. QED
    BY <2>1, <2>2 DEF BatchInv
<1>. QED
  BY <1>3, <1>4, <1>5, <1>6

LEMMA TakeCounts ==
  ASSUME IndInv, CountInv, NEW p \in Pollers, NEW j \in Jobs, Take(p, j), shared' = shared
  PROVE  CountInv'
<1>1. /\ Object(p, j) \in Record /\ j \in Held(p) /\ poll[p].pc = "take"
  BY DEF IndInv, TypeOK, Object, Take, Held
<1>2. PICK rec \in Record :
        Write(p, j, rec) /\ rec.attempts = Object(p, j).attempts + 1
  BY <1>1, CountedRecord DEF Take
<1>3. /\ poll'[p].pc = "run" /\ poll'[p].batch = poll[p].batch \ {j} /\ poll'[p].job = j
      /\ \A o \in Pollers \ {p} : poll'[o] = poll[o]
  BY DEF Take, IndInv, TypeOK, Poller
<1>4. /\ ran'[j] = ran[j] + 1 /\ \A i \in Jobs \ {j} : ran'[i] = ran[i]
      /\ enqueued' = enqueued
  BY DEF Take, IndInv, TypeOK
<1>5. Held(p)' = Held(p)
  BY <1>1, <1>3 DEF Held
<1>6. Object(p, j).attempts = ran[j] => rec.attempts = ran'[j]
  BY <1>2, <1>4
<1>. QED
  BY <1>1, <1>2, <1>3, <1>4, <1>5, <1>6, WriteCounts

LEMMA RunEndCounts ==
  ASSUME IndInv, CountInv, NEW p \in Pollers, Succeed(p) \/ Fail(p), shared' = shared
  PROVE  CountInv'
<1>1. /\ poll[p].pc = "run" /\ poll' = [poll EXCEPT ![p].pc = "save"]
      /\ UNCHANGED <<ran, enqueued>>
  BY DEF Succeed, Fail
<1>2. PICK j \in Jobs : j = poll[p].job
  BY <1>1, RunEnds
<1>3. /\ Object(p, j) \in Record /\ Object(p, j).attempts >= 1
      /\ j \in Held(p) /\ Held(p)' = Held(p)
      /\ poll'[p].pc = "save" /\ poll'[p].job = j /\ poll'[p].batch = poll[p].batch \ {j}
      /\ \A o \in Pollers \ {p} : poll'[o] = poll[o]
  BY <1>1, <1>2, RunEnds
<1>4. PICK rec \in Record : Write(p, j, rec) /\ rec.attempts = Object(p, j).attempts
  <2>1. CASE Succeed(p)
    BY <1>2, <1>3, <2>1, CompletedRecord DEF Succeed
  <2>2. CASE Fail(p)
    <3>1. Write(p, j, AfterFailure(Object(p, j), poll[p].age))
      BY <1>2, <2>2 DEF Fail
    <3>2. poll[p].age \in 0..MaxWait
      BY DEF IndInv, TypeOK, Poller
    <3>3. /\ AfterFailure(Object(p, j), poll[p].age) \in Record
          /\ AfterFailure(Object(p, j), poll[p].age).attempts = Object(p, j).attempts
      BY <1>3, <3>2, FailedRecord
    <3>. QED
      BY <3>1, <3>3
  <2>. QED
    BY <2>1, <2>2
<1>5. /\ Object(p, j).attempts = ran[j] => rec.attempts = ran'[j]
      /\ \A i \in Jobs \ {j} : ran'[i] = ran[i]
      /\ enqueued' = enqueued
  BY <1>1, <1>4
<1>. QED
  BY <1>2, <1>3, <1>4, <1>5, WriteCounts

LEMMA SaveCounts ==
  ASSUME IndInv, CountInv, NEW p \in Pollers, Save(p), shared' = shared
  PROVE  CountInv'
<1> USE DEF CountInv
<1> DEFINE j == poll[p].job
<1>1. /\ poll[p].pc = "save" /\ j \in Jobs /\ j \in Held(p) /\ j \notin poll[p].batch
      /\ UNCHANGED <<ran, enqueued>> /\ Held(p) \subseteq Jobs
      /\ poll[p].batch \subseteq Held(p)
  BY Holding DEF Save
<1>2. /\ poll'[p].pc \in {"idle", "take"} /\ poll'[p].batch = poll[p].batch
      /\ \A o \in Pollers \ {p} : poll'[o] = poll[o]
  <2>1. CASE poll[p].batch = {}
    <3>1. Idle.batch = {} /\ Idle.pc = "idle"
      BY DEF Idle
    <3>2. poll' = [poll EXCEPT ![p] = Idle]
      BY <2>1 DEF Save
    <3>. QED
      BY <2>1, <3>1, <3>2 DEF IndInv, TypeOK
  <2>2. CASE poll[p].batch # {}
    <3>1. poll' = [poll EXCEPT ![p] = [poll[p] EXCEPT !.pc = "take"]]
      BY <2>2 DEF Save
    <3>. QED
      BY <3>1 DEF IndInv, TypeOK, Poller
  <2>. QED
    BY <2>1, <2>2
<1>3. \A i \in Jobs \ {j} : store'[i] = store[i] /\ copy'[p][i] = copy[p][i]
  BY <1>1 DEF Save, IndInv, TypeOK
<1>4. ~ shared => store'[j] = IF copy[p][j].status = "completed" THEN NoJob ELSE copy[p][j]
  BY <1>1 DEF Save, IndInv, TypeOK
<1> HIDE DEF j
<1>5. NewInv'
  BY <1>1 DEF NewInv
<1>6. MemoryCounts'
  BY <1>1 DEF MemoryCounts, Save
<1>7. OneAtATime => \A o \in Pollers : o = p
  BY DEF OneAtATime
<1>8. RedisCounts'
  <2> SUFFICES ASSUME ~ shared, OneAtATime
               PROVE  /\ AttemptsCountRuns'
                      /\ \A i \in Held(p)' : copy'[p][i].attempts = ran'[i]
    BY <1>7 DEF RedisCounts
  <2>1. copy[p][j].attempts = ran[j]
    BY <1>1 DEF RedisCounts
  <2>2. \A i \in Jobs \ {j} : ~ InHand(i)
    BY <1>7 DEF InHand, j
  <2>3. store'[j].status # "absent" => store'[j].attempts = ran'[j]
    BY <1>1, <1>4, <2>1 DEF NoJob
  <2>4. ASSUME NEW i \in Jobs \ {j}, store'[i].status # "absent"
        PROVE  store'[i].attempts = ran'[i]
    BY <1>1, <1>3, <2>2, <2>4 DEF RedisCounts, AttemptsCountRuns
  <2>5. AttemptsCountRuns'
    BY <2>3, <2>4 DEF AttemptsCountRuns
  <2>6. \A i \in Held(p)' : i \in Held(p) /\ i # j
    BY <1>1, <1>2 DEF Held
  <2>7. \A i \in Held(p)' : copy'[p][i].attempts = ran'[i]
    BY <1>1, <1>3, <2>6 DEF RedisCounts
  <2>. QED
    BY <2>5, <2>7
<1>9. BatchInv'
  BY <1>1, <1>2, <1>3, <1>7 DEF BatchInv
<1>. QED
  BY <1>5, <1>6, <1>8, <1>9

LEMMA TickCounts ==
  ASSUME IndInv, CountInv, Tick, shared' = shared
  PROVE  CountInv'
<1> USE DEF CountInv
<1>1. UNCHANGED <<enqueued, ran>>
  BY DEF Tick
<1>2. \A j \in Jobs :
        /\ store'[j].status = store[j].status
        /\ store'[j].attempts = store[j].attempts
        /\ store[j].wait = 0 => store'[j].wait = 0
  <2>1. ASSUME NEW j \in Jobs
        PROVE  store'[j] = [store[j] EXCEPT !.wait = Max0(store[j].wait - 1)]
    BY DEF Tick
  <2>2. \A j \in Jobs : store[j] \in Record
    BY DEF IndInv, TypeOK
  <2>3. Max0(0 - 1) = 0
    BY DEF Max0
  <2>. QED
    BY <2>1, <2>2, <2>3 DEF Record
<1>3. \A p \in Pollers, j \in Jobs : copy'[p][j].attempts = copy[p][j].attempts
  <2>1. ASSUME NEW p \in Pollers, NEW j \in Jobs
        PROVE  copy'[p][j] = [copy[p][j] EXCEPT !.wait = Max0(copy[p][j].wait - 1)]
    BY DEF Tick
  <2>2. ASSUME NEW p \in Pollers, NEW j \in Jobs
        PROVE  copy'[p][j].attempts = copy[p][j].attempts
    <3>1. PICK old \in Record : old = copy[p][j]
      BY DEF IndInv, TypeOK
    <3>2. PICK w : w = Max0(old.wait - 1)
      OBVIOUS
    <3>3. copy'[p][j] = [old EXCEPT !.wait = w]
      BY <2>1, <3>1, <3>2
    <3>. QED
      BY <3>1, <3>3 DEF Record
  <2>. QED
    BY <2>2
<1>4. \A p \in Pollers :
        /\ poll'[p].pc = poll[p].pc /\ poll'[p].job = poll[p].job
        /\ poll'[p].batch = poll[p].batch
  <2>1. ASSUME NEW p \in Pollers
        PROVE  \E age : poll'[p] = [poll[p] EXCEPT !.age = age]
    BY DEF Tick
  <2>2. \A p \in Pollers : poll[p] \in Poller
    BY DEF IndInv, TypeOK
  <2>. QED
    BY <2>1, <2>2 DEF Poller
<1>5. \A p \in Pollers : Held(p)' = Held(p) /\ Held(p) \subseteq Jobs /\ poll[p].batch \subseteq Jobs
  BY <1>4, Holding DEF Held
<1>6. NewInv' /\ MemoryCounts'
  BY <1>1, <1>2 DEF NewInv, MemoryCounts
<1>7. RedisCounts'
  <2>1. \A j \in Jobs : InHand(j)' <=> InHand(j)
    BY <1>4 DEF InHand
  <2>2. AttemptsCountRuns => AttemptsCountRuns'
    BY <1>1, <1>2, <2>1 DEF AttemptsCountRuns
  <2>3. (\A p \in Pollers : \A j \in Held(p) : copy[p][j].attempts = ran[j])
          => \A p \in Pollers : \A j \in Held(p)' : copy'[p][j].attempts = ran'[j]
    BY <1>1, <1>3, <1>5
  <2>. QED
    BY <2>2, <2>3 DEF RedisCounts
<1>8. BatchInv'
  BY <1>2, <1>4, <1>5 DEF BatchInv
<1>. QED
  BY <1>6, <1>7, <1>8

LEMMA CrashCounts ==
  ASSUME IndInv, CountInv, NEW p \in Pollers, Crash(p), shared' = shared
  PROVE  CountInv'
<1>1. ~ shared /\ UNCHANGED <<enqueued, ran>> /\ MaxCrashes # 0
  BY CrashAssumption DEF Crash, IndInv, TypeOK
<1>2. ~ OneAtATime
  BY <1>1 DEF OneAtATime
<1>. QED
  BY <1>1, <1>2 DEF CountInv, NewInv, MemoryCounts, RedisCounts, BatchInv

LEMMA CountsNext == IndInv /\ CountInv /\ [Next]_vars => CountInv'
<1> SUFFICES ASSUME IndInv, CountInv, [Next]_vars PROVE CountInv'
  OBVIOUS
<1>1. ASSUME UNCHANGED <<shared, store, copy, poll, enqueued, ran>>
      PROVE  CountInv'
  <2>1. \A j \in Jobs : InHand(j)' <=> InHand(j)
    BY <1>1 DEF InHand
  <2>2. \A p \in Pollers : Held(p)' = Held(p)
    BY <1>1 DEF Held
  <2>3. RedisCounts'
    BY <1>1, <2>1, <2>2 DEF CountInv, RedisCounts, AttemptsCountRuns
  <2>. QED
    BY <1>1, <2>3 DEF CountInv, NewInv, MemoryCounts, BatchInv
<1>2. CASE UNCHANGED vars
  BY <1>1, <1>2 DEF vars
<1>3. CASE (Start \/ Stop) /\ shared' = shared
  BY <1>1, <1>3 DEF Start, Stop
<1>4. ASSUME NEW p \in Pollers, PollerStep(p), shared' = shared
      PROVE  CountInv'
  BY <1>4, PollCounts, TakeCounts, RunEndCounts, SaveCounts DEF PollerStep
<1>. QED
  BY <1>2, <1>3, <1>4, EnqueueCounts, TickCounts, CrashCounts DEF Next

LEMMA Counting == Spec => [](IndInv /\ CountInv)
<1>1. Init => IndInv /\ CountInv
  BY InitEstablishes, InitCounts
<1>2. IndInv /\ CountInv /\ [Next]_vars => (IndInv /\ CountInv)'
  BY NextPreserves, CountsNext
<1>. QED
  BY <1>1, <1>2, PTL DEF Spec

(* A job's attempts are the runs of its handler: over the memory store however many
   polls overlap, over Redis as long as they do not and no replica crashes. *)
THEOREM AttemptsAreCounted == Spec => [](shared \/ OneAtATime => AttemptsCountRuns)
<1>1. IndInv /\ CountInv => (shared \/ OneAtATime => AttemptsCountRuns)
  BY DEF CountInv, MemoryCounts, RedisCounts, AttemptsCountRuns
<1>. QED
  BY <1>1, Counting, PTL

(* As long as polls do not overlap, process() calls a handler only for a job that is
   pending and due, whatever became of the store while it awaited other handlers. *)
THEOREM RunsAreDue == ASSUME OneAtATime PROVE Spec => RunsOnlyDue
<1>1. IndInv /\ CountInv /\ [Next]_vars =>
        [\A j \in Jobs : ran'[j] > ran[j] => store[j].status = "pending" /\ store[j].wait = 0]_vars
  <2> SUFFICES ASSUME IndInv, CountInv, [Next]_vars, NEW j \in Jobs, ran'[j] > ran[j]
               PROVE  store[j].status = "pending" /\ store[j].wait = 0
    OBVIOUS
  <2>1. ran \in [Jobs -> Nat]
    BY DEF IndInv, TypeOK
  <2>2. ran' # ran
    BY <2>1
  <2>3. PICK p \in Pollers, i \in Jobs : Take(p, i)
    BY <2>2 DEF Next, PollerStep, Enqueue, Start, Stop, Tick, Poll, Succeed, Fail, Save, Crash,
                vars
  <2>4. i = j /\ j \in poll[p].batch
    BY <2>1, <2>3 DEF Take
  <2>. QED
    BY <2>4 DEF CountInv, BatchInv
<1>. QED
  BY <1>1, Counting, PTL DEF Spec, RunsOnlyDue
-----------------------------------------------------------------------------
(* The life of one job, as long as polls do not overlap: what its status and its ended
   attempts are. *)
StatusOf(j) == IF j \in enqueued /\ store[j].status = "absent"
               THEN "completed" ELSE store[j].status
TriesOf(j) == IF Unfinished(j) THEN ran[j] - 1 ELSE ran[j]

(* What a poller holds is pending until its attempt ends, and a pending job has
   attempts left. *)
HandInv ==
  \A p \in Pollers :
    /\ ~ shared => \A j \in poll[p].batch : copy[p][j].status = "pending"
    /\ poll[p].pc = "run" => Object(p, poll[p].job).status = "pending"
    /\ ~ shared /\ poll[p].pc \in {"run", "save"} => store[poll[p].job].status = "pending"
    /\ ~ shared /\ poll[p].pc = "save" =>
         LET rec == copy[p][poll[p].job] IN
         \/ rec.status = "completed"
         \/ rec.status = "pending" /\ rec.attempts < MaxAttempts
         \/ rec.status = "failed" /\ rec.attempts = MaxAttempts

LeftInv ==
  \A j \in Jobs : store[j].status = "pending" =>
    /\ Unfinished(j) => ran[j] \in 1..MaxAttempts
    /\ ~ Unfinished(j) => ran[j] < MaxAttempts

LifeInv == HandInv /\ LeftInv

LEMMA Solo ==
  ASSUME OneAtATime, NEW p \in Pollers
  PROVE  /\ \A o \in Pollers : o = p
         /\ \A j \in Jobs : Unfinished(j) <=>
              poll[p].job = j /\ (poll[p].pc = "run" \/ (~ shared /\ poll[p].pc = "save"))
         /\ \A j \in Jobs : Unfinished(j)' <=>
              poll'[p].job = j /\ (poll'[p].pc = "run" \/ (~ shared' /\ poll'[p].pc = "save"))
BY DEF OneAtATime, Unfinished

LEMMA SameLife ==
  ASSUME \A j \in Jobs : StatusOf(j)' = StatusOf(j) /\ TriesOf(j)' = TriesOf(j)
  PROVE  [Lifecycle!Next]_(Lifecycle!vars)
<1>1. JStatus' = JStatus /\ JTries' = JTries
  BY DEF JStatus, JTries, StatusOf, TriesOf
<1>. QED
  BY <1>1 DEF Lifecycle!vars

(* The attempt of a pending job ends. *)
LEMMA OneLife ==
  ASSUME NEW j \in Jobs,
         \A i \in Jobs \ {j} : StatusOf(i)' = StatusOf(i) /\ TriesOf(i)' = TriesOf(i),
         StatusOf(j) = "pending", TriesOf(j) < MaxAttempts, TriesOf(j)' = TriesOf(j) + 1,
         \/ StatusOf(j)' = "completed"
         \/ StatusOf(j)' = "failed" /\ TriesOf(j)' = MaxAttempts
         \/ StatusOf(j)' = "pending" /\ TriesOf(j)' # MaxAttempts
  PROVE  [Lifecycle!Next]_(Lifecycle!vars)
<1>1. JStatus = [i \in Jobs |-> StatusOf(i)] /\ JTries = [i \in Jobs |-> TriesOf(i)]
  BY DEF JStatus, JTries, StatusOf, TriesOf
<1>2. JStatus' = [i \in Jobs |-> StatusOf(i)'] /\ JTries' = [i \in Jobs |-> TriesOf(i)']
  BY DEF JStatus, JTries, StatusOf, TriesOf
<1>3. /\ JStatus' = [JStatus EXCEPT ![j] = StatusOf(j)']
      /\ JTries' = [JTries EXCEPT ![j] = JTries[j] + 1]
      /\ JStatus[j] = "pending" /\ JTries[j] < MaxAttempts /\ JTries'[j] = TriesOf(j)'
  BY <1>1, <1>2
<1>4. CASE StatusOf(j)' = "completed"
  <2>1. Lifecycle!Succeed(j)
    BY <1>3, <1>4 DEF Lifecycle!Succeed, Lifecycle!Attempt
  <2>. QED
    BY <2>1 DEF Lifecycle!Next
<1>5. CASE StatusOf(j)' = IF TriesOf(j)' = MaxAttempts THEN "failed" ELSE "pending"
  <2>1. Lifecycle!Fail(j)
    BY <1>3, <1>5 DEF Lifecycle!Fail, Lifecycle!Attempt
  <2>. QED
    BY <2>1 DEF Lifecycle!Next
<1>. QED
  BY <1>4, <1>5

LEMMA InitLives == Init => LifeInv /\ Lifecycle!Init
<1> SUFFICES ASSUME Init PROVE LifeInv /\ Lifecycle!Init
  OBVIOUS
<1>1. /\ \A p \in Pollers : poll[p].pc = "idle" /\ poll[p].batch = {}
      /\ \A j \in Jobs : store[j].status = "absent" /\ ran[j] = 0
      /\ enqueued = {}
  BY DEF Init, Idle, NoJob
<1>2. LifeInv
  BY <1>1 DEF LifeInv, HandInv, LeftInv
<1>3. \A j \in Jobs : ~ Unfinished(j)
  BY <1>1 DEF Unfinished
<1>4. JStatus = [j \in Jobs |-> "absent"] /\ JTries = [j \in Jobs |-> 0]
  BY <1>1, <1>3 DEF JStatus, JTries
<1>. QED
  BY <1>2, <1>4 DEF Lifecycle!Init

(* A step that no job notices. *)
LEMMA QuietLives ==
  ASSUME LifeInv, UNCHANGED <<shared, enqueued, ran>>,
         \A j \in Jobs : store'[j].status = store[j].status,
         \A p \in Pollers :
           /\ poll'[p].pc = poll[p].pc /\ poll'[p].job = poll[p].job
           /\ poll'[p].batch = poll[p].batch
           /\ poll[p].job \in Jobs /\ poll[p].batch \subseteq Jobs
           /\ \A j \in Jobs : /\ copy'[p][j].status = copy[p][j].status
                              /\ copy'[p][j].attempts = copy[p][j].attempts
  PROVE  LifeInv' /\ [Lifecycle!Next]_(Lifecycle!vars)
<1>1. \A j \in Jobs : Unfinished(j)' <=> Unfinished(j)
  BY DEF Unfinished
<1>2. LeftInv'
  BY <1>1 DEF LifeInv, LeftInv
<1>3. HandInv'
  BY DEF LifeInv, HandInv, Object
<1>4. \A j \in Jobs : StatusOf(j)' = StatusOf(j) /\ TriesOf(j)' = TriesOf(j)
  BY <1>1 DEF StatusOf, TriesOf
<1>. QED
  BY <1>2, <1>3, <1>4, SameLife DEF LifeInv

LEMMA TickLives ==
  ASSUME IndInv, LifeInv, Tick, shared' = shared
  PROVE  LifeInv' /\ [Lifecycle!Next]_(Lifecycle!vars)
<1>1. UNCHANGED <<shared, enqueued, ran>>
  BY DEF Tick
<1>2. \A j \in Jobs : store'[j].status = store[j].status
  <2>1. ASSUME NEW j \in Jobs
        PROVE  store'[j] = [store[j] EXCEPT !.wait = Max0(store[j].wait - 1)]
    BY DEF Tick
  <2>2. \A j \in Jobs : store[j] \in Record
    BY DEF IndInv, TypeOK
  <2>. QED
    BY <2>1, <2>2 DEF Record
<1>3. ASSUME NEW p \in Pollers, NEW j \in Jobs
      PROVE  /\ copy'[p][j].status = copy[p][j].status
             /\ copy'[p][j].attempts = copy[p][j].attempts
  <2>1. PICK old \in Record : old = copy[p][j]
    BY DEF IndInv, TypeOK
  <2>2. PICK w : w = Max0(old.wait - 1)
    OBVIOUS
  <2>3. copy'[p][j] = [old EXCEPT !.wait = w]
    BY <2>1, <2>2 DEF Tick
  <2>. QED
    BY <2>1, <2>3 DEF Record
<1>4. \A p \in Pollers :
        /\ poll'[p].pc = poll[p].pc /\ poll'[p].job = poll[p].job
        /\ poll'[p].batch = poll[p].batch
  <2>1. ASSUME NEW p \in Pollers
        PROVE  \E age : poll'[p] = [poll[p] EXCEPT !.age = age]
    BY DEF Tick
  <2>2. \A p \in Pollers : poll[p] \in Poller
    BY DEF IndInv, TypeOK
  <2>. QED
    BY <2>1, <2>2 DEF Poller
<1>5. \A p \in Pollers : poll[p].job \in Jobs /\ poll[p].batch \subseteq Jobs
  BY DEF IndInv, TypeOK, Poller
<1>. QED
  BY <1>1, <1>2, <1>3, <1>4, <1>5, QuietLives

LEMMA EnqueueLives ==
  ASSUME IndInv, CountInv, LifeInv, NEW j \in Jobs, NEW d \in Delays, Enqueue(j, d),
         shared' = shared
  PROVE  LifeInv' /\ [Lifecycle!Next]_(Lifecycle!vars)
<1>1. /\ j \notin enqueued /\ enqueued' = enqueued \union {j}
      /\ UNCHANGED <<copy, poll, ran>>
  BY DEF Enqueue
<1>2. /\ store'[j].status = "pending"
      /\ \A i \in Jobs \ {j} : store'[i] = store[i]
  BY DEF Enqueue, IndInv, TypeOK
<1>3. ran[j] = 0 /\ store[j].status = "absent"
  BY <1>1 DEF CountInv, NewInv, IndInv, StoreInv
<1>4. \A p \in Pollers :
        /\ poll[p].batch \subseteq Jobs \ {j} /\ poll[p].job \in Jobs
        /\ poll[p].pc \in {"run", "save"} => poll[p].job # j
  BY <1>1, Holding
<1>5. \A i \in Jobs : (Unfinished(i)' <=> Unfinished(i)) /\ ~ Unfinished(j)
  BY <1>1, <1>4 DEF Unfinished
<1>6. HandInv'
  BY <1>1, <1>2, <1>4 DEF LifeInv, HandInv, Object
<1>7. LeftInv'
  BY <1>1, <1>2, <1>3, <1>5, AttemptsAssumption DEF LifeInv, LeftInv
<1>8. /\ \A i \in Jobs : TriesOf(i)' = TriesOf(i)
      /\ StatusOf(j) = "absent" /\ StatusOf(j)' = "pending"
      /\ \A i \in Jobs \ {j} : StatusOf(i)' = StatusOf(i)
  BY <1>1, <1>2, <1>3, <1>5 DEF StatusOf, TriesOf
<1>9. Lifecycle!Enqueue(j)
  <2>1. JStatus = [i \in Jobs |-> StatusOf(i)] /\ JTries = [i \in Jobs |-> TriesOf(i)]
    BY DEF JStatus, JTries, StatusOf, TriesOf
  <2>2. JStatus' = [i \in Jobs |-> StatusOf(i)'] /\ JTries' = [i \in Jobs |-> TriesOf(i)']
    BY DEF JStatus, JTries, StatusOf, TriesOf
  <2>3. /\ JStatus[j] = "absent" /\ JTries' = JTries
        /\ JStatus' = [JStatus EXCEPT ![j] = "pending"]
    BY <1>8, <2>1, <2>2
  <2>. QED
    BY <2>3 DEF Lifecycle!Enqueue
<1>. QED
  BY <1>6, <1>7, <1>9 DEF LifeInv, Lifecycle!Next

LEMMA PollLives ==
  ASSUME OneAtATime, IndInv, LifeInv, NEW p \in Pollers, Poll(p), shared' = shared
  PROVE  LifeInv' /\ [Lifecycle!Next]_(Lifecycle!vars)
<1>1. /\ poll[p].pc = "idle" /\ UNCHANGED <<store, enqueued, ran>>
      /\ poll'[p].pc = "take" /\ poll'[p].batch = Due
  BY DEF Poll, IndInv, TypeOK, Poller
<1>2. ~ shared => \A j \in Due : copy'[p][j].status = "pending"
  BY DEF Poll, IndInv, TypeOK, Due
<1>3. \A j \in Jobs : ~ Unfinished(j) /\ ~ Unfinished(j)'
  BY <1>1, Solo
<1>4. HandInv'
  BY <1>1, <1>2, Solo DEF HandInv
<1>5. LeftInv'
  BY <1>1, <1>3 DEF LifeInv, LeftInv
<1>6. \A j \in Jobs : StatusOf(j)' = StatusOf(j) /\ TriesOf(j)' = TriesOf(j)
  BY <1>1, <1>3 DEF StatusOf, TriesOf
<1>. QED
  BY <1>4, <1>5, <1>6, SameLife DEF LifeInv

LEMMA TakeLives ==
  ASSUME OneAtATime, IndInv, CountInv, LifeInv, NEW p \in Pollers, NEW j \in Jobs, Take(p, j),
         shared' = shared
  PROVE  LifeInv' /\ [Lifecycle!Next]_(Lifecycle!vars)
<1>1. /\ Object(p, j) \in Record /\ j \in poll[p].batch /\ poll[p].pc = "take"
      /\ enqueued' = enqueued
      /\ ran'[j] = ran[j] + 1 /\ \A i \in Jobs \ {j} : ran'[i] = ran[i]
  BY DEF IndInv, TypeOK, Object, Take
<1>2. PICK rec \in Record : Write(p, j, rec) /\ rec.status = Object(p, j).status
  BY <1>1, CountedRecord DEF Take
<1>3. poll'[p].pc = "run" /\ poll'[p].batch = poll[p].batch \ {j} /\ poll'[p].job = j
  BY DEF Take, IndInv, TypeOK, Poller
<1>4. store[j].status = "pending" /\ Object(p, j).status = "pending"
  BY <1>1 DEF CountInv, BatchInv, LifeInv, HandInv, Object
<1>5. /\ Object(p, j)' = rec /\ ran[j] \in Nat
      /\ \A i \in Jobs : store'[i].status = store[i].status
      /\ \A i \in Jobs \ {j} : copy'[p][i] = copy[p][i]
  <2>1. /\ Object(p, j)' = rec
        /\ \A i \in Jobs : store'[i] = store[i] \/ (i = j /\ store'[i] = rec)
        /\ \A i \in Jobs \ {j} : copy'[p][i] = copy[p][i]
    BY <1>2, Written DEF IndInv
  <2>. QED
    BY <1>2, <1>4, <2>1 DEF IndInv, TypeOK
<1>6. \A i \in Jobs : ~ Unfinished(i) /\ (Unfinished(i)' <=> i = j)
  BY <1>1, <1>3, Solo
<1>7. poll[p].batch \subseteq Jobs
  BY Holding
<1>8. HandInv'
  <2>1. \A i \in poll'[p].batch : ~ shared => copy'[p][i].status = "pending"
    BY <1>3, <1>5, <1>7 DEF LifeInv, HandInv
  <2>2. Object(p, poll[p].job)'.status = "pending"
    BY <1>2, <1>3, <1>4, <1>5 DEF Object
  <2>. QED
    BY <1>3, <1>4, <1>5, <2>1, <2>2, Solo DEF HandInv
<1>9. LeftInv'
  <2>1. ran[j] < MaxAttempts
    BY <1>4, <1>6 DEF LifeInv, LeftInv
  <2>2. ran'[j] \in 1..MaxAttempts
    BY <1>1, <1>5, <2>1, AttemptsAssumption
  <2>. QED
    BY <1>1, <1>5, <1>6, <2>2 DEF LifeInv, LeftInv
<1>10. \A i \in Jobs : StatusOf(i)' = StatusOf(i) /\ TriesOf(i)' = TriesOf(i)
  BY <1>1, <1>5, <1>6 DEF StatusOf, TriesOf
<1>. QED
  BY <1>8, <1>9, <1>10, SameLife DEF LifeInv

(* The end of an attempt.  In memory the store shows its outcome at once, with Redis
   when the poller has saved its copy. *)
LEMMA RunEndLives ==
  ASSUME OneAtATime, IndInv, CountInv, LifeInv, NEW p \in Pollers, Succeed(p) \/ Fail(p),
         shared' = shared
  PROVE  LifeInv' /\ [Lifecycle!Next]_(Lifecycle!vars)
<1>1. /\ poll[p].pc = "run" /\ poll' = [poll EXCEPT ![p].pc = "save"]
      /\ UNCHANGED <<ran, enqueued>>
  BY DEF Succeed, Fail
<1>2. PICK j \in Jobs : j = poll[p].job
  BY <1>1, RunEnds
<1>3. /\ Object(p, j) \in Record /\ Object(p, j).attempts >= 1
      /\ poll'[p].pc = "save" /\ poll'[p].job = j /\ poll'[p].batch = poll[p].batch
  <2>1. poll'[p].pc = "save" /\ poll'[p].job = poll[p].job /\ poll'[p].batch = poll[p].batch
    BY <1>1 DEF IndInv, TypeOK, Poller
  <2>. QED
    BY <1>1, <1>2, <2>1, RunEnds
<1>4. Object(p, j).status = "pending" /\ j \in enqueued /\ j \notin poll[p].batch
  BY <1>1, <1>2, Holding DEF LifeInv, HandInv
<1>5. PICK rec \in Record :
        /\ Write(p, j, rec) /\ rec.attempts = Object(p, j).attempts
        /\ \/ rec.status = "completed"
           \/ rec.status = "failed" /\ rec.attempts >= MaxAttempts
           \/ rec.status = "pending" /\ rec.attempts < MaxAttempts
  <2>1. CASE Succeed(p)
    BY <1>2, <1>3, <2>1, CompletedRecord DEF Succeed
  <2>2. CASE Fail(p)
    <3>1. Write(p, j, AfterFailure(Object(p, j), poll[p].age))
      BY <1>2, <2>2 DEF Fail
    <3>2. poll[p].age \in 0..MaxWait
      BY DEF IndInv, TypeOK, Poller
    <3>3. LET new == AfterFailure(Object(p, j), poll[p].age) IN
          /\ new \in Record /\ new.attempts = Object(p, j).attempts
          /\ \/ new.status = "failed" /\ Object(p, j).attempts >= MaxAttempts
             \/ new.status = Object(p, j).status /\ Object(p, j).attempts < MaxAttempts
      BY <1>3, <3>2, FailedRecord
    <3>. QED
      BY <1>4, <3>1, <3>3
  <2>. QED
    BY <2>1, <2>2
<1>6. Object(p, j).attempts = ran[j]
  <2>1. j \in Held(p)
    BY <1>1, <1>2, Holding
  <2>. QED
    BY <2>1 DEF CountInv, MemoryCounts, RedisCounts, Object
<1>7. /\ Object(p, j)' = rec /\ \A i \in Jobs \ {j} : store'[i] = store[i]
      /\ \A i \in Jobs \ {j} : copy'[p][i] = copy[p][i]
  BY <1>5, Written DEF IndInv
<1>8. /\ Unfinished(j) /\ (Unfinished(j)' <=> ~ shared)
      /\ \A i \in Jobs \ {j} : ~ Unfinished(i) /\ ~ Unfinished(i)'
  BY <1>1, <1>2, <1>3, Solo
<1>9. ran[j] \in 1..MaxAttempts /\ store[j].status = "pending"
  <2>1. store[j].status = "pending"
    BY <1>1, <1>2, <1>4 DEF LifeInv, HandInv, Object
  <2>. QED
    BY <1>8, <2>1 DEF LifeInv, LeftInv
<1>10. poll[p].batch \subseteq Jobs \ {j}
  BY <1>4, Holding
<1>11. CASE shared
  <2>1. store'[j] = rec
    BY <1>7, <1>11 DEF Object
  <2>2. HandInv'
    BY <1>3, <1>11, Solo DEF HandInv
  <2>3. LeftInv'
    BY <1>1, <1>5, <1>6, <1>7, <1>8, <1>11, <2>1 DEF LifeInv, LeftInv
  <2>4. \A i \in Jobs \ {j} : StatusOf(i)' = StatusOf(i) /\ TriesOf(i)' = TriesOf(i)
    BY <1>1, <1>7, <1>8 DEF StatusOf, TriesOf
  <2>5. StatusOf(j) = "pending" /\ TriesOf(j) = ran[j] - 1 /\ TriesOf(j)' = ran[j]
    BY <1>1, <1>8, <1>9, <1>11 DEF StatusOf, TriesOf
  <2>6. StatusOf(j)' = rec.status
    BY <1>5, <2>1 DEF StatusOf
  <2>7. TriesOf(j) < MaxAttempts /\ TriesOf(j)' = TriesOf(j) + 1
    BY <1>9, <2>5, AttemptsAssumption
  <2>8. \/ StatusOf(j)' = "completed"
        \/ StatusOf(j)' = "failed" /\ TriesOf(j)' = MaxAttempts
        \/ StatusOf(j)' = "pending" /\ TriesOf(j)' # MaxAttempts
    BY <1>5, <1>6, <1>9, <2>5, <2>6, AttemptsAssumption
  <2>. QED
    BY <2>2, <2>3, <2>4, <2>5, <2>7, <2>8, OneLife DEF LifeInv
<1>12. CASE ~ shared
  <2>1. store' = store /\ copy'[p][j] = rec
    BY <1>5, <1>7, <1>12 DEF Object, Write
  <2>2. HandInv'
    <3>1. \A i \in poll'[p].batch : copy'[p][i].status = "pending"
      BY <1>3, <1>7, <1>10, <1>12 DEF LifeInv, HandInv
    <3>2. \/ rec.status = "completed"
          \/ rec.status = "pending" /\ rec.attempts < MaxAttempts
          \/ rec.status = "failed" /\ rec.attempts = MaxAttempts
      BY <1>5, <1>6, <1>9, AttemptsAssumption
    <3>. QED
      BY <1>3, <1>9, <2>1, <3>1, <3>2, Solo DEF HandInv
  <2>3. \A i \in Jobs : Unfinished(i)' <=> Unfinished(i)
    BY <1>8, <1>12
  <2>4. LeftInv'
    BY <1>1, <2>1, <2>3 DEF LifeInv, LeftInv
  <2>5. \A i \in Jobs : StatusOf(i)' = StatusOf(i) /\ TriesOf(i)' = TriesOf(i)
    BY <1>1, <2>1, <2>3 DEF StatusOf, TriesOf
  <2>. QED
    BY <2>2, <2>4, <2>5, SameLife DEF LifeInv
<1>. QED
  BY <1>11, <1>12

LEMMA SaveLives ==
  ASSUME OneAtATime, IndInv, CountInv, LifeInv, NEW p \in Pollers, Save(p), shared' = shared
  PROVE  LifeInv' /\ [Lifecycle!Next]_(Lifecycle!vars)
<1>1. PICK j \in Jobs : j = poll[p].job
  BY DEF IndInv, TypeOK, Poller
<1>2. /\ poll[p].pc = "save" /\ j \in Held(p) /\ j \notin poll[p].batch
      /\ UNCHANGED <<ran, enqueued>> /\ poll[p].batch \subseteq Jobs \ {j} /\ j \in enqueued
  BY <1>1, Holding DEF Save
<1>3. poll'[p].pc \in {"idle", "take"} /\ poll'[p].batch = poll[p].batch
  <2>1. CASE poll[p].batch = {}
    <3>1. Idle.batch = {} /\ Idle.pc = "idle"
      BY DEF Idle
    <3>2. poll' = [poll EXCEPT ![p] = Idle]
      BY <2>1 DEF Save
    <3>. QED
      BY <2>1, <3>1, <3>2 DEF IndInv, TypeOK
  <2>2. CASE poll[p].batch # {}
    <3>1. poll' = [poll EXCEPT ![p] = [poll[p] EXCEPT !.pc = "take"]]
      BY <2>2 DEF Save
    <3>. QED
      BY <3>1 DEF IndInv, TypeOK, Poller
  <2>. QED
    BY <2>1, <2>2
<1>4. /\ \A i \in Jobs \ {j} : ~ Unfinished(i) /\ ~ Unfinished(i)'
      /\ ~ Unfinished(j)' /\ (Unfinished(j) <=> ~ shared)
  BY <1>1, <1>2, <1>3, Solo
<1>5. CASE shared
  <2>1. store' = store
    BY <1>5 DEF Save
  <2>2. HandInv'
    BY <1>3, <1>5, Solo DEF HandInv
  <2>3. LeftInv'
    BY <1>2, <1>4, <1>5, <2>1 DEF LifeInv, LeftInv
  <2>4. \A i \in Jobs : StatusOf(i)' = StatusOf(i) /\ TriesOf(i)' = TriesOf(i)
    BY <1>2, <1>4, <1>5, <2>1 DEF StatusOf, TriesOf
  <2>. QED
    BY <2>2, <2>3, <2>4, SameLife DEF LifeInv
<1>6. CASE ~ shared
  <2>1. /\ \A i \in Jobs \ {j} : store'[i] = store[i] /\ copy'[p][i] = copy[p][i]
        /\ store'[j] = IF copy[p][j].status = "completed" THEN NoJob ELSE copy[p][j]
    BY <1>1, <1>6 DEF Save, IndInv, TypeOK
  <2>2. PICK rec \in Record : rec = copy[p][j]
    BY DEF IndInv, TypeOK
  <2>3. /\ rec.attempts = ran[j] /\ store[j].status = "pending"
        /\ \/ rec.status = "completed"
           \/ rec.status = "pending" /\ rec.attempts < MaxAttempts
           \/ rec.status = "failed" /\ rec.attempts = MaxAttempts
    BY <1>1, <1>2, <1>6, <2>2 DEF LifeInv, HandInv, CountInv, RedisCounts
  <2>4. ran[j] \in 1..MaxAttempts
    BY <1>4, <1>6, <2>3 DEF LifeInv, LeftInv
  <2>5. HandInv'
    BY <1>2, <1>3, <2>1, Solo DEF LifeInv, HandInv
  <2>6. \/ rec.status = "completed" /\ store'[j].status = "absent"
        \/ rec.status # "completed" /\ store'[j] = rec
    BY <2>1, <2>2 DEF NoJob
  <2>7. LeftInv'
    BY <1>2, <1>4, <2>1, <2>3, <2>6 DEF LifeInv, LeftInv
  <2>8. \A i \in Jobs \ {j} : StatusOf(i)' = StatusOf(i) /\ TriesOf(i)' = TriesOf(i)
    BY <1>2, <1>4, <2>1 DEF StatusOf, TriesOf
  <2>9. /\ StatusOf(j) = "pending" /\ TriesOf(j) = ran[j] - 1 /\ TriesOf(j)' = ran[j]
        /\ StatusOf(j)' = rec.status
    BY <1>2, <1>4, <1>6, <2>3, <2>6 DEF StatusOf, TriesOf
  <2>10. TriesOf(j) < MaxAttempts /\ TriesOf(j)' = TriesOf(j) + 1
    BY <2>4, <2>9, AttemptsAssumption
  <2>11. \/ StatusOf(j)' = "completed"
         \/ StatusOf(j)' = "failed" /\ TriesOf(j)' = MaxAttempts
         \/ StatusOf(j)' = "pending" /\ TriesOf(j)' # MaxAttempts
    BY <2>3, <2>4, <2>9, AttemptsAssumption
  <2>. QED
    BY <2>5, <2>7, <2>8, <2>9, <2>10, <2>11, OneLife DEF LifeInv
<1>. QED
  BY <1>5, <1>6

LEMMA NextLives ==
  ASSUME OneAtATime, IndInv, CountInv, LifeInv, [Next]_vars
  PROVE  LifeInv' /\ [Lifecycle!Next]_(Lifecycle!vars)
<1>1. ASSUME UNCHANGED <<shared, store, copy, poll, enqueued, ran>>
      PROVE  LifeInv' /\ [Lifecycle!Next]_(Lifecycle!vars)
  <2>1. \A p \in Pollers : poll[p].job \in Jobs /\ poll[p].batch \subseteq Jobs
    BY DEF IndInv, TypeOK, Poller
  <2>. QED
    BY <1>1, <2>1, QuietLives
<1>2. CASE UNCHANGED vars
  BY <1>1, <1>2 DEF vars
<1>3. CASE (Start \/ Stop) /\ shared' = shared
  BY <1>1, <1>3 DEF Start, Stop
<1>4. ASSUME NEW p \in Pollers, PollerStep(p), shared' = shared
      PROVE  LifeInv' /\ [Lifecycle!Next]_(Lifecycle!vars)
  BY <1>4, PollLives, TakeLives, RunEndLives, SaveLives DEF PollerStep
<1>5. \A p \in Pollers : ~ Crash(p)
  BY DEF Crash, OneAtATime, IndInv, TypeOK
<1>. QED
  BY <1>2, <1>3, <1>4, <1>5, EnqueueLives, TickLives DEF Next

(* As long as polls do not overlap, the queue with either store implements the life
   cycle of each job: pending, at most MaxAttempts attempts, then completed or
   dead-lettered for good. *)
THEOREM LivesAreOrderly == ASSUME OneAtATime PROVE Spec => ImplementsLifecycle
<1>1. Init => LifeInv /\ Lifecycle!Init
  BY InitLives
<1>2. IndInv /\ CountInv /\ LifeInv /\ [Next]_vars => LifeInv'
  BY NextLives
<1>3. IndInv /\ CountInv /\ LifeInv /\ [Next]_vars => [Lifecycle!Next]_(Lifecycle!vars)
  BY NextLives
<1>. QED
  BY <1>1, <1>2, <1>3, Counting, PTL DEF Spec, ImplementsLifecycle, Lifecycle!Spec
=============================================================================
