# Turnover: TLA+ models and proofs

Turnover (`src/`, a TypeScript framework for Bun) is an application kernel with a
dependency-injection container, a request pipeline built from hooks, and a set of
stateful services: sessions, one-time codes, background jobs, scheduled tasks,
Server-Sent Events, caches, rate limits. All of it runs on one event loop, so
nothing runs in parallel, but every `await` is a point where any other request,
timer, signal or store reply may run. With the Redis stores, several processes
(replicas) share state. That is where most of these models look; a last module is
about what the sequential parts compute.

Sources are under `src/src/`; a path such as `jobs.ts:209` below means
`src/src/jobs.ts`, line 209.

## Inventory

| Component | State it keeps | Operations | Interacts with | What is hard | What makes it correct |
|---|---|---|---|---|---|
| Request pipeline (`app.ts` `handle`, `dispatch`, `mount`, `handleError`; `metrics.ts` gauge) | per request: stage, Response or error in flight, queued headers; the in-flight gauge | one step per hook of each list; an interceptor may call `next()` again | every plugin is a hook of it | two `try` regions, errors and thrown Responses take different branches, retries, other requests between any two hooks | guards before handler, failures contained, headers applied once, every request leaves, exact gauge |
| Container (`di.ts`, `request.ts`, `createApp`'s start) | singletons, `resolving`, the active container, request scopes, hooks still running | `resolve`, `inject`, factories, `init`, request-scoped proxies | everything is built by it | constructors, hooks, post-processors and factories call back into it, and any of them may throw | one instance, context restored, dependencies tracked first, ready means initialised |
| Decorated methods (`cache.ts`, `transaction.ts`, `aop.ts`, `events.ts`, `redisCacheStore`) | cache entries, subscriptions, open transactions | a call through the proxies, `publish` | methods of beans; replicas share Redis | proxies around proxies, misses and clears that overlap, commands that fail between two awaits | only committed results are cached, advice runs once, evicted stays evicted |
| Background jobs (`jobs.ts`, `redisJobStore`) | job records, interval timer | `enqueue`, `start`, `stop`, `process` | the job store, shared by replicas | the interval does not wait for the previous poll; read, run and save are three steps; crashes | no job lost, attempts counted, life cycle of a job, every job settles |
| One-time codes (`passwordless.ts`, `redisOtpStore`) | one record per identifier | `issue`, `verify` | the code store | `verify` reads, compares and writes in separate awaits | attempts bounded, burned stays burned, single use |
| Sessions (`session.ts`, `redisSessionStore`) | the store, the client's cookie, the `SessionState` of a request | load, `set`, `delete`, `clear`, `regenerate`, `destroy`, persist | wraps a request | the order of operations in a handler, shared objects against copies, expiry | a handler sees what earlier requests left; old ids are gone |
| Server-Sent Events (`sse.ts`) | queue, waiters, closed flag, heartbeats | `push`, `close`, the iteration, heartbeat, disconnect | the streams of responses | hand-over to a sleeping stream in a later microtask | no lost wake-up, each event once and in order, drained before the end |
| Application life cycle (`app.ts` `listen`, `stop`, signals; `di.ts` `dispose`) | server, signal handlers, services to destroy | `listen`, `stop`, `gracefulExit` | starts and stops the scheduler, destroys the services | `stop` awaits four kinds of things and may be called again meanwhile | each service destroyed once, users first, a clean exit code tells the truth |
| Scheduler (`scheduling.ts`) | tasks, timers, started flag | `add`, `start`, `stop`, a tick | run by the life cycle; its tasks are application code | `runOnStart` runs application code in the middle of `start` and `add` | no task without its timer; one timer for each task while listening, none otherwise, but for the cases named below |
| Bootstrap and routing (`createApp`, `walkModule`, `addRoute`, `dispatch`, delegates, `metadata.ts`, `macros.ts`, `module.ts`) | route tables, decorator metadata | registration, one lookup per request | container, pipeline | nested modules, inherited metadata, which of several patterns wins | a request reaches the handler the registrations say, with every hook around it |
| Plugins (CORS, CSRF, ETag, compression, security headers, body limit, request id, rate limit, authentication, guards, cookies, errors, health) | rate-limit windows | one hook or wrapper each | each other, through the order in which they are registered | the same plugins in another order | what each promises holds in every order |
| Sign-in algorithms (`totp.ts`, `step-up.ts`, `oauth2.ts`, `password.ts`) | marks in the session bag | generate, verify, elevate, exchange | sessions | clock windows, 32-bit shifts, overridden parameters | a code is valid in its window only, elevation is recent, the verifier matches its challenge |
| Inputs and registries (`config.ts`, `multipart.ts`, `mailer.ts`, `logger.ts`, `metrics.ts`, `pagination.ts`, `auth.ts`) | metric series | parse, bind, observe, page | the application | limits at their boundary, names that collide | nothing given gets lost, no limit is exceeded |
| Everything else | none or I/O | — | — | — | see *Not modelled* |

Components talk in three ways: plugins register hooks and wrappers that the
pipeline awaits; services are constructed by the container, whose
post-processors wrap their methods and register event listeners and scheduled
tasks; and stateful plugins await a store, which is either an object of this
process or Redis.

The hazards, each with its line and the properties aimed at it, are listed in
`PROJECT.json`.

## Modules

| Module | Models | Checked by | Proved in |
|---|---|---|---|
| `RequestPipeline` | `App.handle`, `dispatch`, `mount`, `handleError`, the gauge of `metrics()` | `pipeline` (`MCRequestPipeline`) | `Request_proofs` |
| `Container` | `Container`, the request scope, `createApp`'s mount and `init()` | `container` (`MCContainer`) | `Container_proofs` |
| `CachedMethods` | the proxies of `cache.ts`, `transaction.ts` and `aop.ts`, `Events`, both cache stores | `methods` (`MCCachedMethods`) | `CachedMethods_proofs` |
| `JobQueue`; abstract: `JobLifecycle` | `JobQueue`, `memoryJobStore`, `redisJobStore` | `jobs_alone`, `jobs_replicas`, `jobs_overlap` (`MCJobQueue`) | `JobQueue_proofs` |
| `Passwordless`; abstract: `OneTimeCode` | `Passwordless`, both code stores | `otp_codes`, `otp_used_twice` | `Passwordless_proofs` |
| `Session`; abstract: `SessionBag` | `session()`, `Session`, both session stores | `session` | `Session_proofs` |
| `SseChannel`; abstract: `FifoChannel` | `SseChannel`, `sse()` | `sse_channel` | `SseChannel_proofs` |
| `Scheduler`, extended by `AppLifecycle` | `Scheduler`; `listen`, `stop`, signals, `dispose` | `app_lifecycle` | `AppLifecycle_proofs` |
| `Computations`, which brings together `Routing`, `Plugins`, `SignIn`, `Inputs`, `Metrics`, `Pagination` (and `Values`) | the sequential parts | `computations` (`MCComputations`) | `Request_proofs` |
| `RequestInvariants` | no code: the inductive invariants of `RequestPipeline` and `Computations` | — | `Request_proofs` |

Definitions keep the source's names where they can. A definition whose comment
begins with *Mutant of* is not part of any specification: it is the definition it
names with one plausible bug, and replacing the one by the other must make TLC
find a named property violated (`PROJECT.json`, `mutants`), which shows that the
property depends on that piece of code. A property that gathers several has
several mutants.

### RequestPipeline

`req[r]` is where request `r` is: the stage, the index of the hook in the list
of that stage, what travels back (`none`, a Response, an error, a thrown
Response) and the stage that made it. Each stage of `mount()` is one action, and
one step is what happens between two awaits. What a hook does is the
application's business, so each hook chooses among the outcomes the pipeline can
tell apart. Interceptors and wrappers are entered on the way in and resumed,
innermost first, on the way out; `InterceptRetry` is an interceptor that calls
`next()` again. `did` is history: how often each step of a request completed.

Abstracted: routing is one nondeterministic choice (`Routing` has the lookup),
the payloads do not appear, and a wrapper that calls `next()` twice is left out.

### Container

A resolution is synchronous but re-entrant, so the JavaScript call stack is the
variable `stack`: a frame for each `construct()` and each factory call in
progress, with the container that was active before (`previous`) and how far its
instance is (`new`, `hooks`, `process`). The code that runs in the top frame
decides what to resolve next, so `Ask` is a choice, and so is `Throw`. `active`
and `resolving` are the two pieces of state that every unwinding has to put
back; `cached` has the raw and the finished instance of a singleton, `held` the
scope of each request. Promises of hooks end between resolutions; `init()` takes
the hooks that have begun (`awaited`), round after round. `made`, `uses` and
`atBoot` are history.

### CachedMethods

A call goes through the proxies in the order in which createApp's
post-processors nest them: cache, transaction, advice, body. Each await is a
phase of the call. Calls come from outside (`proxy`), from the object itself
(`self`, the bare body) or from an event (`event`, which passes the advice only,
because listeners are subscribed before the outer proxies exist). Entries know
which call computed them, so that a stale, uncommitted or evicted result can be
told from a right one. With Redis, `clear()` reads the keys and deletes them one
by one, `set` is SET and then EXPIRE, any command may reject and a replica may
die between any two of them.

`applyAdvice` ends in three ways, each an action: what is thrown runs the after
advice in the `catch` (`Throws`), a value runs it after the `try` (`Returns`), and a
promise in its `finally` (`Promises`, then `Settles`). `RunAfter` is the loop over
the `Afters` advices, which ends early at one that throws, and `trail` records what
ran, so that advice that ran twice, in another order or before its method had
finished could be seen. An after advice that is itself asynchronous is started there
and awaited by nobody, as in the code.

### JobQueue, JobLifecycle

A poller is one call of `process()`; each replica's interval starts one whether
or not the previous has ended. The memory store hands out the stored objects, so
`Take`, `Succeed` and `Fail` write the store at once; the Redis store hands out
copies, written back by `Save`. Time is what is left of it: `wait` until `runAt`
and `age` since the poller read its clock, which is how the code comes to count
a backoff from the start of the poll. `Crash` ends a poller anywhere (Redis).
`JobLifecycle` is the life of one job without pollers: pending, an attempt,
completed or retried or dead-lettered after `MaxAttempts`.

### Passwordless, OneTimeCode

One identifier; codes are numbered in order of issue. `Read` is the first await
of `verify()`, after which the call compares, then deletes or writes the record.
The memory store changes its map before the promise is returned, so there the
second await is no step; a Redis command takes effect some time after it was
sent, and the record it writes back was read earlier. `alone` (chosen in `Init`)
says that calls are made one at a time. `OneTimeCode` is the promise: a code may
be used once, or missed at most `MaxAttempts` times.

### Session, SessionBag

One client with its cookie (`jar`), any number of requests, each with the
fields of `SessionState` and its data *object*: `heap` holds the objects, and
`live` says whether the store keeps those very objects (memory) or copies
(Redis). Handlers call the operations in any order; a wrapper may throw.
`SessionBag` is what a handler may rely on: it sees what the previous request
left, or nothing after an expiry or a logout.

### SseChannel, FifoChannel

`queue`, `waiters` and `closed` are those of the class. A stream sleeps as a
waiter, is handed an event (`handed`) and goes on in a later step, when the
channel may have changed; a heartbeat timer writes to it meanwhile; its client
may leave at any time. `FifoChannel` has one sequence of events, `waiting`: an
event is put at its end or, if none waits, handed to a reader; readers take from
its front, `got` is the sequence each has received, and a reader ends when the
channel is closed and drained. So a channel that took the newest event, or
handed one over past others that wait, would not implement it. An event that is
taken for a client that has left is lost, in both.

### Scheduler, AppLifecycle

`calls` is the call stack of task runs: `schedule()` calls a `runOnStart` task
*before* it sets the interval, and what that task does (construct the next
service, stop the application) happens in the middle of `add()` or `start()`,
whose index is `walk`. `AppLifecycle` adds the server, the signal handlers and,
for each call of `stop()`, where it is: awaiting a hook, the server or the
`@preDestroy` hook of a service of its list. `alive` is the container's list,
`mine` what one `dispose()` took from it.

The application may do three things that break a promise of the scheduler:
construct a scheduled service in a run that `start()` calls (the task gets two
timers), stop itself in a run that `start()` or `add()` calls (the timer of that
task is set after all), and call `listen()` while a `stop()` is pending (which then
closes the new server). The model has all three, and `disorders` is the history of
them since the last `stop()` that did not interrupt `start()`, which puts
everything right. Services are destroyed once and in order and no task is without
a timer whatever happens; that a task has no *second* timer (`TimersMatch`) is
claimed while neither of the first two is in `disorders`, that it fires only while
the application listens (`FiresOnlyWhileListening`) while `disorders` is empty.
`OneTimerEach` claims it always, and does not hold (see *What does not hold*).

### Computations

Each operator is translated from one function: the tables, the prototype chain
of the metadata, macros, `walkModule` and `mount` in `Routing`; each plugin's
hooks or wrapper in `Plugins`; base32, TOTP, step-up, OAuth2 and password rules
in `SignIn`; settings, uploads, mail and log records in `Inputs`; the registry in
`Metrics`; pages in `Pagination`.

A behaviour begins with one question (`Questions`: an application and its
requests, an upload, the hits of a client, a secret, ...) and answers it in the
steps of the code, `done` of them so far: an action is one call of `addRoute`,
one decorator, one module entered or one controller collected by the walk, one
wrapper entered or left, one part of an upload, one entry, hit or observation,
one byte given to `base32Encode` or one character passed on to `base32Decode`.
Where the code recurses or loops, `answer` holds what its stack or accumulators
hold: `todo` is what is left of the walk over the modules, `enc` and `dec` the
words and the output of the two loops of base32. Because an invariant speaks of
every prefix of the calls, it also says what the code keeps while it works.

The four invariants compare `answer` with definitions made without the
algorithm: `RoutesAgree` picks the winning registration by comparing patterns,
and lists the ways through the modules instead of walking them; `RateIsFair`
counts the admitted hits in every span of time; `BucketsAreCumulative` counts
observations; `CodesVerify` knows only how far apart two periods are, and that the
bytes read back are those that were written. Shifts are taken modulo `WordSize`.
`PluginsKeepPromises` follows one request through the plugins: the handler is
reached only by a request that none of body limit, rate limit, CSRF and
authentication with its guard refuses; the body is what its headers say; and
request id, rate-limit headers and the CSRF cookie are on the answer when no
`etag` outside them made it a 304. That exception is the code's and not the
documentation's: `IdIsEchoed` and `LimitIsTold` state the sentences of the
documentation, and do not hold (see *What does not hold*).

Values are abstract, but for what a plain object makes of them: `ObjectNames` are
the names that every object inherits, which upload fields are grouped by and the
level of the logger is looked up under; `Numerals` are the words of a key that
begin with a digit, where `toCamelCase` loses the boundary.

`Sensible` says which questions make sense, as an assumption on `Questions` that
TLC evaluates: data of the right types; a class is decorated after its parent,
of which it has one; no module lists another twice; hits come in the order of time; a
metric is created first and used as what it is, a gauge with naturals; the `maxLimit` of
pages is positive; and no cookie value is one of the strings that stand for
escaped characters.

## Runs

All bounds are constants of a `.cfg` or definitions of an `MC` module.

| Run | Bounds | Shows |
|---|---|---|
| `pipeline` | 2 requests; two guards, wrappers (the inner one that of `metrics()`), interceptors, error and response hooks, one of each other hook; 2 retries. One request has every history, the other those of `BriefCompanion`: a wrapper, the coercion of the result and the rendering of the error may fail or answer, the rest passes | the order and containment properties, that every request settles, and the gauge while two requests pass `metrics()` in any interleaving. Two per list are enough for an order within the list and for a failure before or after another hook. Requests share nothing but the gauge, and what the gauge can tell apart of a request is which way it enters and leaves `metrics()`; the theorems are about any number of requests with every history |
| `container` | 3 classes (two singletons, one also bound as transient, one request bean), 1 factory, 2 requests, 4 constructions | one instance per holder, the context after every unwinding, the order of `disposables`, and that `createApp` settles. Four constructions nest every kind of frame in every other, and leave one for a second attempt after a throw |
| `methods` | 3 calls, 2 keys, 3 methods (cached; cached, evicting and transactional; evicting and transactional), 2 after advices, 1 publication, symmetric | what is cached, how often and in which order advice runs, what stays evicted. Two after advices have one that does not run because the first threw. Three calls are one that clears, one that fills meanwhile and one whose result was there |
| `jobs_alone` | 2 jobs, 1 poller, 3 attempts, backoff 1 then 2, delay 0 or 1, either store | no run is early, every job follows `JobLifecycle`, whose attempts are the runs that ended. Two jobs make a batch in which one waits for the other; three attempts have a first, a middle and a last one |
| `jobs_replicas` | 1 job, 2 pollers, 1 crash | whatever overlaps or crashes, no job is lost and each one settles |
| `jobs_overlap` | 1 job, 2 pollers, 2 attempts | **violation**: a completed job becomes failed |
| `otp_codes` | 2 calls, 2 attempts, 2 codes, either store, overlapping or alone | no spent code is kept, wrong tries are bounded and burning is final in memory, calls alone implement `OneTimeCode` |
| `otp_used_twice` | the same | **violation**: a code is accepted twice |
| `session` | one request at a time, 1 value, 3 ids, 4 objects in use at once, either store, with or without expiry | every handler sees `SessionBag`, careful handlers leave no old session. Ids and objects are reused once nothing refers to them, so any number of requests is covered |
| `sse_channel` | 2 streams, 3 events, heartbeats, clients that leave | the properties of the channel; two sleepers and an event more than sleepers are what hand-over races need |
| `app_lifecycle` | 2 services with a task each (1 runs on start), 2 calls of `stop()`, 1 hook, 2 `listen()` | timers, services destroyed once and in order, exit codes, and that every `stop()` ends. A task that runs on start can construct the other service and stop the application; two overlapping `stop()` calls and two services are what it takes for one to wait for what the other took, and for an order among services |
| `computations` | up to 3 routes, 3 modules nested in any way, up to 3 plugins in any order, 5 decorated classes of 4, 5 hits of a client, secrets of up to 5 bytes in words of 16 bits, and so on (`MCComputations`) | after every step the code has kept what the definitions say. Two or three of each are what it takes for one to shadow, wrap or exceed another, and five bytes overflow the word |

Deadlock is checked in all runs but `sse_channel` (a channel that is closed,
drained and left by its clients stops for good), `methods` (calls are finite),
`container` (its constructions are) and `computations` (a question is answered).

### Fairness

* `pipeline`: weak fairness of the steps of each request that has arrived. The
  event loop resumes every continuation, and hooks are assumed to return.
* `container`: weak fairness of the call that is running (it returns or throws),
  of the hooks' promises (they settle: `init()` has no timeout) and of `init()`.
* `jobs_replicas`: weak fairness of each poller's steps while it runs (handlers return,
  Redis answers), of a poll that is due while the timer is installed, and of time.
* `sse_channel`: weak fairness of each stream's iteration; nobody has to push.
* `app_lifecycle`: weak fairness of the code on the call stack (it returns), strong
  fairness of the steps of each `stop()` (hooks settle, connections end): between
  two timers that keep firing the event loop comes to an await that has settled.

The other runs check safety only and need none.

## Proofs

The theorems hold for every value of the constants under the `ASSUME`s in the
modules, which only give the constants their types, require positive limits
and, for `Computations`, questions that make sense (`Sensible`, described above).
Each proof module follows one pattern: an inductive invariant, one lemma per action or group
of actions, and a temporal step. `Request_proofs` is by far the largest: checking
it from nothing takes `tlapm` some twenty minutes.

| Module | Theorems | Inductive invariant and why it is needed |
|---|---|---|
| `Request_proofs` | `TypeCorrect`, `HandlersAreGuarded`, `RetriesStayInCore`, `FailuresContained`, `OutgoingApplied`, `HooksAllRun`, `ErrorChainInOrder`, `GaugeIsExact` | `LocalInv`: for each request, what the counters must be at each stage (so many guards have passed because the index is there) and which stages can have made what is in flight. `GaugeIsExact` is about all requests: each step adds or removes at most one element of the set that is counted |
| `Request_proofs` | `AnswersInductive`, `RequestsAreRouted`, `PluginsAreSound`, `LimitsAlwaysHold`, `SignInsAreSound` | `AnswerInv`, one conjunct for each kind of question: see below |
| `Container_proofs` | `TypeCorrect`, `AtMostOneInstance`, `ContextAlwaysMatches`, `DependenciesTrackedFirst`, `ReadyIsInitialized` | each frame remembers that a container was active exactly when a frame was below it; a class is resolving exactly if one frame constructs it; an instance is counted where it is cached; a finished singleton has been tracked, and a singleton that can still be given something has not |
| `CachedMethods_proofs` | `TypeCorrect`, `CachesOnlyCommitted`, `AdviceRunsOnce`, `EvictionLasts` | `CallOK`: which proxies and which history brought a call to its phase, and which after advices have run by then. `StoreOK`: what is stored is the result of a call that can change no more. `ClearOK`: what a pending `clear()` has to remove is under a key it has not deleted yet, and no call computes an evicted result again |
| `JobQueue_proofs` | `TypeCorrect`, `NoJobsLost`, `MemoryStoreKeeps`, `AttemptsAreCounted`, `RunsAreDue`, `LivesAreOrderly` | every copy a poller holds is *truthful*: its status and attempts never claim more than what was run and won, so that an outdated save cannot lose a job. `CountInv`: in memory the attempts of a record are the runs of its job, except between a run and its record; with one poll at a time a copy is the record it was read from, and the rest of the batch is still pending and due. `LifeInv`: what a poller holds stays pending until its attempt ends, and a pending job has attempts left |
| `Passwordless_proofs` | `TypeCorrect`, `NoSpentCodeKept`, `MemoryTriesBounded`, `MemoryBurnedStaysBurned`, `AloneIsOneTime` | attempts that a call is about to write are below the limit; in memory the counter of a record equals the wrong guesses made at it. `AloneInv`: one call at a time finds the newest code or none, and what it read of the wrong tries is right |
| `Session_proofs` | `TypeCorrect`, `LeavesNone`, `OneAtATimeSeesTheBag` | at each point of a request, under which ids a session may still be stored. `BagInv`: the data that a handler works on is what the store has, unless it was changed or expired; an answer names what was saved, or nothing was |
| `SseChannel_proofs` | `TypeCorrect`, `NoWakeupLost`, `Drained`, `Implements`, `InOrder`, `HeartbeatsStop` | the waiters are exactly the sleeping streams, without repetition; queue and waiters are never both non-empty; an ended stream leaves nothing behind; so the abstract queue is the queue, and what is handed over is never newer than what waits. `FlowInv`: the queue holds the last events that were pushed, each one before them is at one stream, and what a stream was handed is newer than what it sent |
| `AppLifecycle_proofs` | `TypeCorrect`, `TasksKeepTimers`, `TimersAlwaysMatch`, `FiresWhileListening`, `EachDestroyedOnce`, `UsersDestroyedFirst`, `ExitsCleanly` | `ServedInv`: while the scheduler is started a registered task has a timer, or a run of it is on the stack, or the walk has it ahead. `TimerInv`: *during* `start()` a task has its timer exactly if the walk has passed it and its own run has returned, and the runs on the stack are of different tasks, unless `disorders` has `construct` or `stop`; and no `stop()` is pending while the scheduler is started, unless it has anything. `DestroyInv`: the container's list is in construction order, every list a `dispose()` took is in reverse, and what it found is gone from the container |

Four are refinements, the initial states mapping to initial states and each step
to a step or a stutter: `SseChannel_proofs!Implements` (`FifoChannel`),
`JobQueue_proofs!LivesAreOrderly` (`JobLifecycle`, when polls do not overlap),
`Passwordless_proofs!AloneIsOneTime` (`OneTimeCode`, when calls do not) and
`Session_proofs!OneAtATimeSeesTheBag` (`SessionBag`, when requests do not).

The conjuncts of `AnswerInv` say what the code keeps between two steps, for
applications and inputs of any size:

* `RoutesInv`: the rows of the table stand in the order in which their patterns
  were first registered, each with the latest handler for every method; of
  the delegates a longer prefix comes first. Then the first row that fits is the
  registration that should win.
* `DecorationsInv`: all decorated classes on one line of descent share the list
  of one owner, which has the hooks of all of them, those of the base first.
* `MacrosInv`: the lists are the macros' lists in a row.
* `ModulesInv`: every active controller on every way from a root is either
  collected or beneath exactly one item that is still to be walked; an item
  carries the prefixes and hooks of its way in order. Entering a module splits what
  its item covers among the new ones, which is why cycles end and diamonds are
  walked once per way.
* `PluginsInv`: what has been entered has let the request pass, the principal is
  that of a valid credential, and the response on its way out is honest about its
  body and its origin and has the headers of the wrappers it has left, but for a
  304 behind an `etag`; `plain`, a history variable, is that response as it would
  be without `If-None-Match`.
* `HitsInv`: each hit belongs to a window opened by an earlier hit, windows do
  not overlap, and the first `limit` hits of each were admitted.
* `MetricsInv`: a series holds the sum since its last `set`, or for each bucket the
  number of observations at or below it.
* `MailsInv`, `RecordsInv`, `UploadInv`, `CookiesInv`, `SettingsInv`: what is kept is
  what was due of the calls so far, in their order, and the latest of each name.
* `Base32Inv`: the bits the decoder holds, followed by those the encoder holds, are
  the bytes taken and not yet written back, although the word has lost its upper bits.
* `BagInv`, `StaticInv`: the marks of the last operation; the answers of one step.

Sums are cardinalities of sets of units and the loops are steps, so that none of
this needs an induction over data. The proofs rest on `WordSize` being a multiple of
8192, which the 32-bit words of JavaScript are.

Only proved, and checked by no run: `AttemptsAreCounted`, `MemoryStoreKeeps`, `HooksAllRun`,
`ErrorChainInOrder`, `Drained`.

Only model-checked: liveness (`EveryRequestSettles`, `EveryJobSettles`,
`BootSettles`, `EventsArrive`, `StopSettles`), which needs fairness and ENABLED.

## What does not hold

Runs of kind *violation*, with the sentence of the code they refute:

* `jobs_overlap`: a job is pending "until a handler succeeds" (`jobs.ts:2`). The
  interval does not wait for a slow poll; two polls run one job, and the later,
  failing its last attempt, overwrites `completed` with `failed`. With Redis,
  attempts are lost in the same way. (`TerminalIsFinal`)
* `otp_used_twice`: "single-use" (`passwordless.ts:91`). Two overlapping calls
  read the record before either deletes it. (`UsedOnce`)
Sentences of the code that are stated in the modules as they stand and have no run
of their own. TLC refutes each when it is added to the run that is named:

* `OldIdDestroyed` (`session`): "The old id is destroyed on persist"
  (`session.ts:185`). A handler
  that regenerates the session and then destroys it leaves the session of the
  client's old id in the store; so does one that regenerates twice, because `oldId`
  keeps one id (`session.ts:189`). `CarefulLeavesNone` is about handlers that do
  neither.
* `LeaverStops` (`sse_channel`): "Iteration stops when … the client disconnects"
  (`sse.ts:38`). The
  stream has no cancel handler: it sleeps on and takes one more event.
* `OneTimerEach` (`app_lifecycle`): "Milliseconds between the starts of consecutive
  runs" (`scheduling.ts:6`). The list is walked while tasks run; a task added by a
  `runOnStart` run is scheduled by `add()` and again by `start()`.
* `FiresOnlyWhileListening` without its condition on `disorders` (`app_lifecycle`):
  "Fires only while the app is listening" (`scheduling.ts:86`). When a `runOnStart`
  run stops the application, its interval is set after `stop()` has cleared the
  timers, and fires from then on. A `listen()` during a pending `stop()` starts the
  scheduler and opens a server that this `stop()` then closes.
* `IdIsEchoed`, `LimitIsTold` (`computations`): "every response carries
  `x-request-id`" (`request-id.ts:26`), "Every response carries `X-RateLimit-Limit`"
  (`rate-limit.ts:59`). The 304 of an `etag` that was registered before them is a new
  Response without their headers; a CSRF cookie set inside it is lost in the same way.

Found while modelling, besides:

* Pipeline: "Never throws, so `handle()` always resolves to a `Response`"
  (`app.ts:741`) is true of `settle()` only: an `onRequest` hook, a wrapper or an
  `onResponse` hook that throws is outside any `try`, so `handle()` rejects and
  the after hooks do not run.
* Routing: routes are found by pattern first, so `GET /users/:id` next to
  `POST /users/:uid` answers a POST with 405, and a static route shadows a
  parameter route of another method (405 as well). A second route of the same
  pattern and method replaces the first silently. Malformed percent-encoding
  throws inside `dispatch`. Wrappers do not run around 404, 405, preflights or
  delegates. Error handlers of nested modules run the outer module's first.
* Decorator metadata: lists are read through the prototype chain and appended to in place,
  so what a subclass declares also applies to its parent and its siblings.
* Plugins: `compression` replaces `Vary`; `bodyLimit`
  lets bodies without `content-length` pass; windows of the rate limiter are
  never removed.
* Container: a singleton whose `@postConstruct` hook threw stays cached and is
  handed out half-built (`di.ts:249`); factories that need each other recurse
  without end (`di.ts:212`); the asynchronous hook of a singleton first resolved
  in a request is awaited by nobody.
* Decorated methods: an event reaches a listener without transaction or cache, and beans
  that are constructed anew (transient, request scope) subscribe anew each time;
  a result computed before a `cacheEvict` and stored after it stays; `ttl: 0` is
  one second in Redis and for ever in memory; a replica that dies between SET and
  EXPIRE leaves an entry that never expires; when the store rejects, so does the
  call, although its transaction has committed.
* Sessions: requests of one client that overlap save whole bags; the later save
  undoes the earlier one and may bring back a session that was destroyed. With the memory
  store, what a failed request did to the bag stays. A renewed session is
  destroyed under its old id before it is stored under the new one.
* One-time codes with Redis: a wrong try that overlaps `issue()` writes the
  replaced record back, and overlapping wrong tries are counted once.
* Server-Sent Events: an event whose data is `undefined` ends the loop.
* Life cycle: a rejected `server.stop()` skips every
  `@preDestroy` hook; a signal that comes while a `stop()` is pending finds no
  handler and kills the process; a service constructed while `dispose()` runs is
  destroyed only by another `stop()`; `gracefulExit` may exit with code 0 while
  another `stop()` is still destroying services (`CleanExit` says exactly this).
* Jobs: ids join the type, a counter of the process and the clock, so two replicas may
  generate the same one.
* Sign-in: TOTP `verify` throws in the first `window` periods of the epoch and
  accepts a code again within its window; parameters given to the OAuth2 URL
  replace `state` and `code_challenge`; an answer with status 200 and no token
  gives the empty token.
* Inputs: `Config.get('', number)` is 0; a `maxLimit` of 0 gives pages of no
  items; registering a metric under a name that exists returns the existing one,
  of whatever kind; labels that contain `\x1f` may share a series; an `enrich`
  callback of the tracer that throws leaves its span open; an upload field with a file
  that is named as something every object inherits (`constructor`) fails with 500, and
  a `LOG_LEVEL` of that kind lets every record pass.

## Not modelled

* Redis: commands that are lost, the key's own clock. A memory store is lost with
  its process.
* Sessions: a store that rejects between destroying the old id and writing the
  new one, a response that never reaches the client.
* Pipeline: wrappers that call `next()` twice, streams that fail while the body
  is sent.
* Container: which provider wins when a token is bound again, tokens without a
  provider (an error, as `Throw` is).
* Life cycle: `onStart` hooks (their results are dropped), asynchronous runs of a
  task (nothing waits for them).
* Hashes, signatures and random numbers: external functions, taken as injective.
* Schema validation (a function of the application; that it runs, and when, is in
  the pipeline), tracing, static files, WebSocket, OpenAPI, client and code
  generation, bundler, lint, test helpers: input and output or tools, without
  state that two steps could disagree about.

## Plan

1. Properties for the hazards that have none: what survives when requests of one
   session overlap, and stores that reject halfway through `persist()`.
2. A refinement for the cache: what callers of a cached method may see, with
   stale fills as an explicit step, as `OneTimeCode` is for codes.
3. Walls between requests: the part of `Session` in which two requests overlap, as a
   weaker promise that can be proved (an id that was regenerated is not served).
