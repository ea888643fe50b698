-------------------------- MODULE RequestPipeline --------------------------
(***************************************************************************)
(* App.handle: the path of a request through the hooks, the route and the  *)
(* guards, interceptors, handler and error handlers mounted on it          *)
(* (src/src/app.ts).  Several requests are in progress at once: every hook *)
(* is awaited, so between two hooks of one request any other request may   *)
(* run.  What a hook does is up to the application, so each hook chooses   *)
(* among what the pipeline can tell apart: it lets the request pass,       *)
(* answers with a Response, throws an error or throws a Response.          *)
(***************************************************************************)
EXTENDS Integers, FiniteSets

CONSTANTS
  Requests,    \* the requests that clients send
  Hooks,       \* how many hooks are registered for each stage of HookStages
  Metered,     \* position of the wrapper of metrics() among the wrappers
  MaxRetry     \* bound: how often the interceptors call next() again

(* The stages that are lists of hooks, in the order in which they run. *)
HookStages == {"onRequest", "wrap", "derive", "guard", "intercept", "resolve",
               "catch", "respond", "after"}

ASSUME RequestsAssumption == IsFiniteSet(Requests)
ASSUME HooksAssumption == Hooks \in [HookStages -> Nat]
ASSUME MeteredAssumption == Metered \in 1..Hooks["wrap"]
ASSUME MaxRetryAssumption == MaxRetry \in Nat

VARIABLES
  req,         \* for each request, where it is and what it carries
  did,         \* history: for each request, how often each step completed
  inFlight     \* the gauge http_requests_in_flight of metrics()

vars == <<req, did, inFlight>>

(* "intercept" and "wrap" call their hooks on the way in; "unintercept" and
   "unwrap" resume them, innermost first, with what next() gave. *)
Stages == HookStages \union
  {"idle", "route", "delegate", "validate", "handler", "coerce", "unintercept",
   "render", "outgoing", "unwrap", "done", "rejected"}

(* What travels back to the caller: nothing yet, a Response, a thrown error, or
   a Response that was thrown. *)
Flows == {"none", "response", "error", "thrown"}

(* Steps whose completions are counted; "retry" counts the extra next() calls. *)
Counted == {"derive", "guard", "validate", "resolve", "handler", "retry",
            "refuse", "outgoing", "respond", "after"}

Request == [pc : Stages, at : Nat, flow : Flows, origin : Stages]

New == [pc |-> "idle", at |-> 1, flow |-> "none", origin |-> "idle"]

Init ==
  /\ req = [r \in Requests |-> New]
  /\ did = [r \in Requests |-> [s \in Counted |-> 0]]
  /\ inFlight = 0

-----------------------------------------------------------------------------
(* The request r waits for hook number req[r].at of stage s. *)
AtHook(r, s) == req[r].pc = s /\ req[r].at <= Hooks[s]
At(r, s) == req[r].pc = s

(* r goes on as new; a Count also completes a step c. *)
Update(r, new) ==
  /\ req' = [req EXCEPT ![r] = new]
  /\ UNCHANGED did

Count(r, c, new) ==
  /\ req' = [req EXCEPT ![r] = new]
  /\ did' = [did EXCEPT ![r][c] = @ + 1]

(* r moves to the first hook of stage s. *)
Enter(r, s) == [req[r] EXCEPT !.pc = s, !.at = 1]

(* r goes to hook k of the current stage. *)
GoTo(r, k) == [req[r] EXCEPT !.at = k]

(* The current hook let r pass: on to the next one, counted. *)
Pass(r) == Count(r, req[r].pc, GoTo(r, req[r].at + 1))

(* r carries flow f, made by the stage it is in, out to position k of stage s. *)
Carry(r, s, k, f) ==
  [req[r] EXCEPT !.pc = s, !.at = k, !.flow = f, !.origin = req[r].pc]

(* The stage a hook list is followed by. *)
Follow ==
  [onRequest |-> "route", wrap |-> "derive", derive |-> "guard",
   guard |-> "intercept", intercept |-> "validate", resolve |-> "handler",
   catch |-> "render", respond |-> "after", after |-> "done"]

(* The list of the current stage is exhausted. *)
LoopDone(r) ==
  /\ req[r].pc \in HookStages
  /\ req[r].at > Hooks[req[r].pc]
  /\ Update(r, Enter(r, Follow[req[r].pc]))
  /\ UNCHANGED inFlight

-----------------------------------------------------------------------------
(* Before and while routing: no try block is around these. *)

Arrive(r) ==
  /\ At(r, "idle")
  /\ Update(r, Enter(r, "onRequest"))
  /\ UNCHANGED inFlight

(* An onRequest hook: a Response skips routing, a throw leaves handle(). *)
OnRequestHook(r) ==
  /\ AtHook(r, "onRequest")
  /\ \/ Update(r, GoTo(r, req[r].at + 1))
     \/ Update(r, Carry(r, "respond", 1, "response"))
     \/ Update(r, Carry(r, "rejected", 1, "error"))
  /\ UNCHANGED inFlight

(* A route, a delegate, no route or no method (404, 405), or a path segment
   that cannot be decoded. *)
Route(r) ==
  /\ At(r, "route")
  /\ \/ Update(r, Enter(r, "wrap"))
     \/ Update(r, Enter(r, "delegate"))
     \/ Update(r, Carry(r, "respond", 1, "response"))
     \/ Update(r, Carry(r, "rejected", 1, "error"))
  /\ UNCHANGED inFlight

(* The handler of the delegate owns the request; dispatch returns its promise. *)
Delegate(r) ==
  /\ At(r, "delegate")
  /\ \/ Update(r, Carry(r, "respond", 1, "response"))
     \/ Update(r, Carry(r, "rejected", 1, "error"))
  /\ UNCHANGED inFlight

-----------------------------------------------------------------------------
(* The wrappers, outermost. *)

(* The gauge after wrapper k of r gained (1) or lost (-1) its call. *)
Meter(k, d) == inFlight' = IF k = Metered THEN inFlight + d ELSE inFlight

(* A wrapper is called: it awaits next(), answers itself or throws.  The wrapper
   of metrics() always awaits next(). *)
WrapIn(r) ==
  /\ AtHook(r, "wrap")
  /\ LET k == req[r].at IN
     \/ /\ Update(r, GoTo(r, k + 1))
        /\ Meter(k, 1)
     \/ /\ k # Metered
        /\ \E f \in {"response", "error", "thrown"} :
             Update(r, Carry(r, "unwrap", k - 1, f))
        /\ UNCHANGED inFlight

(* Mutant of WrapOut: metrics() lowers the gauge after next() instead of in a
   finally block. *)
WrapOutNoFinally(r) ==
  /\ At(r, "unwrap") /\ req[r].at > 0
  /\ LET k == req[r].at IN
     /\ IF req[r].flow = "response" THEN Meter(k, -1) ELSE UNCHANGED inFlight
     /\ Update(r, GoTo(r, k - 1))

(* The innermost waiting wrapper resumes with what next() gave.  The finally
   block of metrics() lowers the gauge in both cases and changes nothing else. *)
WrapOut(r) ==
  /\ At(r, "unwrap") /\ req[r].at > 0
  /\ LET k == req[r].at IN
     /\ Meter(k, -1)
     /\ \/ Update(r, GoTo(r, k - 1))
        \/ /\ k # Metered
           /\ \E f \in {"response", "error", "thrown"} :
                Update(r, Carry(r, "unwrap", k - 1, f))

(* The promise of the outermost wrapper settles. *)
Leave(r) ==
  /\ At(r, "unwrap") /\ req[r].at = 0
  /\ \/ /\ req[r].flow = "response"
        /\ Update(r, Enter(r, "respond"))
     \/ /\ req[r].flow # "response"
        /\ Update(r, Enter(r, "rejected"))
  /\ UNCHANGED inFlight

-----------------------------------------------------------------------------
(* produce(): inside the try block of settle(). *)

(* What was thrown goes to the catch block of settle(): no interceptor waits. *)
Throw(r, k) ==
  \E f \in {"error", "thrown"} : Update(r, Carry(r, "unintercept", k, f))

DeriveHook(r) ==
  /\ AtHook(r, "derive")
  /\ Pass(r) \/ Throw(r, 0)
  /\ UNCHANGED inFlight

(* Mutant of GuardHook: the Response of a guard is awaited and dropped. *)
GuardHookDropsResponse(r) ==
  /\ AtHook(r, "guard")
  /\ Pass(r) \/ Update(r, GoTo(r, req[r].at + 1)) \/ Throw(r, 0)
  /\ UNCHANGED inFlight

GuardHook(r) ==
  /\ AtHook(r, "guard")
  /\ \/ Pass(r)
     \/ Update(r, Carry(r, "unintercept", 0, "response"))
     \/ Throw(r, 0)
  /\ UNCHANGED inFlight

(* An interceptor is called: it awaits next(), answers itself or throws. *)
InterceptIn(r) ==
  /\ AtHook(r, "intercept")
  /\ LET k == req[r].at IN
     \/ Update(r, GoTo(r, k + 1))
     \/ Update(r, Carry(r, "unintercept", k - 1, "response"))
     \/ Throw(r, k - 1)
  /\ UNCHANGED inFlight

Validate(r) ==
  /\ At(r, "validate")
  /\ \/ Count(r, "validate", Enter(r, "resolve"))
     \/ Throw(r, Hooks["intercept"])
  /\ UNCHANGED inFlight

ResolveHook(r) ==
  /\ AtHook(r, "resolve")
  /\ Pass(r) \/ Throw(r, Hooks["intercept"])
  /\ UNCHANGED inFlight

(* The route method: a Response is returned as it is, a value is coerced. *)
Handler(r) ==
  /\ At(r, "handler")
  /\ \/ Count(r, "handler", Enter(r, "coerce"))
     \/ \E f \in {"response", "error", "thrown"} :
          Count(r, "handler", Carry(r, "unintercept", Hooks["intercept"], f))
  /\ UNCHANGED inFlight

(* Response validation, the serializers and toResponse. *)
Coerce(r) ==
  /\ At(r, "coerce")
  /\ \/ Update(r, Carry(r, "unintercept", Hooks["intercept"], "response"))
     \/ Throw(r, Hooks["intercept"])
  /\ UNCHANGED inFlight

(* The innermost waiting interceptor resumes: it passes on what next() gave,
   answers itself or throws. *)
InterceptOut(r) ==
  /\ At(r, "unintercept") /\ req[r].at > 0
  /\ LET k == req[r].at IN
     \/ Update(r, GoTo(r, k - 1))
     \/ \E f \in {"response", "error", "thrown"} :
          Update(r, Carry(r, "unintercept", k - 1, f))
  /\ UNCHANGED inFlight

(* Mutant of InterceptRetry: the chain ends in produce, so the guards run again. *)
InterceptRetryWholeRoute(r) ==
  /\ At(r, "unintercept") /\ req[r].at > 0
  /\ did[r]["retry"] < MaxRetry
  /\ Count(r, "retry", [Enter(r, "derive") EXCEPT !.flow = "none"])
  /\ UNCHANGED inFlight

(* ... or it calls next() again: the inner interceptors and the core run anew. *)
InterceptRetry(r) ==
  /\ At(r, "unintercept") /\ req[r].at > 0
  /\ did[r]["retry"] < MaxRetry
  /\ req' = [req EXCEPT ![r].pc = "intercept", ![r].at = @ + 1, ![r].flow = "none"]
  /\ did' = [did EXCEPT ![r]["retry"] = @ + 1, ![r]["validate"] = 0, ![r]["resolve"] = 0]
  /\ UNCHANGED inFlight

-----------------------------------------------------------------------------
(* settle(): the catch block, the error handlers, applyOutgoing. *)

(* Mutant of Settle: the call of produce() is outside the try block. *)
SettleNoCatch(r) ==
  /\ At(r, "unintercept") /\ req[r].at = 0
  /\ \/ /\ req[r].flow = "response"
        /\ Update(r, Enter(r, "outgoing"))
     \/ /\ req[r].flow # "response"
        /\ Update(r, [req[r] EXCEPT !.pc = "unwrap", !.at = Hooks["wrap"]])
  /\ UNCHANGED inFlight

(* produce() settled: an error goes to handleError, a Response goes on even if
   it was thrown. *)
Settle(r) ==
  /\ At(r, "unintercept") /\ req[r].at = 0
  /\ \/ /\ req[r].flow = "error"
        /\ Update(r, Enter(r, "catch"))
     \/ /\ req[r].flow # "error"
        /\ Update(r, [Enter(r, "outgoing") EXCEPT !.flow = "response"])
  /\ UNCHANGED inFlight

(* Mutant of CatchHook: an error handler's Response skips applyOutgoing. *)
CatchHookSkipsOutgoing(r) ==
  /\ AtHook(r, "catch")
  /\ Update(r, Carry(r, "unwrap", Hooks["wrap"], "response"))
  /\ UNCHANGED inFlight

(* Mutant of CatchHook: when every handler declined, the first is asked again. *)
CatchHookStartsOver(r) ==
  /\ AtHook(r, "catch")
  /\ \/ Update(r, GoTo(r, IF req[r].at = Hooks["catch"] THEN 1 ELSE req[r].at + 1))
     \/ Update(r, Carry(r, "outgoing", 1, "response"))
  /\ UNCHANGED inFlight

(* An error handler declines, answers (also by throwing a Response), or throws
   an error, which ends the chain. *)
CatchHook(r) ==
  /\ AtHook(r, "catch")
  /\ \/ Count(r, "refuse", GoTo(r, req[r].at + 1))
     \/ Update(r, Carry(r, "outgoing", 1, "response"))
     \/ Update(r, Carry(r, "render", 1, "error"))
  /\ UNCHANGED inFlight

(* toErrorResponse: fails when the details of an HttpError have no JSON form. *)
Render(r) ==
  /\ At(r, "render")
  /\ \/ Update(r, Carry(r, "outgoing", 1, "response"))
     \/ Update(r, Carry(r, "unwrap", Hooks["wrap"], "error"))
  /\ UNCHANGED inFlight

(* applyOutgoing: the headers and cookies queued on ctx are put on the Response;
   copying it fails when its body or status does not allow a copy. *)
Outgoing(r) ==
  /\ At(r, "outgoing")
  /\ \/ Count(r, "outgoing", [req[r] EXCEPT !.pc = "unwrap", !.at = Hooks["wrap"]])
     \/ Update(r, Carry(r, "unwrap", Hooks["wrap"], "error"))
  /\ UNCHANGED inFlight

-----------------------------------------------------------------------------
(* After dispatch(). *)

(* An onResponse hook keeps or replaces the Response, or its throw leaves
   handle(). *)
RespondHook(r) ==
  /\ AtHook(r, "respond")
  /\ \/ Pass(r)
     \/ Count(r, "respond", Carry(r, "respond", req[r].at + 1, "response"))
     \/ Update(r, Carry(r, "rejected", 1, "error"))
  /\ UNCHANGED inFlight

(* An onTrace or onAfterResponse hook: what it throws is logged. *)
AfterHook(r) ==
  /\ AtHook(r, "after")
  /\ Pass(r)
  /\ UNCHANGED inFlight

(* Every request has left handle(). *)
AllServed ==
  /\ \A r \in Requests : req[r].pc \in {"done", "rejected"}
  /\ UNCHANGED vars

Step(r) ==
  \/ Arrive(r) \/ OnRequestHook(r) \/ Route(r) \/ Delegate(r)
  \/ WrapIn(r) \/ WrapOut(r) \/ Leave(r)
  \/ DeriveHook(r) \/ GuardHook(r) \/ InterceptIn(r) \/ Validate(r)
  \/ ResolveHook(r) \/ Handler(r) \/ Coerce(r)
  \/ InterceptOut(r) \/ InterceptRetry(r)
  \/ Settle(r) \/ CatchHook(r) \/ Render(r) \/ Outgoing(r)
  \/ RespondHook(r) \/ AfterHook(r) \/ LoopDone(r)

Next == (\E r \in Requests : Step(r)) \/ AllServed

Spec == Init /\ [][Next]_vars

(* The event loop resumes every pending continuation and the hooks return; no
   client has to send a request. *)
Progress(r) == req[r].pc # "idle" /\ Step(r)
FairSpec == Spec /\ \A r \in Requests : WF_vars(Progress(r))

-----------------------------------------------------------------------------
(* Properties. *)

(* Every variable has its type; the gauge counts at most one call per request. *)
TypeOK ==
  /\ req \in [Requests -> Request]
  /\ did \in [Requests -> [Counted -> Nat]]
  /\ inFlight \in 0..Cardinality(Requests)

(* The handler runs only for a request that every deriver and every guard let
   pass, whose input was validated and whose resolvers have run since the
   interceptors last called next() (produce and core). *)
HandlerIsGuarded ==
  \A r \in Requests : At(r, "handler") =>
    /\ did[r]["derive"] = Hooks["derive"]
    /\ did[r]["guard"] = Hooks["guard"]
    /\ did[r]["validate"] = 1
    /\ did[r]["resolve"] = Hooks["resolve"]

(* An interceptor that calls next() again repeats the core and nothing before
   it: guards and derivers run at most once, and each extra handler call is due
   to an extra next() (the chain built by reduceRight ends in core). *)
RetryRepeatsOnlyCore ==
  \A r \in Requests :
    /\ did[r]["guard"] <= Hooks["guard"]
    /\ did[r]["derive"] <= Hooks["derive"]
    /\ did[r]["handler"] <= 1 + did[r]["retry"]

(* Stages whose failure may leave handle() as a rejection: everything outside
   the try block of settle(). *)
Outside == {"onRequest", "route", "delegate", "wrap", "unwrap", "respond",
            "render", "outgoing"}

(* What a deriver, guard, interceptor, validation, resolver, handler,
   serializer or error handler throws never reaches the caller of handle(). *)
FailuresAreContained ==
  \A r \in Requests : At(r, "rejected") => req[r].origin \in Outside

(* The Responses that settle() makes, errors included. *)
Settled == {"derive", "guard", "intercept", "unintercept", "validate", "resolve",
            "handler", "coerce", "catch"}

(* A Response that settle() made, whether answered, thrown or rendered from an
   error, reaches the response hooks with the queued headers and cookies put on
   it exactly once; a Response made elsewhere has none of them. *)
OutgoingAppliedOnce ==
  \A r \in Requests :
    /\ did[r]["outgoing"] <= 1
    /\ At(r, "respond") /\ req[r].origin \in Settled \union {"render"}
         => did[r]["outgoing"] = 1

(* handle() returns only after every onResponse hook saw the Response and every
   trace and after hook was called, whichever stage answered. *)
EveryHookRuns ==
  \A r \in Requests : At(r, "done") =>
    /\ did[r]["respond"] = Hooks["respond"]
    /\ did[r]["after"] = Hooks["after"]

(* The default error Response is rendered only when every error handler
   declined, or one of them threw; and then no other is asked. *)
ErrorChainOrder ==
  \A r \in Requests :
    /\ At(r, "render") /\ req[r].origin # "catch"
         => did[r]["refuse"] = Hooks["catch"]
    /\ At(r, "catch") => req[r].origin # "catch"

(* The metrics wrapper of the request with record q waits for next(). *)
InMeter(q) ==
  \/ q.pc = "wrap" /\ q.at > Metered
  \/ q.pc = "unwrap" /\ q.at >= Metered
  \/ q.pc \in {"derive", "guard", "intercept", "validate", "resolve", "handler",
               "coerce", "unintercept", "catch", "render", "outgoing"}

(* The gauge is the number of requests inside the metrics wrapper, whatever
   fails in whatever interleaving; so it is 0 when all requests have left. *)
InFlightExact == inFlight = Cardinality({r \in Requests : InMeter(req[r])})

(* Every request that arrives leaves handle(), by a Response or a rejection. *)
EveryRequestSettles ==
  \A r \in Requests :
    req[r].pc = "onRequest" ~> req[r].pc \in {"done", "rejected"}
=============================================================================
