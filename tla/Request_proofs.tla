--------------------------- MODULE Request_proofs ---------------------------
(***************************************************************************)
(* Proofs about a request: its way through App.handle (RequestPipeline),   *)
(* for any number of requests and hooks, and what is computed before, on   *)
(* and beside that way (Computations), for any questions.                  *)
(***************************************************************************)
EXTENDS RequestInvariants, FiniteSetTheorems, WellFoundedInduction, TLAPS

-----------------------------------------------------------------------------

(* What Update and Count do to the variables. *)
LEMMA Updated ==
  ASSUME TypeInv, NEW r \in Requests, NEW q \in Request, Update(r, q)
  PROVE  OnlyChanges(r) /\ req'[r] = q /\ did'[r] = did[r]
BY DEF TypeInv, Update, OnlyChanges

(* ... with one more completion that is counted. *)
LEMMA CountedOnce ==
  ASSUME TypeInv, NEW r \in Requests, NEW q \in Request, NEW c \in Counted, Count(r, c, q)
  PROVE  OnlyChanges(r) /\ req'[r] = q /\ Bumps(did'[r], did[r], c)
<1>1. did[r] \in [Counted -> Nat]
  BY DEF TypeInv
<1>a. [did[r] EXCEPT ![c] = @ + 1] \in [Counted -> Nat]
  BY <1>1
<1>2. PICK e \in [Counted -> Nat] : e = [did[r] EXCEPT ![c] = @ + 1]
  BY <1>a
<1>3. did' = [did EXCEPT ![r] = e]
  BY <1>2 DEF Count, TypeInv
<1>4. Bumps(e, did[r], c)
  BY <1>1, <1>2 DEF Bumps
<1> QED BY <1>2, <1>3, <1>4 DEF TypeInv, Count, OnlyChanges

(* The records that Carry, Enter and GoTo build. *)
LEMMA Carried ==
  ASSUME TypeInv, NEW r \in Requests, NEW s \in Stages, NEW k \in Nat, NEW f \in Flows
  PROVE  /\ Carry(r, s, k, f) \in Request
         /\ Shape(Carry(r, s, k, f), s, k, f, req[r].pc)
BY DEF TypeInv, Carry, Request, Shape

(* The record of a request that enters a stage. *)
LEMMA Entered ==
  ASSUME TypeInv, NEW r \in Requests, NEW s \in Stages
  PROVE  /\ Enter(r, s) \in Request
         /\ Shape(Enter(r, s), s, 1, req[r].flow, req[r].origin)
BY DEF TypeInv, Enter, Request, Shape

(* The record of a request that goes on in its stage. *)
LEMMA Gone ==
  ASSUME TypeInv, NEW r \in Requests, NEW k \in Nat
  PROVE  /\ GoTo(r, k) \in Request
         /\ Shape(GoTo(r, k), req[r].pc, k, req[r].flow, req[r].origin)
BY DEF TypeInv, GoTo, Request, Shape

(* A step of r replaces the record of r by one of the right type that satisfies
   the invariant of a single request: the core of every proof below.  Each case
   first reads the new record and counts off the action. *)
LEMMA StepKeepsLocal ==
  ASSUME TypeInv, NEW r \in Requests, Local(req[r], did[r]), Step(r)
  PROVE  OnlyChanges(r) /\ Local(req'[r], did'[r]) /\ Gauges(r)
<1> DEFINE q == req[r]
           n == req'[r]
           d == did[r]
           e == did'[r]
<1> USE HooksAssumption, MeteredAssumption, MaxRetryAssumption
<1>0. /\ q \in Request /\ q.at \in Nat /\ q.pc \in Stages
      /\ d \in [Counted -> Nat]
      /\ AtBounds(q)
  BY DEF TypeInv, Request, Local
<1>1. CASE Arrive(r)
  <2>1. q.pc = "idle"
    BY <1>1 DEF Arrive, AtHook, At
  <2>2. OnlyChanges(r) /\ Shape(n, "onRequest", 1, q.flow, q.origin) /\ e = d /\ inFlight' = inFlight
    BY <1>0, <1>1, <2>1, Updated, Entered DEF Arrive, Stages, Flows,
       Counted, HookStages, AtBounds
  <2>3. AtBounds(n) /\ Passed(n, e) /\ Calls(n, e)
    BY <1>0, <2>1, <2>2 DEF Local, AtBounds, Passed, Calls, Shape, Bumps,
       Core, Counted, HookStages
  <2>4. Origins(n) /\ Outs(n, e) /\ Refused(n, e)
    BY <1>0, <2>1, <2>2 DEF Local, AtBounds, Origins, Outs, Refused, Shape,
       Bumps, Core, Inner, Settled, Outside, Counted, HookStages
  <2>5. Gauges(r)
    BY <1>0, <2>1, <2>2 DEF Gauges, InMeter, Shape, AtBounds, TypeInv, HookStages
  <2> QED BY <2>2, <2>3, <2>4, <2>5 DEF Local
<1>2. CASE OnRequestHook(r)
  <2>1. q.pc = "onRequest" /\ q.at <= Hooks["onRequest"]
    BY <1>2 DEF OnRequestHook, AtHook, At
  <2>2. /\ OnlyChanges(r) /\ inFlight' = inFlight
        /\ \/ Shape(n, q.pc, q.at + 1, q.flow, q.origin) /\ e = d
           \/ Shape(n, "respond", 1, "response", "onRequest") /\ e = d
           \/ Shape(n, "rejected", 1, "error", "onRequest") /\ e = d
    BY <1>0, <1>2, <2>1, Updated, Carried, Gone DEF OnRequestHook, Stages,
       Flows, Counted, HookStages, AtBounds
  <2>3. AtBounds(n) /\ Passed(n, e) /\ Calls(n, e)
    BY <1>0, <2>1, <2>2 DEF Local, AtBounds, Passed, Calls, Shape, Bumps,
       Core, Counted, HookStages
  <2>4. Origins(n) /\ Outs(n, e) /\ Refused(n, e)
    BY <1>0, <2>1, <2>2 DEF Local, AtBounds, Origins, Outs, Refused, Shape,
       Bumps, Core, Inner, Settled, Outside, Counted, HookStages
  <2>5. Gauges(r)
    BY <1>0, <2>1, <2>2 DEF Gauges, InMeter, Shape, AtBounds, TypeInv, HookStages
  <2> QED BY <2>2, <2>3, <2>4, <2>5 DEF Local
<1>3. CASE Route(r)
  <2>1. q.pc = "route"
    BY <1>3 DEF Route, AtHook, At
  <2>2. /\ OnlyChanges(r) /\ inFlight' = inFlight
        /\ \/ Shape(n, "wrap", 1, q.flow, q.origin) /\ e = d
           \/ Shape(n, "delegate", 1, q.flow, q.origin) /\ e = d
           \/ Shape(n, "respond", 1, "response", "route") /\ e = d
           \/ Shape(n, "rejected", 1, "error", "route") /\ e = d
    BY <1>0, <1>3, <2>1, Updated, Carried, Entered DEF Route, Stages, Flows,
       Counted, HookStages, AtBounds
  <2>3. AtBounds(n) /\ Passed(n, e) /\ Calls(n, e)
    BY <1>0, <2>1, <2>2 DEF Local, AtBounds, Passed, Calls, Shape, Bumps,
       Core, Counted, HookStages
  <2>4. Origins(n) /\ Outs(n, e) /\ Refused(n, e)
    BY <1>0, <2>1, <2>2 DEF Local, AtBounds, Origins, Outs, Refused, Shape,
       Bumps, Core, Inner, Settled, Outside, Counted, HookStages
  <2>5. Gauges(r)
    BY <1>0, <2>1, <2>2 DEF Gauges, InMeter, Shape, AtBounds, TypeInv, HookStages
  <2> QED BY <2>2, <2>3, <2>4, <2>5 DEF Local
<1>4. CASE Delegate(r)
  <2>1. q.pc = "delegate"
    BY <1>4 DEF Delegate, AtHook, At
  <2>2. /\ OnlyChanges(r) /\ inFlight' = inFlight
        /\ \/ Shape(n, "respond", 1, "response", "delegate") /\ e = d
           \/ Shape(n, "rejected", 1, "error", "delegate") /\ e = d
    BY <1>0, <1>4, <2>1, Updated, Carried DEF Delegate, Stages, Flows,
       Counted, HookStages, AtBounds
  <2>3. AtBounds(n) /\ Passed(n, e) /\ Calls(n, e)
    BY <1>0, <2>1, <2>2 DEF Local, AtBounds, Passed, Calls, Shape, Bumps,
       Core, Counted, HookStages
  <2>4. Origins(n) /\ Outs(n, e) /\ Refused(n, e)
    BY <1>0, <2>1, <2>2 DEF Local, AtBounds, Origins, Outs, Refused, Shape,
       Bumps, Core, Inner, Settled, Outside, Counted, HookStages
  <2>5. Gauges(r)
    BY <1>0, <2>1, <2>2 DEF Gauges, InMeter, Shape, AtBounds, TypeInv, HookStages
  <2> QED BY <2>2, <2>3, <2>4, <2>5 DEF Local
<1>5. CASE WrapIn(r)
  <2>1. q.pc = "wrap" /\ q.at <= Hooks["wrap"]
    BY <1>5 DEF WrapIn, AtHook, At
  <2>2. /\ OnlyChanges(r)
        /\ \/ Shape(n, q.pc, q.at + 1, q.flow, q.origin) /\ Meter(q.at, 1) /\ e = d
           \/ Shape(n, "unwrap", q.at - 1, "response", "wrap") /\ q.at # Metered /\ inFlight' = inFlight /\ e = d
           \/ Shape(n, "unwrap", q.at - 1, "error", "wrap") /\ q.at # Metered /\ inFlight' = inFlight /\ e = d
           \/ Shape(n, "unwrap", q.at - 1, "thrown", "wrap") /\ q.at # Metered /\ inFlight' = inFlight /\ e = d
    BY <1>0, <1>5, <2>1, Updated, Carried, Gone DEF WrapIn, Stages, Flows,
       Counted, HookStages, AtBounds
  <2>3. AtBounds(n) /\ Passed(n, e) /\ Calls(n, e)
    BY <1>0, <2>1, <2>2 DEF Local, AtBounds, Passed, Calls, Shape, Bumps,
       Core, Counted, HookStages
  <2>4. Origins(n) /\ Outs(n, e) /\ Refused(n, e)
    BY <1>0, <2>1, <2>2 DEF Local, AtBounds, Origins, Outs, Refused, Shape,
       Bumps, Core, Inner, Settled, Outside, Counted, HookStages
  <2>5. Gauges(r)
    <3>1. Metered \in Nat /\ Metered > 0 /\ inFlight \in Int /\ q.at \in Nat
      BY <1>0 DEF TypeInv, HookStages
    <3>2. CASE q.at = Metered
      <4>1. n.pc = q.pc /\ n.at = q.at + 1 /\ inFlight' = inFlight + 1
        BY <2>2, <3>1, <3>2 DEF Shape, Meter
      <4> QED BY <2>1, <3>1, <3>2, <4>1 DEF Gauges, InMeter
    <3>3. CASE q.at # Metered
      <4>1. /\ inFlight' = inFlight
            /\ \/ n.pc = q.pc /\ n.at = q.at + 1
               \/ n.pc = "unwrap" /\ n.at = q.at - 1
        BY <2>2, <3>3 DEF Shape, Meter
      <4>2. InMeter(n) <=> InMeter(q)
        BY <2>1, <3>1, <3>3, <4>1 DEF InMeter
      <4> QED BY <4>1, <4>2 DEF Gauges
    <3> QED BY <3>2, <3>3
  <2> QED BY <2>2, <2>3, <2>4, <2>5 DEF Local
<1>6. CASE WrapOut(r)
  <2>1. q.pc = "unwrap" /\ q.at > 0
    BY <1>6 DEF WrapOut, AtHook, At
  <2>2. /\ OnlyChanges(r)
        /\ \/ Shape(n, q.pc, q.at - 1, q.flow, q.origin) /\ Meter(q.at, -1) /\ e = d
           \/ Shape(n, "unwrap", q.at - 1, "response", "unwrap") /\ q.at # Metered /\ inFlight' = inFlight /\ e = d
           \/ Shape(n, "unwrap", q.at - 1, "error", "unwrap") /\ q.at # Metered /\ inFlight' = inFlight /\ e = d
           \/ Shape(n, "unwrap", q.at - 1, "thrown", "unwrap") /\ q.at # Metered /\ inFlight' = inFlight /\ e = d
    BY <1>0, <1>6, <2>1, Updated, Carried, Gone DEF WrapOut, Meter, Stages,
       Flows, Counted, HookStages, AtBounds
  <2>3. AtBounds(n) /\ Passed(n, e) /\ Calls(n, e)
    BY <1>0, <2>1, <2>2 DEF Local, AtBounds, Passed, Calls, Shape, Bumps,
       Core, Counted, HookStages
  <2>4. Origins(n) /\ Outs(n, e) /\ Refused(n, e)
    BY <1>0, <2>1, <2>2 DEF Local, AtBounds, Origins, Outs, Refused, Shape,
       Bumps, Core, Inner, Settled, Outside, Counted, HookStages
  <2>5. Gauges(r)
    <3>1. Metered \in Nat /\ Metered > 0 /\ inFlight \in Int /\ q.at \in Nat
      BY <1>0 DEF TypeInv, HookStages
    <3>2. CASE q.at = Metered
      <4>1. n.pc = q.pc /\ n.at = q.at - 1 /\ inFlight' = inFlight - 1
        BY <2>2, <3>1, <3>2 DEF Shape, Meter
      <4> QED BY <2>1, <3>1, <3>2, <4>1 DEF Gauges, InMeter
    <3>3. CASE q.at # Metered
      <4>1. /\ inFlight' = inFlight
            /\ \/ n.pc = q.pc /\ n.at = q.at - 1
               \/ n.pc = "unwrap" /\ n.at = q.at - 1
        BY <2>2, <3>3 DEF Shape, Meter
      <4>2. InMeter(n) <=> InMeter(q)
        BY <2>1, <3>1, <3>3, <4>1 DEF InMeter
      <4> QED BY <4>1, <4>2 DEF Gauges
    <3> QED BY <3>2, <3>3
  <2> QED BY <2>2, <2>3, <2>4, <2>5 DEF Local
<1>7. CASE Leave(r)
  <2>1. q.pc = "unwrap" /\ q.at = 0
    BY <1>7 DEF Leave, AtHook, At
  <2>2. /\ OnlyChanges(r) /\ inFlight' = inFlight
        /\ \/ q.flow = "response" /\ Shape(n, "respond", 1, q.flow, q.origin) /\ e = d
           \/ q.flow # "response" /\ Shape(n, "rejected", 1, q.flow, q.origin) /\ e = d
    BY <1>0, <1>7, <2>1, Updated, Entered DEF Leave, Stages, Flows, Counted,
       HookStages, AtBounds
  <2>3. AtBounds(n) /\ Passed(n, e) /\ Calls(n, e)
    BY <1>0, <2>1, <2>2 DEF Local, AtBounds, Passed, Calls, Shape, Bumps,
       Core, Counted, HookStages
  <2>4. Origins(n) /\ Outs(n, e) /\ Refused(n, e)
    BY <1>0, <2>1, <2>2 DEF Local, AtBounds, Origins, Outs, Refused, Shape,
       Bumps, Core, Inner, Settled, Outside, Counted, HookStages
  <2>5. Gauges(r)
    BY <1>0, <2>1, <2>2 DEF Gauges, InMeter, Shape, AtBounds, TypeInv, HookStages
  <2> QED BY <2>2, <2>3, <2>4, <2>5 DEF Local
<1>8. CASE DeriveHook(r)
  <2>1. q.pc = "derive" /\ q.at <= Hooks["derive"]
    BY <1>8 DEF DeriveHook, AtHook, At
  <2>2. /\ OnlyChanges(r) /\ inFlight' = inFlight
        /\ \/ Shape(n, q.pc, q.at + 1, q.flow, q.origin) /\ Bumps(e, d, "derive")
           \/ Shape(n, "unintercept", 0, "error", "derive") /\ e = d
           \/ Shape(n, "unintercept", 0, "thrown", "derive") /\ e = d
    BY <1>0, <1>8, <2>1, Updated, Carried, Gone, CountedOnce DEF DeriveHook,
       Throw, Pass, Stages, Flows, Counted, HookStages, AtBounds
  <2>3. AtBounds(n) /\ Passed(n, e) /\ Calls(n, e)
    BY <1>0, <2>1, <2>2 DEF Local, AtBounds, Passed, Calls, Shape, Bumps,
       Core, Counted, HookStages
  <2>4. Origins(n) /\ Outs(n, e) /\ Refused(n, e)
    BY <1>0, <2>1, <2>2 DEF Local, AtBounds, Origins, Outs, Refused, Shape,
       Bumps, Core, Inner, Settled, Outside, Counted, HookStages
  <2>5. Gauges(r)
    BY <1>0, <2>1, <2>2 DEF Gauges, InMeter, Shape, AtBounds, TypeInv, HookStages
  <2> QED BY <2>2, <2>3, <2>4, <2>5 DEF Local
<1>9. CASE GuardHook(r)
  <2>1. q.pc = "guard" /\ q.at <= Hooks["guard"]
    BY <1>9 DEF GuardHook, AtHook, At
  <2>2. /\ OnlyChanges(r) /\ inFlight' = inFlight
        /\ \/ Shape(n, q.pc, q.at + 1, q.flow, q.origin) /\ Bumps(e, d, "guard")
           \/ Shape(n, "unintercept", 0, "response", "guard") /\ e = d
           \/ Shape(n, "unintercept", 0, "error", "guard") /\ e = d
           \/ Shape(n, "unintercept", 0, "thrown", "guard") /\ e = d
    BY <1>0, <1>9, <2>1, Updated, Carried, Gone, CountedOnce DEF GuardHook,
       Throw, Pass, Stages, Flows, Counted, HookStages, AtBounds
  <2>3. AtBounds(n) /\ Passed(n, e) /\ Calls(n, e)
    BY <1>0, <2>1, <2>2 DEF Local, AtBounds, Passed, Calls, Shape, Bumps,
       Core, Counted, HookStages
  <2>4. Origins(n) /\ Outs(n, e) /\ Refused(n, e)
    BY <1>0, <2>1, <2>2 DEF Local, AtBounds, Origins, Outs, Refused, Shape,
       Bumps, Core, Inner, Settled, Outside, Counted, HookStages
  <2>5. Gauges(r)
    BY <1>0, <2>1, <2>2 DEF Gauges, InMeter, Shape, AtBounds, TypeInv, HookStages
  <2> QED BY <2>2, <2>3, <2>4, <2>5 DEF Local
<1>10. CASE InterceptIn(r)
  <2>1. q.pc = "intercept" /\ q.at <= Hooks["intercept"]
    BY <1>10 DEF InterceptIn, AtHook, At
  <2>2. /\ OnlyChanges(r) /\ inFlight' = inFlight
        /\ \/ Shape(n, q.pc, q.at + 1, q.flow, q.origin) /\ e = d
           \/ Shape(n, "unintercept", q.at - 1, "response", "intercept") /\ e = d
           \/ Shape(n, "unintercept", q.at - 1, "error", "intercept") /\ e = d
           \/ Shape(n, "unintercept", q.at - 1, "thrown", "intercept") /\ e = d
    BY <1>0, <1>10, <2>1, Updated, Carried, Gone DEF InterceptIn, Throw,
       Stages, Flows, Counted, HookStages, AtBounds
  <2>3. AtBounds(n) /\ Passed(n, e) /\ Calls(n, e)
    BY <1>0, <2>1, <2>2 DEF Local, AtBounds, Passed, Calls, Shape, Bumps,
       Core, Counted, HookStages
  <2>4. Origins(n) /\ Outs(n, e) /\ Refused(n, e)
    BY <1>0, <2>1, <2>2 DEF Local, AtBounds, Origins, Outs, Refused, Shape,
       Bumps, Core, Inner, Settled, Outside, Counted, HookStages
  <2>5. Gauges(r)
    BY <1>0, <2>1, <2>2 DEF Gauges, InMeter, Shape, AtBounds, TypeInv, HookStages
  <2> QED BY <2>2, <2>3, <2>4, <2>5 DEF Local
<1>11. CASE Validate(r)
  <2>1. q.pc = "validate"
    BY <1>11 DEF Validate, AtHook, At
  <2>2. /\ OnlyChanges(r) /\ inFlight' = inFlight
        /\ \/ Shape(n, "resolve", 1, q.flow, q.origin) /\ Bumps(e, d, "validate")
           \/ Shape(n, "unintercept", Hooks["intercept"], "error", "validate") /\ e = d
           \/ Shape(n, "unintercept", Hooks["intercept"], "thrown", "validate") /\ e = d
    BY <1>0, <1>11, <2>1, Updated, Carried, Entered, CountedOnce DEF
       Validate, Throw, Stages, Flows, Counted, HookStages, AtBounds
  <2>3. AtBounds(n) /\ Passed(n, e) /\ Calls(n, e)
    BY <1>0, <2>1, <2>2 DEF Local, AtBounds, Passed, Calls, Shape, Bumps,
       Core, Counted, HookStages
  <2>4. Origins(n) /\ Outs(n, e) /\ Refused(n, e)
    BY <1>0, <2>1, <2>2 DEF Local, AtBounds, Origins, Outs, Refused, Shape,
       Bumps, Core, Inner, Settled, Outside, Counted, HookStages
  <2>5. Gauges(r)
    BY <1>0, <2>1, <2>2 DEF Gauges, InMeter, Shape, AtBounds, TypeInv, HookStages
  <2> QED BY <2>2, <2>3, <2>4, <2>5 DEF Local
<1>12. CASE ResolveHook(r)
  <2>1. q.pc = "resolve" /\ q.at <= Hooks["resolve"]
    BY <1>12 DEF ResolveHook, AtHook, At
  <2>2. /\ OnlyChanges(r) /\ inFlight' = inFlight
        /\ \/ Shape(n, q.pc, q.at + 1, q.flow, q.origin) /\ Bumps(e, d, "resolve")
           \/ Shape(n, "unintercept", Hooks["intercept"], "error", "resolve") /\ e = d
           \/ Shape(n, "unintercept", Hooks["intercept"], "thrown", "resolve") /\ e = d
    BY <1>0, <1>12, <2>1, Updated, Carried, Gone, CountedOnce DEF
       ResolveHook, Throw, Pass, Stages, Flows, Counted, HookStages,
       AtBounds
  <2>3. AtBounds(n) /\ Passed(n, e) /\ Calls(n, e)
    BY <1>0, <2>1, <2>2 DEF Local, AtBounds, Passed, Calls, Shape, Bumps,
       Core, Counted, HookStages
  <2>4. Origins(n) /\ Outs(n, e) /\ Refused(n, e)
    BY <1>0, <2>1, <2>2 DEF Local, AtBounds, Origins, Outs, Refused, Shape,
       Bumps, Core, Inner, Settled, Outside, Counted, HookStages
  <2>5. Gauges(r)
    BY <1>0, <2>1, <2>2 DEF Gauges, InMeter, Shape, AtBounds, TypeInv, HookStages
  <2> QED BY <2>2, <2>3, <2>4, <2>5 DEF Local
<1>13. CASE Handler(r)
  <2>1. q.pc = "handler"
    BY <1>13 DEF Handler, AtHook, At
  <2>2. /\ OnlyChanges(r) /\ inFlight' = inFlight
        /\ \/ Shape(n, "coerce", 1, q.flow, q.origin) /\ Bumps(e, d, "handler")
           \/ Shape(n, "unintercept", Hooks["intercept"], "response", "handler") /\ Bumps(e, d, "handler")
           \/ Shape(n, "unintercept", Hooks["intercept"], "error", "handler") /\ Bumps(e, d, "handler")
           \/ Shape(n, "unintercept", Hooks["intercept"], "thrown", "handler") /\ Bumps(e, d, "handler")
    BY <1>0, <1>13, <2>1, Updated, Carried, Entered, CountedOnce DEF
       Handler, Stages, Flows, Counted, HookStages, AtBounds
  <2>3. AtBounds(n) /\ Passed(n, e) /\ Calls(n, e)
    BY <1>0, <2>1, <2>2 DEF Local, AtBounds, Passed, Calls, Shape, Bumps,
       Core, Counted, HookStages
  <2>4. Origins(n) /\ Outs(n, e) /\ Refused(n, e)
    BY <1>0, <2>1, <2>2 DEF Local, AtBounds, Origins, Outs, Refused, Shape,
       Bumps, Core, Inner, Settled, Outside, Counted, HookStages
  <2>5. Gauges(r)
    BY <1>0, <2>1, <2>2 DEF Gauges, InMeter, Shape, AtBounds, TypeInv, HookStages
  <2> QED BY <2>2, <2>3, <2>4, <2>5 DEF Local
<1>14. CASE Coerce(r)
  <2>1. q.pc = "coerce"
    BY <1>14 DEF Coerce, AtHook, At
  <2>2. /\ OnlyChanges(r) /\ inFlight' = inFlight
        /\ \/ Shape(n, "unintercept", Hooks["intercept"], "response", "coerce") /\ e = d
           \/ Shape(n, "unintercept", Hooks["intercept"], "error", "coerce") /\ e = d
           \/ Shape(n, "unintercept", Hooks["intercept"], "thrown", "coerce") /\ e = d
    BY <1>0, <1>14, <2>1, Updated, Carried DEF Coerce, Throw, Stages, Flows,
       Counted, HookStages, AtBounds
  <2>3. AtBounds(n) /\ Passed(n, e) /\ Calls(n, e)
    BY <1>0, <2>1, <2>2 DEF Local, AtBounds, Passed, Calls, Shape, Bumps,
       Core, Counted, HookStages
  <2>4. Origins(n) /\ Outs(n, e) /\ Refused(n, e)
    BY <1>0, <2>1, <2>2 DEF Local, AtBounds, Origins, Outs, Refused, Shape,
       Bumps, Core, Inner, Settled, Outside, Counted, HookStages
  <2>5. Gauges(r)
    BY <1>0, <2>1, <2>2 DEF Gauges, InMeter, Shape, AtBounds, TypeInv, HookStages
  <2> QED BY <2>2, <2>3, <2>4, <2>5 DEF Local
<1>15. CASE InterceptOut(r)
  <2>1. q.pc = "unintercept" /\ q.at > 0
    BY <1>15 DEF InterceptOut, AtHook, At
  <2>2. /\ OnlyChanges(r) /\ inFlight' = inFlight
        /\ \/ Shape(n, q.pc, q.at - 1, q.flow, q.origin) /\ e = d
           \/ Shape(n, "unintercept", q.at - 1, "response", "unintercept") /\ e = d
           \/ Shape(n, "unintercept", q.at - 1, "error", "unintercept") /\ e = d
           \/ Shape(n, "unintercept", q.at - 1, "thrown", "unintercept") /\ e = d
    BY <1>0, <1>15, <2>1, Updated, Carried, Gone DEF InterceptOut, Stages,
       Flows, Counted, HookStages, AtBounds
  <2>3. AtBounds(n) /\ Passed(n, e) /\ Calls(n, e)
    BY <1>0, <2>1, <2>2 DEF Local, AtBounds, Passed, Calls, Shape, Bumps,
       Core, Counted, HookStages
  <2>4. Origins(n) /\ Outs(n, e) /\ Refused(n, e)
    BY <1>0, <2>1, <2>2 DEF Local, AtBounds, Origins, Outs, Refused, Shape,
       Bumps, Core, Inner, Settled, Outside, Counted, HookStages
  <2>5. Gauges(r)
    BY <1>0, <2>1, <2>2 DEF Gauges, InMeter, Shape, AtBounds, TypeInv, HookStages
  <2> QED BY <2>2, <2>3, <2>4, <2>5 DEF Local
<1>16. CASE InterceptRetry(r)
  <2>1. q.pc = "unintercept" /\ q.at > 0
    BY <1>16 DEF InterceptRetry, At
  <2>2. /\ OnlyChanges(r) /\ inFlight' = inFlight
        /\ Shape(n, "intercept", q.at + 1, "none", q.origin)
        /\ e["retry"] = d["retry"] + 1 /\ e["validate"] = 0 /\ e["resolve"] = 0
        /\ \A s \in Counted \ {"retry", "validate", "resolve"} : e[s] = d[s]
    BY <1>0, <1>16, SMTT(30) DEF InterceptRetry, TypeInv, Request, Counted, Shape,
       OnlyChanges, Stages, HookStages, Flows
  <2>3. AtBounds(n) /\ Passed(n, e) /\ Calls(n, e)
    BY <1>0, <2>1, <2>2 DEF Local, AtBounds, Passed, Calls, Shape, Bumps,
       Core, Counted, HookStages
  <2>4. Origins(n) /\ Outs(n, e) /\ Refused(n, e)
    BY <1>0, <2>1, <2>2 DEF Local, AtBounds, Origins, Outs, Refused, Shape,
       Bumps, Core, Inner, Settled, Outside, Counted, HookStages
  <2>5. Gauges(r)
    BY <1>0, <2>1, <2>2 DEF Gauges, InMeter, Shape, AtBounds, TypeInv, HookStages
  <2> QED BY <2>2, <2>3, <2>4, <2>5 DEF Local
<1>17. CASE Settle(r)
  <2>1. q.pc = "unintercept"
    BY <1>17 DEF Settle, AtHook, At
  <2>a. /\ [Enter(r, "outgoing") EXCEPT !.flow = "response"] \in Request
        /\ Shape([Enter(r, "outgoing") EXCEPT !.flow = "response"], "outgoing", 1, "response", q.origin)
    BY <1>0 DEF Enter, GoTo, Request, Shape, Stages, HookStages, Flows
  <2>2. /\ OnlyChanges(r) /\ inFlight' = inFlight
        /\ \/ q.flow = "error" /\ Shape(n, "catch", 1, q.flow, q.origin) /\ e = d
           \/ q.flow # "error" /\ Shape(n, "outgoing", 1, "response", q.origin) /\ e = d
    BY <1>0, <1>17, <2>1, Updated, Entered, <2>a DEF Settle, Stages, Flows,
       Counted, HookStages, AtBounds
  <2>3. AtBounds(n) /\ Passed(n, e) /\ Calls(n, e)
    BY <1>0, <2>1, <2>2 DEF Local, AtBounds, Passed, Calls, Shape, Bumps,
       Core, Counted, HookStages
  <2>4. Origins(n) /\ Outs(n, e) /\ Refused(n, e)
    BY <1>0, <2>1, <2>2 DEF Local, AtBounds, Origins, Outs, Refused, Shape,
       Bumps, Core, Inner, Settled, Outside, Counted, HookStages
  <2>5. Gauges(r)
    BY <1>0, <2>1, <2>2 DEF Gauges, InMeter, Shape, AtBounds, TypeInv, HookStages
  <2> QED BY <2>2, <2>3, <2>4, <2>5 DEF Local
<1>18. CASE CatchHook(r)
  <2>1. q.pc = "catch" /\ q.at <= Hooks["catch"]
    BY <1>18 DEF CatchHook, AtHook, At
  <2>2. /\ OnlyChanges(r) /\ inFlight' = inFlight
        /\ \/ Shape(n, q.pc, q.at + 1, q.flow, q.origin) /\ Bumps(e, d, "refuse")
           \/ Shape(n, "outgoing", 1, "response", "catch") /\ e = d
           \/ Shape(n, "render", 1, "error", "catch") /\ e = d
    BY <1>0, <1>18, <2>1, Updated, Carried, Gone, CountedOnce DEF CatchHook,
       Stages, Flows, Counted, HookStages, AtBounds
  <2>3. AtBounds(n) /\ Passed(n, e) /\ Calls(n, e)
    BY <1>0, <2>1, <2>2 DEF Local, AtBounds, Passed, Calls, Shape, Bumps,
       Core, Counted, HookStages
  <2>4. Origins(n) /\ Outs(n, e) /\ Refused(n, e)
    BY <1>0, <2>1, <2>2 DEF Local, AtBounds, Origins, Outs, Refused, Shape,
       Bumps, Core, Inner, Settled, Outside, Counted, HookStages
  <2>5. Gauges(r)
    BY <1>0, <2>1, <2>2 DEF Gauges, InMeter, Shape, AtBounds, TypeInv, HookStages
  <2> QED BY <2>2, <2>3, <2>4, <2>5 DEF Local
<1>19. CASE Render(r)
  <2>1. q.pc = "render"
    BY <1>19 DEF Render, AtHook, At
  <2>2. /\ OnlyChanges(r) /\ inFlight' = inFlight
        /\ \/ Shape(n, "outgoing", 1, "response", "render") /\ e = d
           \/ Shape(n, "unwrap", Hooks["wrap"], "error", "render") /\ e = d
    BY <1>0, <1>19, <2>1, Updated, Carried DEF Render, Stages, Flows,
       Counted, HookStages, AtBounds
  <2>3. AtBounds(n) /\ Passed(n, e) /\ Calls(n, e)
    BY <1>0, <2>1, <2>2 DEF Local, AtBounds, Passed, Calls, Shape, Bumps,
       Core, Counted, HookStages
  <2>4. Origins(n) /\ Outs(n, e) /\ Refused(n, e)
    BY <1>0, <2>1, <2>2 DEF Local, AtBounds, Origins, Outs, Refused, Shape,
       Bumps, Core, Inner, Settled, Outside, Counted, HookStages
  <2>5. Gauges(r)
    BY <1>0, <2>1, <2>2 DEF Gauges, InMeter, Shape, AtBounds, TypeInv, HookStages
  <2> QED BY <2>2, <2>3, <2>4, <2>5 DEF Local
<1>20. CASE Outgoing(r)
  <2>1. q.pc = "outgoing"
    BY <1>20 DEF Outgoing, AtHook, At
  <2>a. /\ [req[r] EXCEPT !.pc = "unwrap", !.at = Hooks["wrap"]] \in Request
        /\ Shape([req[r] EXCEPT !.pc = "unwrap", !.at = Hooks["wrap"]], "unwrap", Hooks["wrap"], q.flow, q.origin)
    BY <1>0 DEF Enter, GoTo, Request, Shape, Stages, HookStages, Flows
  <2>2. /\ OnlyChanges(r) /\ inFlight' = inFlight
        /\ \/ Shape(n, "unwrap", Hooks["wrap"], q.flow, q.origin) /\ Bumps(e, d, "outgoing")
           \/ Shape(n, "unwrap", Hooks["wrap"], "error", "outgoing") /\ e = d
    BY <1>0, <1>20, <2>1, Updated, Carried, CountedOnce, <2>a DEF Outgoing,
       Stages, Flows, Counted, HookStages, AtBounds
  <2>3. AtBounds(n) /\ Passed(n, e) /\ Calls(n, e)
    BY <1>0, <2>1, <2>2 DEF Local, AtBounds, Passed, Calls, Shape, Bumps,
       Core, Counted, HookStages
  <2>4. Origins(n) /\ Outs(n, e) /\ Refused(n, e)
    BY <1>0, <2>1, <2>2 DEF Local, AtBounds, Origins, Outs, Refused, Shape,
       Bumps, Core, Inner, Settled, Outside, Counted, HookStages
  <2>5. Gauges(r)
    BY <1>0, <2>1, <2>2 DEF Gauges, InMeter, Shape, AtBounds, TypeInv, HookStages
  <2> QED BY <2>2, <2>3, <2>4, <2>5 DEF Local
<1>21. CASE RespondHook(r)
  <2>1. q.pc = "respond" /\ q.at <= Hooks["respond"]
    BY <1>21 DEF RespondHook, AtHook, At
  <2>2. /\ OnlyChanges(r) /\ inFlight' = inFlight
        /\ \/ Shape(n, q.pc, q.at + 1, q.flow, q.origin) /\ Bumps(e, d, "respond")
           \/ Shape(n, "respond", q.at + 1, "response", "respond") /\ Bumps(e, d, "respond")
           \/ Shape(n, "rejected", 1, "error", "respond") /\ e = d
    BY <1>0, <1>21, <2>1, Updated, Carried, Gone, CountedOnce DEF
       RespondHook, Pass, Stages, Flows, Counted, HookStages, AtBounds
  <2>3. AtBounds(n) /\ Passed(n, e) /\ Calls(n, e)
    BY <1>0, <2>1, <2>2 DEF Local, AtBounds, Passed, Calls, Shape, Bumps,
       Core, Counted, HookStages
  <2>4. Origins(n) /\ Outs(n, e) /\ Refused(n, e)
    BY <1>0, <2>1, <2>2 DEF Local, AtBounds, Origins, Outs, Refused, Shape,
       Bumps, Core, Inner, Settled, Outside, Counted, HookStages
  <2>5. Gauges(r)
    BY <1>0, <2>1, <2>2 DEF Gauges, InMeter, Shape, AtBounds, TypeInv, HookStages
  <2> QED BY <2>2, <2>3, <2>4, <2>5 DEF Local
<1>22. CASE AfterHook(r)
  <2>1. q.pc = "after" /\ q.at <= Hooks["after"]
    BY <1>22 DEF AfterHook, AtHook, At
  <2>2. OnlyChanges(r) /\ Shape(n, q.pc, q.at + 1, q.flow, q.origin) /\ Bumps(e, d, "after") /\ inFlight' = inFlight
    BY <1>0, <1>22, <2>1, Updated, Gone, CountedOnce DEF AfterHook, Pass,
       Stages, Flows, Counted, HookStages, AtBounds
  <2>3. AtBounds(n) /\ Passed(n, e) /\ Calls(n, e)
    BY <1>0, <2>1, <2>2 DEF Local, AtBounds, Passed, Calls, Shape, Bumps,
       Core, Counted, HookStages
  <2>4. Origins(n) /\ Outs(n, e) /\ Refused(n, e)
    BY <1>0, <2>1, <2>2, SMTT(30) DEF Local, AtBounds, Origins, Outs, Refused, Shape,
       Bumps, Core, Inner, Settled, Outside, Counted, HookStages
  <2>5. Gauges(r)
    BY <1>0, <2>1, <2>2 DEF Gauges, InMeter, Shape, AtBounds, TypeInv, HookStages
  <2> QED BY <2>2, <2>3, <2>4, <2>5 DEF Local
<1>23. CASE LoopDone(r)
  <2>1. q.pc \in HookStages /\ q.at > Hooks[q.pc]
    BY <1>23 DEF LoopDone
  <2>2. OnlyChanges(r) /\ Shape(n, Follow[q.pc], 1, q.flow, q.origin) /\ e = d /\ inFlight' = inFlight
    BY <1>0, <1>23, <2>1, Updated, Entered DEF LoopDone, Follow, Stages, HookStages
  <2>3. AtBounds(n) /\ Passed(n, e) /\ Calls(n, e)
    BY <1>0, <2>1, <2>2 DEF Local, AtBounds, Passed, Calls, Shape, Bumps,
       Core, Counted, HookStages, Follow
  <2>4. Origins(n) /\ Outs(n, e) /\ Refused(n, e)
    BY <1>0, <2>1, <2>2 DEF Local, AtBounds, Origins, Outs, Refused, Shape,
       Bumps, Core, Inner, Settled, Outside, Counted, HookStages, Follow
  <2>5. Gauges(r)
    BY <1>0, <2>1, <2>2 DEF Gauges, InMeter, Shape, AtBounds, TypeInv,
       HookStages, Follow
  <2> QED BY <2>2, <2>3, <2>4, <2>5 DEF Local
<1> QED BY <1>1, <1>2, <1>3, <1>4, <1>5, <1>6, <1>7, <1>8, <1>9, <1>10, <1>11,
     <1>12, <1>13, <1>14, <1>15, <1>16, <1>17, <1>18, <1>19, <1>20, <1>21,
     <1>22, <1>23 DEF Step

-----------------------------------------------------------------------------

(* The invariant holds at the start. *)
LEMMA InitEstablishes == Init => IndInv
<1> SUFFICES ASSUME Init PROVE IndInv
  OBVIOUS
<1>1. TypeInv
  BY DEF Init, TypeInv, New, Request, Stages, Flows, HookStages
<1>2. ASSUME NEW r \in Requests PROVE Local(req[r], did[r])
  <2>1. /\ req[r].pc = "idle" /\ req[r].at = 1 /\ req[r].flow = "none"
        /\ req[r].origin = "idle" /\ \A s \in Counted : did[r][s] = 0
    BY DEF Init, New
  <2>2. AtBounds(req[r]) /\ Passed(req[r], did[r]) /\ Calls(req[r], did[r])
    BY <2>1, HooksAssumption DEF AtBounds, Passed, Calls, HookStages, Core, Counted
  <2>3. Origins(req[r]) /\ Outs(req[r], did[r]) /\ Refused(req[r], did[r])
    BY <2>1 DEF Origins, Outs, Refused, Core, Inner, Settled, Outside, Counted
  <2> QED BY <2>2, <2>3 DEF Local
<1>3. InFlightExact
  <2>1. {r \in Requests : InMeter(req[r])} = {}
    BY DEF Init, New, InMeter
  <2> QED BY <2>1, FS_EmptySet DEF InFlightExact, Init
<1> QED BY <1>1, <1>2, <1>3 DEF IndInv, LocalInv

(* The gauge goes on counting the metered requests when one of them steps. *)
LEMMA GaugeFollows ==
  ASSUME TypeInv, InFlightExact, NEW r \in Requests, OnlyChanges(r), Gauges(r)
  PROVE  InFlightExact'
<1> DEFINE S == {s \in Requests : InMeter(req[s])}
           T == {s \in Requests : InMeter(req'[s])}
<1>1. IsFiniteSet(S) /\ Cardinality(S) \in Nat
  BY RequestsAssumption, FS_Subset, FS_CardinalityType
<1>2. \A s \in Requests \ {r} : s \in T <=> s \in S
  BY DEF OnlyChanges
<1>3. CASE inFlight' = inFlight /\ (InMeter(req'[r]) <=> InMeter(req[r]))
  <2>1. T = S
    BY <1>2, <1>3
  <2> QED BY <1>3, <2>1 DEF InFlightExact
<1>4. CASE inFlight' = inFlight + 1 /\ ~ InMeter(req[r]) /\ InMeter(req'[r])
  <2>1. T = S \union {r} /\ r \notin S
    BY <1>2, <1>4
  <2>2. Cardinality(T) = Cardinality(S) + 1
    BY <1>1, <2>1, FS_AddElement
  <2> QED BY <1>4, <2>2 DEF InFlightExact
<1>5. CASE inFlight' = inFlight - 1 /\ InMeter(req[r]) /\ ~ InMeter(req'[r])
  <2>1. T = S \ {r} /\ r \in S
    BY <1>2, <1>5
  <2>2. Cardinality(T) = Cardinality(S) - 1
    BY <1>1, <2>1, FS_RemoveElement
  <2> QED BY <1>5, <2>2 DEF InFlightExact
<1> QED BY <1>3, <1>4, <1>5 DEF Gauges

(* Every step keeps it. *)
LEMMA NextPreserves == IndInv /\ [Next]_vars => IndInv'
<1> SUFFICES ASSUME IndInv, [Next]_vars PROVE IndInv'
  OBVIOUS
<1>1. ASSUME NEW r \in Requests, Step(r) PROVE IndInv'
  <2>1. TypeInv /\ InFlightExact /\ \A s \in Requests : Local(req[s], did[s])
    BY DEF IndInv, LocalInv
  <2>2. OnlyChanges(r) /\ Local(req'[r], did'[r]) /\ Gauges(r)
    BY <1>1, <2>1, StepKeepsLocal
  <2>3. TypeInv'
    BY <2>1, <2>2 DEF TypeInv, OnlyChanges, Gauges
  <2>4. ASSUME NEW s \in Requests PROVE Local(req'[s], did'[s])
    <3>1. CASE s = r
      BY <2>2, <3>1
    <3>2. CASE s # r
      <4>1. req'[s] = req[s] /\ did'[s] = did[s]
        BY <2>2, <3>2 DEF OnlyChanges
      <4> QED BY <2>1, <4>1
    <3> QED BY <3>1, <3>2
  <2>5. InFlightExact'
    BY <2>1, <2>2, GaugeFollows
  <2> QED BY <2>3, <2>4, <2>5 DEF IndInv, LocalInv
<1>2. ASSUME UNCHANGED vars PROVE IndInv'
  BY <1>2 DEF vars, IndInv, TypeInv, LocalInv, InFlightExact
<1> QED BY <1>1, <1>2 DEF Next, AllServed

(* The invariant that the other theorems about App.handle rest on. *)
THEOREM Inductive == Spec => []IndInv
BY InitEstablishes, NextPreserves, PTL DEF Spec

(* Type correctness; the gauge never leaves 0..Cardinality(Requests). *)
THEOREM TypeCorrect == Spec => []TypeOK
<1>1. IndInv => TypeOK
  <2> SUFFICES ASSUME IndInv PROVE TypeOK
    OBVIOUS
  <2>1. Cardinality({r \in Requests : InMeter(req[r])}) \in 0..Cardinality(Requests)
    BY RequestsAssumption, FS_Subset, FS_CardinalityType
  <2> QED BY <2>1 DEF IndInv, TypeInv, InFlightExact, TypeOK
<1> QED BY <1>1, Inductive, PTL

(* No handler runs before all of derivers, guards, validation and resolvers let
   the request pass, however often the interceptors call next() again. *)
THEOREM HandlersAreGuarded == Spec => []HandlerIsGuarded
<1>1. IndInv => HandlerIsGuarded
  BY DEF IndInv, LocalInv, HandlerIsGuarded, Local, Passed, Core, At
<1> QED BY <1>1, Inductive, PTL

(* Calling next() again repeats the core only. *)
THEOREM RetriesStayInCore == Spec => []RetryRepeatsOnlyCore
<1>1. IndInv => RetryRepeatsOnlyCore
  BY DEF IndInv, LocalInv, RetryRepeatsOnlyCore, Local, Passed, Calls
<1> QED BY <1>1, Inductive, PTL

(* A rejection of handle() comes from outside the try block of settle(). *)
THEOREM FailuresContained == Spec => []FailuresAreContained
<1>1. IndInv => FailuresAreContained
  BY DEF IndInv, LocalInv, FailuresAreContained, Local, Origins, At
<1> QED BY <1>1, Inductive, PTL

(* Queued headers and cookies are put on every settled Response exactly once. *)
THEOREM OutgoingApplied == Spec => []OutgoingAppliedOnce
<1>1. IndInv => OutgoingAppliedOnce
  BY DEF IndInv, LocalInv, OutgoingAppliedOnce, Local, Outs, At
<1> QED BY <1>1, Inductive, PTL

(* A Response leaves handle() only after every hook ran. *)
THEOREM HooksAllRun == Spec => []EveryHookRuns
<1>1. IndInv => EveryHookRuns
  BY DEF IndInv, LocalInv, EveryHookRuns, Local, Outs, At
<1> QED BY <1>1, Inductive, PTL

(* The error handlers are asked in order, up to the first that does not decline. *)
THEOREM ErrorChainInOrder == Spec => []ErrorChainOrder
<1>1. IndInv => ErrorChainOrder
  BY DEF IndInv, LocalInv, ErrorChainOrder, Local, Refused, Origins, Settled, At
<1> QED BY <1>1, Inductive, PTL

(* The gauge http_requests_in_flight counts the requests in progress. *)
THEOREM GaugeIsExact == Spec => []InFlightExact
BY Inductive, PTL DEF IndInv

-----------------------------------------------------------------------------
(* Common facts *)

(* The calls of a question are a sequence. *)
LEMMA CallsAre ==
  ASSUME Sensible(question), Listed
  PROVE  \E S : question.calls \in Seq(S)
<1>1. CASE question.kind \in {"settings", "mails", "metrics"}
  BY <1>1, Zenon DEF Sensible, IsList
<1>2. CASE question.kind \in {"routes", "decorations", "macros", "cookies"}
  BY <1>2, Zenon DEF Sensible
<1>3. CASE question.kind \in {"records", "hits", "upload", "bag", "base32"}
  BY <1>3, Zenon DEF Sensible
<1> QED BY <1>1, <1>2, <1>3 DEF Listed

(* The calls that were taken are calls of the question. *)
LEMMA ListedCalls ==
  ASSUME Put, Listed
  PROVE  /\ Len(question.calls) \in Nat /\ DOMAIN question.calls = 1..Len(question.calls)
         /\ Taken \subseteq DOMAIN question.calls
<1>1. PICK S : question.calls \in Seq(S)
  BY CallsAre DEF Put
<1> QED BY <1>1 DEF Taken, Put

(* Every action keeps the question and takes at most one call. *)
LEMMA Counts ==
  ASSUME done \in Nat, Compute
  PROVE  /\ question' = question
         /\ \/ done' = done
            \/ done' = done + 1 /\ (Listed => done < Len(question.calls))
<1>1. CASE AnswerAtOnce
  BY <1>1 DEF AnswerAtOnce, Listed
<1>2. CASE RegisterRoute \/ RegisterDelegate \/ DecorateClass \/ ApplyMacro
  BY <1>2 DEF RegisterRoute, RegisterDelegate, DecorateClass, ApplyMacro, Takes
<1>3. CASE EnterModule \/ CollectController
  BY <1>3 DEF EnterModule, CollectController, Walks
<1>4. CASE RunRequestHooks \/ EnterWrapper \/ CallRoute \/ LeaveWrapper \/ RunResponseHooks
  BY <1>4 DEF RunRequestHooks, EnterWrapper, CallRoute, LeaveWrapper, RunResponseHooks, Passes
<1>5. CASE CallCookies \/ CollectEntry \/ Send \/ Write \/ HitLimiter \/ ReadPart
  BY <1>5 DEF CallCookies, CollectEntry, Send, Write, HitLimiter, ReadPart, Takes
<1>6. CASE CreateMetric \/ UseMetric \/ OperateOnBag
  BY <1>6 DEF CreateMetric, UseMetric, OperateOnBag, Takes
<1>7. CASE EncodeByte \/ PassChar \/ PassLastChar
  BY <1>7 DEF EncodeByte, PassChar, PassLastChar, Takes
<1> QED BY <1>1, <1>2, <1>3, <1>4, <1>5, <1>6, <1>7 DEF Compute

(* The actions of a question are those of its kind. *)
LEMMA ActionOf ==
  ASSUME Compute
  PROVE  /\ Of("routes") => RegisterRoute \/ RegisterDelegate
         /\ Of("decorations") => DecorateClass
         /\ Of("macros") => ApplyMacro
         /\ Of("modules") => EnterModule \/ CollectController
         /\ Of("plugins") => \/ RunRequestHooks \/ EnterWrapper \/ CallRoute
                             \/ LeaveWrapper \/ RunResponseHooks
         /\ Of("cookies") => CallCookies
         /\ Of("settings") => CollectEntry
         /\ Of("mails") => Send
         /\ Of("records") => Write
         /\ Of("hits") => HitLimiter
         /\ Of("upload") => ReadPart
         /\ Of("metrics") => CreateMetric \/ UseMetric
         /\ Of("bag") => OperateOnBag
         /\ Of("base32") => EncodeByte \/ PassChar \/ PassLastChar
         /\ question.kind \in {"error", "probe", "pages", "totp", "password", "oauth"} =>
              AnswerAtOnce
<1>1. CASE AnswerAtOnce
  BY <1>1 DEF AnswerAtOnce, Of
<1>2. CASE RegisterRoute \/ RegisterDelegate
  BY <1>2 DEF RegisterRoute, RegisterDelegate, Takes, Of
<1>3. CASE DecorateClass \/ ApplyMacro
  BY <1>3 DEF DecorateClass, ApplyMacro, Takes, Of
<1>4. CASE EnterModule \/ CollectController
  BY <1>4 DEF EnterModule, CollectController, Walks, Of
<1>5. CASE RunRequestHooks \/ EnterWrapper \/ CallRoute \/ LeaveWrapper \/ RunResponseHooks
  BY <1>5 DEF RunRequestHooks, EnterWrapper, CallRoute, LeaveWrapper, RunResponseHooks, Passes, Of
<1>6. CASE CallCookies \/ CollectEntry \/ Send \/ Write
  BY <1>6 DEF CallCookies, CollectEntry, Send, Write, Takes, Of
<1>7. CASE HitLimiter \/ ReadPart
  BY <1>7 DEF HitLimiter, ReadPart, Takes, Of
<1>8. CASE CreateMetric \/ UseMetric \/ OperateOnBag
  BY <1>8 DEF CreateMetric, UseMetric, OperateOnBag, Takes, Of
<1>9. CASE EncodeByte \/ PassChar \/ PassLastChar
  BY <1>9 DEF EncodeByte, PassChar, PassLastChar, Takes, Of
<1> QED BY <1>1, <1>2, <1>3, <1>4, <1>5, <1>6, <1>7, <1>8, <1>9 DEF Compute

(* What a step that takes a call changes of what its question says. *)
LEMMA CallTaken ==
  ASSUME done \in Nat, question' = question, done' = done + 1
  PROVE  /\ \A i : Call(i)' = Call(i)
         /\ Taken' = Taken \cup {done + 1} /\ Taken \subseteq Nat \ {0}
         /\ \A i \in Taken : i < done + 1
BY DEF Call, Taken

(* The question stays what was asked, and no more calls are taken than it has. *)
LEMMA PutAlways == Computing => []Put
<1>1. ASSUME Ask PROVE Put
  <2>1. Sensible(question) /\ \E k \in DOMAIN Questions : question \in Questions[k] /\ question.kind = k
    BY <1>1, QuestionsAssumption DEF Ask
  <2>2. Listed => 0 <= Len(question.calls)
    BY <2>1, CallsAre
  <2> QED BY <1>1, <2>1, <2>2 DEF Ask, Put
<1>2. Put /\ [Compute]_computation => Put'
  <2> SUFFICES ASSUME Put, [Compute]_computation PROVE Put'
    OBVIOUS
  <2>1. question' = question /\ done' \in Nat
    BY Counts DEF Put, computation
  <2>2. (Listed => done <= Len(question.calls))'
    BY <2>1, Counts DEF Put, Listed, computation
  <2> QED BY <2>1, <2>2 DEF Put
<1> QED BY <1>1, <1>2, PTL DEF Computing

(* A product is smaller only by its other factor. *)
LEMMA Below ==
  ASSUME NEW p \in Nat \ {0}, NEW x \in Int, NEW y \in Int, p * x < p * y
  PROVE  x < y
<1>1. SUFFICES ASSUME y <= x PROVE FALSE
  OBVIOUS
<1>2. x - y \in Nat
  BY <1>1
<1>3. p * (x - y) >= 0
  BY <1>2
<1>4. p * (x - y) = p * x - p * y
  OBVIOUS
<1> QED BY <1>3, <1>4

(* The elements of a sequence. *)
LEMMA ElementOf ==
  ASSUME NEW S, NEW s \in Seq(S), NEW i \in DOMAIN s
  PROVE  s[i] \in S /\ i \in 1..Len(s)
OBVIOUS

(* The least of a set of numbers. *)
LEMMA LeastExists ==
  ASSUME NEW S \in SUBSET Nat, S # {}
  PROVE  Min(S) \in S /\ \A x \in S : Min(S) <= x
<1> DEFINE R == {ss \in Nat \X Nat : ss[1] < ss[2]}
<1>1. IsWellFoundedOn(R, Nat)
  BY NatLessThanWellFounded DEF OpToRel
<1>2. PICK m \in S : \A x \in S : ~ (<<x, m>> \in R)
  <2> HIDE DEF R
  <2> QED BY <1>1, WFMin, Zenon
<1>3. ASSUME NEW x \in S, x < m PROVE FALSE
  <2>1. <<x, m>> \in R
    BY <1>3
  <2> QED BY <1>2, <2>1
<1>4. m \in S /\ \A x \in S : m <= x
  BY <1>3
<1> QED BY <1>4 DEF Min

(* A bounded set of numbers has a greatest one. *)
LEMMA GreatestExists ==
  ASSUME NEW n \in Nat, NEW S \in SUBSET (0..n), S # {}
  PROVE  \E m \in S : \A x \in S : x <= m
<1> DEFINE T == {n - x : x \in S}
<1>1. T \in SUBSET Nat /\ T # {}
  <2>1. \A x \in S : n - x \in Nat
    OBVIOUS
  <2> QED BY <2>1
<1>2. PICK x \in S : n - x = Min(T)
  BY <1>1, LeastExists
<1>3. \A y \in S : n - x <= n - y
  BY <1>1, <1>2, LeastExists
<1> QED BY <1>3

(* The place of a number among others. *)
LEMMA RankOfLast ==
  ASSUME NEW n \in Nat, NEW S \in SUBSET (1..n)
  PROVE  /\ IsFiniteSet(S) /\ IsFiniteSet(S \cup {n + 1})
         /\ Cardinality(S) \in Nat /\ Cardinality(S \cup {n + 1}) = Cardinality(S) + 1
         /\ Rank(n + 1, S \cup {n + 1}) = Cardinality(S) + 1
         /\ \A i \in S : /\ Rank(i, S \cup {n + 1}) = Rank(i, S)
                         /\ Rank(i, S) \in 1..Cardinality(S)
<1>1. IsFiniteSet(S)
  <2>1. IsFiniteSet(1..n)
    BY FS_Interval
  <2> QED BY <2>1, FS_Subset
<1>2. n + 1 \notin S
  OBVIOUS
<1>3. /\ IsFiniteSet(S \cup {n + 1}) /\ Cardinality(S) \in Nat
      /\ Cardinality(S \cup {n + 1}) = Cardinality(S) + 1
  BY <1>1, <1>2, FS_AddElement, FS_CardinalityType
<1>4. Rank(n + 1, S \cup {n + 1}) = Cardinality(S) + 1
  <2>1. \A j \in S \cup {n + 1} : j <= n + 1
    OBVIOUS
  <2>2. {j \in S \cup {n + 1} : j <= n + 1} = S \cup {n + 1}
    BY <2>1, Zenon
  <2> QED BY <2>2, <1>3 DEF Rank
<1>5. ASSUME NEW i \in S
      PROVE  Rank(i, S \cup {n + 1}) = Rank(i, S) /\ Rank(i, S) \in 1..Cardinality(S)
  <2>1. {j \in S \cup {n + 1} : j <= i} = {j \in S : j <= i}
    OBVIOUS
  <2>2. {j \in S : j <= i} \in SUBSET S /\ i \in {j \in S : j <= i}
    OBVIOUS
  <2>3. Cardinality({j \in S : j <= i}) <= Cardinality(S)
    BY <2>2, <1>1, FS_Subset
  <2>4. Cardinality({j \in S : j <= i}) \in Nat /\ Cardinality({j \in S : j <= i}) # 0
    BY <2>2, <1>1, FS_Subset, FS_EmptySet, FS_CardinalityType
  <2> QED BY <2>1, <2>3, <2>4, <1>3 DEF Rank
<1> QED BY <1>1, <1>3, <1>4, <1>5

(* Sums counted by units. *)
LEMMA TotalEmpty ==
  ASSUME NEW size
  PROVE  Total(size, {}) = 0
BY FS_EmptySet DEF Total

(* A sum depends on its terms only. *)
LEMMA TotalSame ==
  ASSUME NEW I, NEW f, NEW g, \A i \in I : f[i] = g[i]
  PROVE  Total(f, I) = Total(g, I)
<1>1. UNION {{i} \X (1..f[i]) : i \in I} = UNION {{i} \X (1..g[i]) : i \in I}
  OBVIOUS
<1> QED BY <1>1 DEF Total

(* The units of a sum are finitely many. *)
LEMMA UnitsFinite ==
  ASSUME NEW I, IsFiniteSet(I), NEW size, \A i \in I : size[i] \in Nat
  PROVE  IsFiniteSet(UNION {{i} \X (1..size[i]) : i \in I})
<1>1. IsFiniteSet({{i} \X (1..size[i]) : i \in I})
  <2> DEFINE units == {{i} \X (1..size[i]) : i \in I}
  <2> DEFINE f == [i \in I |-> {i} \X (1..size[i])]
  <2>1. f \in Surjection(I, units)
    BY DEF Surjection
  <2> QED BY <2>1, FS_Surjection
<1>2. \A T \in {{i} \X (1..size[i]) : i \in I} : IsFiniteSet(T)
  <2>1. ASSUME NEW i \in I PROVE IsFiniteSet({i} \X (1..size[i]))
    <3>1. IsFiniteSet({i})
      BY FS_Singleton
    <3>2. size[i] \in Int /\ 1 \in Int
      OBVIOUS
    <3>3. IsFiniteSet(1..size[i])
      BY <3>2, FS_Interval
    <3> QED BY <3>1, <3>3, FS_Product
  <2> QED BY <2>1
<1> QED BY <1>1, <1>2, FS_UNION

(* A sum with one more term. *)
LEMMA TotalAdds ==
  ASSUME NEW I, IsFiniteSet(I), NEW size, NEW x, x \notin I,
         \A i \in I \cup {x} : size[i] \in Nat
  PROVE  /\ Total(size, I) \in Nat
         /\ Total(size, I \cup {x}) = Total(size, I) + size[x]
<1> DEFINE old == UNION {{i} \X (1..size[i]) : i \in I}
           new == {x} \X (1..size[x])
<1>1. IsFiniteSet(old) /\ Cardinality(old) \in Nat
  BY UnitsFinite, FS_CardinalityType
<1>2. IsFiniteSet(new) /\ Cardinality(new) = size[x]
  <2>1. IsFiniteSet({x}) /\ Cardinality({x}) = 1
    BY FS_Singleton
  <2>2. IsFiniteSet(1..size[x]) /\ Cardinality(1..size[x]) = size[x]
    BY FS_Interval
  <2> QED BY <2>1, <2>2, FS_Product
<1>3. UNION {{i} \X (1..size[i]) : i \in I \cup {x}} = old \cup new
  OBVIOUS
<1>4. old \cap new = {}
  OBVIOUS
<1>5. Cardinality(old \cup new) = Cardinality(old) + size[x]
  <2> HIDE DEF old, new
  <2>1. Cardinality(old \cap new) = 0
    BY <1>4, FS_EmptySet
  <2>2. Cardinality(old \cup new) = Cardinality(old) + Cardinality(new) - Cardinality(old \cap new)
    BY <1>1, <1>2, FS_Union
  <2> QED BY <2>1, <2>2, <1>1, <1>2
<1> QED BY <1>1, <1>3, <1>5 DEF Total

-----------------------------------------------------------------------------
(* Step-up and impersonation *)

(* What a question about step-up and impersonation is made of. *)
LEMMA BagCalls ==
  ASSUME Put, Of("bag")
  PROVE  /\ question.calls \in Seq([do : {"elevate", "clear", "impersonate", "stop"}, at : Nat])
         /\ question.now \in Nat /\ question.within \in Nat
BY DEF Put, Sensible, Of

(* The invariant about the session's elevation holds when it is asked. *)
LEMMA BagStart == ASSUME Ask PROVE BagInv
<1> SUFFICES ASSUME Of("bag") PROVE BagInv
  BY DEF BagInv
<1>1. answer = NewBag /\ done = 0
  BY DEF Ask, Begin, Of
<1> QED BY <1>1 DEF BagInv, NewBag, Marks, Taken

(* Each step keeps the invariant about the session's elevation. *)
LEMMA BagStep == ASSUME Put, BagInv, Compute PROVE BagInv'
<1> SUFFICES ASSUME Of("bag") PROVE BagInv'
  BY Counts DEF BagInv, Of, Put
<1>1. /\ done < Len(question.calls) /\ done' = done + 1 /\ question' = question
      /\ answer' = AfterOperation(answer, Call(done + 1))
  BY ActionOf DEF OperateOnBag, Takes, Upcoming, Call
<1> DEFINE n == done + 1
<1>2. done \in Nat /\ n \in DOMAIN question.calls
  BY <1>1, BagCalls DEF Put
<1>3. Call(n) \in [do : {"elevate", "clear", "impersonate", "stop"}, at : Nat]
  <2>1. question.calls \in Seq([do : {"elevate", "clear", "impersonate", "stop"}, at : Nat])
    BY BagCalls
  <2> QED BY <1>2, <2>1, ElementOf DEF Call
<1>4. /\ \A i : Call(i)' = Call(i)
      /\ Taken' = Taken \cup {n} /\ \A i \in Taken : i < n
  BY <1>1, <1>2, CallTaken
<1>5. Marks' = IF Call(n).do \in {"elevate", "clear"} THEN Marks \cup {n} ELSE Marks
  BY <1>4 DEF Marks
<1>6. Marks \subseteq Nat /\ \A i \in Marks : i < n
  BY <1>1, <1>2, <1>4, CallTaken DEF Marks
<1>7. /\ Call(n).do = "elevate" => answer' = Elevate(answer, Call(n).at)
      /\ Call(n).do = "clear" => answer' = ClearElevation(answer)
      /\ Call(n).do = "impersonate" => answer' = Impersonate(answer, Call(n).at)
      /\ Call(n).do = "stop" => answer' = StopImpersonation(answer)
  BY <1>1, Zenon DEF AfterOperation
<1>8. CASE Call(n).do \in {"elevate", "clear"}
  <2>1. Marks' = Marks \cup {n}
    BY <1>5, <1>8
  <2>2. \A i \in Marks' : (\A j \in Marks' : j <= i) => i = n
    BY <2>1, <1>2, <1>6
  <2>3. /\ DOMAIN answer' = {"stepUpAt", "impersonation"}
        /\ answer'.stepUpAt = IF Call(n).do = "elevate" THEN Call(n).at ELSE None
    BY <1>7, <1>8 DEF BagInv, Elevate, ClearElevation
  <2> QED BY <2>1, <2>2, <2>3, <1>4, Zenon DEF BagInv
<1>9. CASE Call(n).do \in {"impersonate", "stop"}
  BY <1>2, <1>3, <1>4, <1>5, <1>6, <1>7, <1>9 DEF BagInv, Impersonate, StopImpersonation
<1> QED BY <1>3, <1>8, <1>9

(* The bag that elevate, clear, impersonate and stop leave is elevated as requireStepUp promises. *)
LEMMA BagEnd == ASSUME Put, BagInv PROVE ElevationIsRecent
<1> SUFFICES ASSUME Of("bag") PROVE ElevationIsRecent
  BY DEF ElevationIsRecent
<1>1. CASE Marks = {}
  BY <1>1 DEF BagInv, ElevationIsRecent, Marks, RequireStepUp
<1>2. CASE Marks # {}
  <2>1. Marks \in SUBSET (0..done) /\ done \in Nat
    BY DEF Marks, Taken, Put
  <2>2. PICK i \in Marks : \A j \in Marks : j <= i
    BY <1>2, <2>1, GreatestExists
  <2>3. Call(i).do \in {"elevate", "clear"} /\ Call(i).at \in Nat
    <3>1. question.calls \in Seq([do : {"elevate", "clear", "impersonate", "stop"}, at : Nat])
      BY BagCalls
    <3>. QED
      <4>1. Listed
        BY DEF Listed, Of
      <4>2. i \in DOMAIN question.calls
        BY <4>1, <2>2, ListedCalls DEF Marks
      <4>3. Call(i) \in [do : {"elevate", "clear", "impersonate", "stop"}, at : Nat]
        BY <3>1, <4>2, ElementOf DEF Call
      <4> QED BY <4>3, <2>2 DEF Marks
  <2>4. \A j \in Marks : (\A k \in Marks : k <= j) => j = i
    BY <2>1, <2>2
  <2>5. answer.stepUpAt = IF Call(i).do = "elevate" THEN Call(i).at ELSE None
    BY <2>2 DEF BagInv
  <2>6. RequireStepUp(answer, question.now, question.within) <=>
          Call(i).do = "elevate" /\ question.now - Call(i).at <= question.within
    BY <2>3, <2>5, NoneAssumption DEF RequireStepUp
  <2> QED BY <2>2, <2>4, <2>6 DEF ElevationIsRecent, Marks
<1> QED BY <1>1, <1>2

-----------------------------------------------------------------------------
(* Questions that one step answers *)

(* The invariant about questions that one step answers holds when it is asked. *)
LEMMA StaticStart == ASSUME Ask PROVE StaticInv
BY DEF Ask, StaticInv

(* Each step keeps the invariant about questions that one step answers. *)
LEMMA StaticStep == ASSUME Put, StaticInv, Compute PROVE StaticInv'
<1>1. CASE Static
  BY <1>1, ActionOf DEF AnswerAtOnce, StaticInv, Static
<1>2. CASE ~ Static
  BY <1>2, Counts DEF StaticInv, Static, Put
<1> QED BY <1>1, <1>2

(* What handleError answers to each kind of error. *)
LEMMA RenderedStatus ==
  ASSUME NEW q
  PROVE  /\ q.err.kind = "other" => Rendered(q.err, q.problems) =
              Reply(500, IF q.problems THEN NoBody ELSE Body("Internal Server Error"), {})
         /\ q.err.kind \in {"response", "http"} => Rendered(q.err, q.problems).status = q.err.status
<1>1. ASSUME q.err.kind = "other"
      PROVE  Rendered(q.err, q.problems) =
               Reply(500, IF q.problems THEN NoBody ELSE Body("Internal Server Error"), {})
  BY <1>1, Zenon DEF Rendered, ToErrorResponse, ProblemDetails
<1>2. ASSUME q.err.kind \in {"response", "http"} PROVE Rendered(q.err, q.problems).status = q.err.status
  <2>1. Rendered(q.err, q.problems) = Reply(q.err.status, Body(q.err.message), {})
    BY <1>2, Zenon DEF Rendered, ToErrorResponse, ProblemDetails
  <2> QED BY <2>1 DEF Reply
<1> QED BY <1>1, <1>2

(* An error that is not meant for the client is rendered without its message. *)
LEMMA ErrorEnd == ASSUME Put, StaticInv PROVE ErrorsStayOpaque
<1> SUFFICES ASSUME Of("error"), done = 1 PROVE ErrorsStayOpaque
  BY DEF ErrorsStayOpaque
<1>1. ASSUME NEW q, q.kind = "error" PROVE Answer(q) = Rendered(q.err, q.problems)
  BY <1>1, Zenon DEF Answer
<1>2. answer = Rendered(question.err, question.problems)
  BY <1>1 DEF StaticInv, Static, Of
<1>3. question.err.kind \in {"response", "http", "other"}
  BY Zenon DEF Put, Sensible, Of
<1>4. \A other \in Questions["error"] : Answer(other) = Rendered(other.err, other.problems)
  BY <1>1, QuestionsAssumption DEF Put, Of
<1>5. CASE question.err.kind = "other"
  <2>1. answer = Reply(500, IF question.problems THEN NoBody ELSE Body("Internal Server Error"), {})
    BY <1>2, <1>5, RenderedStatus
  <2>2. \A other \in Questions["error"] :
          other.err.kind = "other" /\ other.problems = question.problems => Answer(other) = answer
    <3> SUFFICES ASSUME NEW other \in Questions["error"],
                        other.err.kind = "other", other.problems = question.problems
                 PROVE  Answer(other) = answer
      OBVIOUS
    <3>1. Answer(other) =
            Reply(500, IF other.problems THEN NoBody ELSE Body("Internal Server Error"), {})
      <4>1. Answer(other) = Rendered(other.err, other.problems)
        BY <1>4
      <4>2. other.err.kind = "other"
        OBVIOUS
      <4> QED BY <4>1, <4>2, RenderedStatus, Zenon
    <3> QED BY <3>1, <2>1
  <2> QED BY <1>5, <2>1, <2>2 DEF ErrorsStayOpaque, Reply
<1>6. CASE question.err.kind \in {"response", "http"}
  BY <1>2, <1>6, RenderedStatus DEF ErrorsStayOpaque
<1> QED BY <1>3, <1>5, <1>6

(* The readiness probe answers what its checks say. *)
LEMMA ProbeEnd == ASSUME Put, StaticInv PROVE ReadyIsHonest
<1> SUFFICES ASSUME Of("probe"), done = 1 PROVE ReadyIsHonest
  BY DEF ReadyIsHonest
<1>1. answer = Ready(question.checks)
  <2>1. Answer(question) = Ready(question.checks)
    BY Zenon DEF Answer, Of
  <2> QED BY <2>1 DEF StaticInv, Static, Of
<1> QED BY <1>1 DEF Ready, ReadyIsHonest

(* verify accepts the password that was hashed and no other, and needsRehash sees an old algorithm. *)
LEMMA PasswordEnd ==
  ASSUME Put, StaticInv, Of("password"), done = 1
  PROVE  /\ answer.ok <=> question.typed = question.password
         /\ answer.rehash <=> Algorithm(question.then) # Algorithm(question.now)
<1>1. answer = [ok |-> VerifyPassword(question.typed, HashOf(question.then, question.password)),
                rehash |-> NeedsRehash(question.now, HashOf(question.then, question.password))]
  <2>1. Answer(question) =
          [ok |-> VerifyPassword(question.typed, HashOf(question.then, question.password)),
           rehash |-> NeedsRehash(question.now, HashOf(question.then, question.password))]
    BY Zenon DEF Answer, Of
  <2> QED BY <2>1 DEF StaticInv, Static, Of
<1>2. None # HashOf(question.then, question.password)
  BY Zenon DEF Put, Sensible, Of
<1> QED BY <1>1, <1>2 DEF VerifyPassword, NeedsRehash, HashOf

(* A code is valid within its window, and verify throws before the first steps. *)
LEMMA TotpEnd ==
  ASSUME Put, StaticInv, Of("totp"), done = 1
  PROVE  LET q == question
             apart == Counter(q.used, q.period) - Counter(q.made, q.period) IN
         IF Counter(q.used, q.period) < q.window THEN answer = "throws"
         ELSE /\ answer = "valid" <=> (-q.window <= apart /\ apart <= q.window)
              /\ q.used \in q.made..(q.made + q.window * q.period) => answer = "valid"
<1> DEFINE m == question.made \div question.period
           u == question.used \div question.period
           w == question.window
           p == question.period
<1>1. /\ question.made \in Nat /\ question.used \in Nat
      /\ w \in Nat /\ p \in Nat \ {0}
  BY Zenon DEF Put, Sensible, Of
<1>2. m \in Nat /\ u \in Nat
  BY <1>1
<1>3. answer = Verify(question.key, <<question.key, m>>, question.used, p, w)
  <2>1. Answer(question) =
          Verify(question.key, Code(question.key, question.made, p), question.used, p, w)
    BY Zenon DEF Answer, Of
  <2> QED BY <2>1 DEF StaticInv, Static, Of, Code, Hotp, Counter
<1>4. answer = IF \E c \in (u - w)..(u + w) : c < 0 THEN "throws"
               ELSE IF \E c \in (u - w)..(u + w) : <<question.key, c>> = <<question.key, m>>
               THEN "valid" ELSE "invalid"
  BY <1>3 DEF Verify, Candidates, Counter, Hotp
<1>5. (\E c \in (u - w)..(u + w) : c < 0) <=> u < w
  BY <1>1, <1>2
<1>6. (\E c \in (u - w)..(u + w) : <<question.key, c>> = <<question.key, m>>)
        <=> -w <= u - m /\ u - m <= w
  BY <1>1, <1>2
<1>7. ASSUME question.used \in question.made..(question.made + w * p)
      PROVE  -w <= u - m /\ u - m <= w
  <2>1. p * m <= question.made /\ question.made < p * m + p
    BY <1>1
  <2>2. p * u <= question.used /\ question.used < p * u + p
    BY <1>1
  <2> DEFINE made == question.made
             used == question.used
  <2> HIDE DEF m, u, w, p, made, used
  <2>3. made \in Int /\ used \in Int /\ made <= used /\ used <= made + w * p
    BY <1>1, <1>7 DEF made, used, w, p
  <2>4. /\ p * m <= made /\ made < p * m + p
        /\ p * u <= used /\ used < p * u + p
    BY <2>1, <2>2 DEF made, used, m, u
  <2>5. p * u < p * (m + w + 1)
    <3>1. p * (m + w + 1) = p * m + w * p + p
      BY <1>1, <1>2
    <3> QED BY <1>1, <1>2, <2>3, <2>4, <3>1
  <2>6. p * m < p * (u + 1)
    <3>1. p * (u + 1) = p * u + p
      BY <1>1, <1>2
    <3> QED BY <1>1, <1>2, <2>3, <2>4, <3>1
  <2>7. u < m + w + 1 /\ m < u + 1
    BY <1>1, <1>2, <2>5, <2>6, Below
  <2> QED BY <1>1, <1>2, <2>7
<1> QED BY <1>4, <1>5, <1>6, <1>7 DEF Counter

(* The verifier that is sent with the code is the one whose challenge was sent. *)
LEMMA OauthEnd == ASSUME Put, StaticInv PROVE ExchangeMatches
<1> SUFFICES ASSUME Of("oauth"), done = 1 PROVE ExchangeMatches
  BY DEF ExchangeMatches
<1> DEFINE q == question
<1>1. answer = [url |-> AuthorizationUrl(q.options), token |-> TokenAnswer(q.granted, q.json),
                request |-> TokenRequest(q.config, q.grant)]
  <2>1. Answer(q) = [url |-> AuthorizationUrl(q.options), token |-> TokenAnswer(q.granted, q.json),
                     request |-> TokenRequest(q.config, q.grant)]
    BY Zenon DEF Answer, Of
  <2> QED BY <2>1 DEF StaticInv, Static, Of
<1>2. "none" \notin {q.options.verifier, q.grant.verifier}
  BY Zenon DEF Put, Sensible, Of
<1>3. /\ answer.request.code_verifier = IF q.grant.type = "code" THEN q.grant.verifier ELSE "none"
      /\ answer.request.authorization = ClientAuth(q.config).authorization
      /\ answer.request.client_secret = ClientAuth(q.config).client_secret
  BY <1>1 DEF TokenRequest
<1>4. ASSUME "code_challenge" \notin DOMAIN q.options.params
      PROVE  answer.url["code_challenge"] = Challenge(q.options.verifier)
  BY <1>1, <1>4 DEF AuthorizationUrl
<1>5. "code_challenge" \notin DOMAIN q.options.params =>
        (ServerAccepts(answer.url, answer.request) <=>
           q.grant.type = "code" /\ q.grant.verifier = q.options.verifier)
  BY <1>2, <1>3, <1>4 DEF ServerAccepts, Challenge
<1>6. ~ q.granted => "accessToken" \notin DOMAIN answer.token
  BY <1>1 DEF TokenAnswer
<1>7. /\ answer.request.authorization = "none" \/ answer.request.client_secret = "none"
      /\ q.config.secret # "none" => q.config.secret \in {answer.request.authorization,
                                                         answer.request.client_secret}
  BY <1>3 DEF ClientAuth
<1> QED BY <1>5, <1>6, <1>7 DEF ExchangeMatches

-----------------------------------------------------------------------------
(* Pages *)

(* Each item is on one page. *)
LEMMA OnePage ==
  ASSUME NEW L \in Nat \ {0}, NEW T \in Nat, NEW i \in 0..(T - 1)
  PROVE  Cardinality({p \in 1..TotalPages(T, L) : OnPage(i, p, L)}) = 1
<1> DEFINE N == (T + L - 1) \div L
           k == i \div L
<1>1. /\ L * k <= i /\ i < L * k + L /\ k \in Nat
      /\ T + L - 1 < L * N + L /\ N \in Nat
  OBVIOUS
<1>2. L * (k + 1) < L * (N + 1)
  <2> HIDE DEF N, k
  <2>1. L * (k + 1) = L * k + L /\ L * (N + 1) = L * N + L
    BY <1>1
  <2> QED BY <1>1, <2>1
<1>3. k + 1 < N + 1
  BY <1>1, <1>2, Below
<1>4. k + 1 \in 1..TotalPages(T, L)
  BY <1>1, <1>3 DEF TotalPages, AtLeastOne
<1>5. OnPage(i, k + 1, L)
  BY <1>1 DEF OnPage, Offset
<1>6. ASSUME NEW p \in 1..TotalPages(T, L), OnPage(i, p, L)
      PROVE  p = k + 1
  <2>1. p \in Int
    BY <1>1 DEF TotalPages, AtLeastOne
  <2>2. (p - 1) * L <= i /\ i < (p - 1) * L + L
    BY <1>6 DEF OnPage, Offset
  <2> HIDE DEF k
  <2>3. L * (p - 1) < L * (k + 1)
    <3>1. L * (p - 1) = (p - 1) * L /\ L * (k + 1) = L * k + L
      BY <2>1, <1>1
    <3> QED BY <1>1, <2>1, <2>2, <3>1
  <2>4. L * k < L * p
    <3>1. L * p = (p - 1) * L + L
      BY <2>1
    <3> QED BY <1>1, <2>1, <2>2, <3>1
  <2>5. p - 1 < k + 1 /\ k < p
    BY <1>1, <2>1, <2>3, <2>4, Below
  <2> QED BY <1>1, <2>1, <2>5
<1>7. {p \in 1..TotalPages(T, L) : OnPage(i, p, L)} = {k + 1}
  BY <1>4, <1>5, <1>6
<1> QED BY <1>7, FS_Singleton

(* The pages partition the items. *)
LEMMA PagesEnd == ASSUME Put, StaticInv PROVE PagesPartition
<1> SUFFICES ASSUME Of("pages"), done = 1 PROVE PagesPartition
  BY DEF PagesPartition
<1> DEFINE L == PageLimit(question.limit, 2, question.maxLimit)
<1>1. answer = [page |-> PageNumber(question.page), limit |-> L,
                pages |-> TotalPages(question.total, L)]
  <2>1. Answer(question) = [page |-> PageNumber(question.page), limit |-> L,
                            pages |-> TotalPages(question.total, L)]
    BY Zenon DEF Answer, Of
  <2> QED BY <2>1 DEF StaticInv, Static, Of
<1>2. /\ question.page \in Int \cup {None} /\ question.limit \in Int \cup {None}
      /\ question.maxLimit \in Nat \ {0} /\ question.total \in Nat
  <2>1. /\ {question.page, question.limit} \subseteq Int \cup {None}
        /\ question.maxLimit \in Nat \ {0} /\ question.total \in Nat
    BY Zenon DEF Put, Sensible, Of
  <2> QED BY <2>1
<1>3. L \in 1..question.maxLimit /\ PageNumber(question.page) >= 1
  BY <1>2 DEF PageLimit, PageNumber, AtMost, AtLeastOne, Truthy
<1> QED BY <1>1, <1>2, <1>3, OnePage DEF PagesPartition

-----------------------------------------------------------------------------
(* Rate limits *)

(* What a question about a rate limit is made of. *)
LEMMA HitsCalls ==
  ASSUME Put, Of("hits")
  PROVE  /\ HitCalls(question)
         /\ done \in Nat /\ done <= Len(question.calls)
<1>1. /\ question.calls \in Seq(Nat) /\ Increasing(question.calls)
      /\ question.windowMs \in Nat \ {0} /\ question.limit \in Nat
  BY Zenon DEF Put, Sensible, Of
<1>2. Listed
  BY DEF Listed, Of
<1>4. Len(question.calls) \in Nat /\ question.calls \in [1..Len(question.calls) -> Nat]
  BY <1>1
<1>3. \A i, j \in 1..Len(question.calls) : i <= j => question.calls[i] <= question.calls[j]
  <2> SUFFICES ASSUME NEW i \in 1..Len(question.calls), NEW j \in 1..Len(question.calls), i <= j
               PROVE  question.calls[i] <= question.calls[j]
    OBVIOUS
  <2>1. DOMAIN question.calls = 1..Len(question.calls) /\ question.calls[i] \in Nat
    BY <1>4
  <2>2. CASE i < j
    BY <1>1, <2>1, <2>2, Zenon DEF Increasing
  <2>3. CASE i = j
    BY <2>1, <2>3
  <2> QED BY <1>4, <2>2, <2>3
<1> QED BY <1>1, <1>2, <1>3, <1>4 DEF Put, HitCalls

(* The invariant about rate limits holds when it is asked. *)
LEMMA HitsStart == ASSUME Ask PROVE HitsInv
<1> SUFFICES ASSUME Of("hits") PROVE HitsInv
  BY DEF HitsInv
<1>1. answer = [window |-> NoWindow, admitted |-> {}]
  BY Zenon DEF Ask, Begin, Of
<1>2. 1..done = {} /\ done = 0
  BY DEF Ask
<1>3. [i \in {} |-> 0] \in [1..done -> 1..done]
  BY <1>2
<1>4. OpenedBy(question, done, answer.window, answer.admitted, [i \in {} |-> 0])
  BY <1>1, <1>2, <1>3 DEF OpenedBy, InWindows, WindowsApart, LastWindow, NoWindow
<1> QED BY <1>3, <1>4 DEF HitsInv

(* One more hit falls into the open window, or opens the next one. *)
LEMMA OneMoreHit ==
  ASSUME NEW q, HitCalls(q), NEW d \in Nat, d + 1 <= Len(q.calls), NEW w, NEW a,
         NEW opened, OpenedBy(q, d, w, a, opened)
  PROVE  LET v == Hit(w, q.calls[d + 1], q.windowMs) IN
         \E next : OpenedBy(q, d + 1, v, a \cup IF Admits(v, q.limit) THEN {d + 1} ELSE {}, next)
<1> DEFINE v == Hit(w, q.calls[d + 1], q.windowMs)
           b == a \cup IF Admits(v, q.limit) THEN {d + 1} ELSE {}
           at(i) == q.calls[i]
           W == q.windowMs
           L == q.limit
           new == w.expires <= at(d + 1)
           next == [i \in 1..(d + 1) |-> IF i # d + 1 THEN opened[i]
                                         ELSE IF new THEN d + 1 ELSE opened[d]]
<1>1. \A i \in 1..(d + 1) : at(i) \in Nat
  BY DEF HitCalls
<1>2. ASSUME NEW i \in 1..(d + 1), NEW j \in 1..(d + 1), i <= j PROVE at(i) <= at(j)
  <2>1. i \in 1..Len(q.calls) /\ j \in 1..Len(q.calls)
    BY DEF HitCalls
  <2> QED BY <2>1, <1>2 DEF HitCalls
<1>3. W \in Nat \ {0} /\ L \in Nat
  BY DEF HitCalls
<1>4. \A i \in 1..d : opened[i] \in 1..d /\ opened[i] \in 1..i
  BY DEF OpenedBy, InWindows
<1>5. \A i \in 1..d : opened[opened[i]] = opened[i] /\ at(i) < at(opened[i]) + W
  BY DEF OpenedBy, InWindows
<1>6. \A i \in 1..d : i \in a <=> i - opened[i] + 1 <= L
  BY DEF OpenedBy, InWindows
<1>7. \A i, j \in 1..d : i <= j => opened[i] <= opened[j]
  BY DEF OpenedBy, WindowsApart
<1>8. \A i, j \in 1..d : i <= j /\ opened[i] # opened[j] => at(opened[i]) + W <= at(opened[j])
  BY DEF OpenedBy, WindowsApart
<1>9. /\ d > 0 => w.expires = at(opened[d]) + W /\ w.count = d - opened[d] + 1
      /\ d = 0 => w.expires = 0
      /\ DOMAIN w = {"count", "expires"} /\ a \subseteq 1..d
  BY DEF OpenedBy, LastWindow
<1>10. at(d + 1) \in Nat
  BY <1>1
<1>11. d = 0 => new
  BY <1>9, <1>10
<1>12. d > 0 => d \in 1..d /\ opened[d] \in 1..d /\ opened[d] \in Nat /\ at(opened[d]) \in Nat
  BY <1>1, <1>4
<1>13. next \in [1..(d + 1) -> 1..(d + 1)]
  BY <1>4, <1>11, <1>12
<1>14. \A i \in 1..d : next[i] = opened[i]
  BY <1>4
<1>15. next[d + 1] = IF new THEN d + 1 ELSE opened[d]
  OBVIOUS
<1>16. v = IF new THEN [count |-> 1, expires |-> at(d + 1) + W]
           ELSE [w EXCEPT !.count = @ + 1]
  BY DEF Hit
<1>17. new \/ ~ new
  OBVIOUS
<1>18. new => w.expires <= at(d + 1)
  OBVIOUS
<1>19. ~ new => d > 0 /\ at(d + 1) < at(opened[d]) + W
  <2>1. ~ new => d > 0
    BY <1>11
  <2>2. d > 0 => w.expires = at(opened[d]) + W /\ at(opened[d]) \in Nat
    BY <1>9, <1>12
  <2> QED BY <2>1, <2>2, <1>3, <1>10
<1>20. b = a \cup IF Admits(v, L) THEN {d + 1} ELSE {}
  OBVIOUS
<1> HIDE DEF v, b, next, new
<1>21. /\ v.expires = at(next[d + 1]) + W /\ v.count = (d + 1) - next[d + 1] + 1
       /\ DOMAIN v = {"count", "expires"}
  <2>1. CASE new
    <3>1. v = [count |-> 1, expires |-> at(d + 1) + W] /\ next[d + 1] = d + 1
      BY <2>1, <1>15, <1>16
    <3>2. v.expires = at(d + 1) + W /\ v.count = 1 /\ DOMAIN v = {"count", "expires"}
      BY <3>1
    <3> QED BY <3>1, <3>2
  <2>2. CASE ~ new
    <3>1. v = [w EXCEPT !.count = @ + 1] /\ next[d + 1] = opened[d]
      BY <2>2, <1>15, <1>16
    <3>2. v.expires = w.expires /\ v.count = w.count + 1 /\ DOMAIN v = DOMAIN w
      BY <3>1, <1>9
    <3> QED BY <2>2, <3>1, <3>2, <1>9, <1>12, <1>19
  <2> QED BY <1>17, <2>1, <2>2
<1>22. Admits(v, L) <=> (d + 1) - next[d + 1] + 1 <= L
  BY <1>21 DEF Admits
<1>23. at(d + 1) < at(next[d + 1]) + W
  BY <1>3, <1>10, <1>15, <1>17, <1>19
<1>24. next[d + 1] \in 1..(d + 1) /\ next[next[d + 1]] = next[d + 1]
  <2>1. CASE new
    BY <2>1, <1>15
  <2>2. CASE ~ new
    BY <2>2, <1>5, <1>12, <1>14, <1>15, <1>19
  <2> QED BY <1>17, <2>1, <2>2
<1>25. ASSUME NEW i \in 1..d
       PROVE  /\ next[i] <= next[d + 1]
              /\ next[i] # next[d + 1] => at(next[i]) + W <= at(next[d + 1])
  <2>1. d \in 1..d /\ i <= d /\ opened[i] \in 1..d /\ opened[d] \in 1..d /\ d > 0
    BY <1>4
  <2>2. /\ opened[i] <= opened[d]
        /\ opened[i] # opened[d] => at(opened[i]) + W <= at(opened[d])
    BY <2>1, <1>7, <1>8
  <2>3. at(opened[i]) \in Nat /\ at(opened[d]) \in Nat
    BY <2>1, <1>1
  <2>4. at(opened[i]) <= at(opened[d])
    <3>1. CASE opened[i] = opened[d]
      BY <3>1, <2>3
    <3>2. CASE opened[i] # opened[d]
      <4>1. at(opened[i]) + W <= at(opened[d])
        BY <3>2, <2>2
      <4> QED BY <4>1, <2>3, <1>3
    <3> QED BY <3>1, <3>2
  <2>5. next[i] = opened[i]
    BY <1>14
  <2>6. CASE new
    <3>1. next[d + 1] = d + 1
      BY <2>6, <1>15
    <3>a. at(opened[d]) + W <= at(d + 1)
      BY <2>1, <2>6, <1>9, <1>18
    <3>2. at(opened[i]) + W <= at(d + 1)
      BY <2>3, <2>4, <3>a, <1>3, <1>10
    <3>3. opened[i] <= d + 1
      BY <2>1
    <3> QED BY <2>5, <3>1, <3>2, <3>3
  <2>7. CASE ~ new
    BY <2>2, <2>5, <2>7, <1>15
  <2> QED BY <1>17, <2>6, <2>7
<1>26. ASSUME NEW i \in 1..(d + 1)
       PROVE  /\ next[i] \in 1..i /\ next[next[i]] = next[i]
              /\ at(i) < at(next[i]) + W
              /\ i \in b <=> i - next[i] + 1 <= L
  <2>1. CASE i = d + 1
    <3>1. i \in b <=> Admits(v, L)
      BY <2>1, <1>9, <1>20
    <3> QED BY <2>1, <3>1, <1>22, <1>23, <1>24
  <2>2. CASE i # d + 1
    <3>1. i \in 1..d
      BY <2>2
    <3>2. i \in b <=> i \in a
      BY <2>2, <1>20
    <3>3. next[i] = opened[i] /\ next[opened[i]] = opened[opened[i]]
      BY <3>1, <1>4, <1>14
    <3> QED BY <3>1, <3>2, <3>3, <1>4, <1>5, <1>6
  <2> QED BY <2>1, <2>2
<1>27. ASSUME NEW i \in 1..(d + 1), NEW j \in 1..(d + 1), i <= j
       PROVE  next[i] <= next[j] /\ (next[i] # next[j] => at(next[i]) + W <= at(next[j]))
  <2>1. CASE j # d + 1
    <3>1. i \in 1..d /\ j \in 1..d
      BY <1>27, <2>1
    <3>2. next[i] = opened[i] /\ next[j] = opened[j]
      BY <3>1, <1>14
    <3> QED BY <1>27, <3>1, <3>2, <1>7, <1>8
  <2>2. CASE i # d + 1 /\ j = d + 1
    <3>1. i \in 1..d
      BY <2>2
    <3> QED BY <2>2, <3>1, <1>25
  <2>3. CASE i = d + 1 /\ j = d + 1
    BY <2>3, <1>24
  <2> QED BY <1>27, <2>1, <2>2, <2>3
<1>28. b \subseteq 1..(d + 1)
  BY <1>9, <1>20
<1>29. OpenedBy(q, d + 1, v, b, next)
  <2>1. LastWindow(q, d + 1, v, next)
    <3>1. d + 1 # 0
      OBVIOUS
    <3>2. /\ v.expires = q.calls[next[d + 1]] + q.windowMs
          /\ v.count = (d + 1) - next[d + 1] + 1
      BY <1>21, Zenon
    <3>3. (d + 1 = 0) => (v.expires = 0)
      BY <3>1
    <3>4. DOMAIN v = {"count", "expires"}
      BY <1>21
    <3> QED BY <3>2, <3>3, <3>4, Zenon DEF LastWindow
  <2>2. InWindows(q, d + 1, b, next)
    BY <1>26 DEF InWindows
  <2>3. WindowsApart(q, d + 1, next)
    BY <1>27 DEF WindowsApart
  <2> QED BY <2>1, <2>2, <2>3, <1>13, <1>28, Zenon DEF OpenedBy
<1> QED BY <1>29 DEF v, b

(* Each step keeps the invariant about rate limits. *)
LEMMA HitsStep == ASSUME Put, HitsInv, Compute PROVE HitsInv'
<1> SUFFICES ASSUME Of("hits") PROVE HitsInv'
  BY Counts DEF HitsInv, Of, Put
<1>1. /\ done < Len(question.calls) /\ done' = done + 1 /\ question' = question
      /\ LET w == Hit(answer.window, question.calls[done + 1], question.windowMs) IN
         answer' = [window |-> w,
                    admitted |-> answer.admitted \cup IF Admits(w, question.limit)
                                                      THEN {done + 1} ELSE {}]
  <2>1. HitLimiter
    BY ActionOf
  <2> QED BY <2>1 DEF HitLimiter, Takes, Upcoming
<1>2. PICK opened : OpenedBy(question, done, answer.window, answer.admitted, opened)
  BY DEF HitsInv
<1>3. \E next : OpenedBy(question, done + 1, answer'.window, answer'.admitted, next)
  <2>1. /\ HitCalls(question) /\ done \in Nat /\ done + 1 <= Len(question.calls)
    BY <1>1, HitsCalls DEF HitCalls
  <2> DEFINE w == Hit(answer.window, question.calls[done + 1], question.windowMs)
  <2>2. \E next : OpenedBy(question, done + 1, w,
                   answer.admitted \cup IF Admits(w, question.limit) THEN {done + 1} ELSE {}, next)
    BY <2>1, <1>2, OneMoreHit, Zenon
  <2>3. /\ answer'.window = w
        /\ answer'.admitted = answer.admitted \cup IF Admits(w, question.limit)
                                                    THEN {done + 1} ELSE {}
    BY <1>1
  <2> QED BY <2>2, <2>3
<1> QED BY <1>1, <1>3 DEF HitsInv

(* The hits admitted in a window are its first ones. *)
LEMMA WindowSize ==
  ASSUME NEW a \in Nat, NEW L \in Nat
  PROVE  IsFiniteSet(a..(a + L - 1)) /\ Cardinality(a..(a + L - 1)) = L
<1>1. IsFiniteSet(a..(a + L - 1))
  BY FS_Interval
<1>2. Cardinality(a..(a + L - 1)) = IF a > a + L - 1 THEN 0 ELSE (a + L - 1) - a + 1
  BY FS_Interval
<1> QED BY <1>1, <1>2

(* What was admitted of each window is its first hits, up to the limit. *)
LEMMA HitsEnd == ASSUME Put, HitsInv PROVE RateIsFair
<1> SUFFICES ASSUME Of("hits"), NEW i \in Taken
             PROVE  /\ Cardinality({k \in answer.admitted :
                         k \in {j \in Taken : Call(i) <= Call(j) /\ Call(j) < Call(i) + question.windowMs}})
                         <= 2 * question.limit
                    /\ i \notin answer.admitted =>
                         Cardinality({k \in answer.admitted :
                           k \in {j \in 1..i : Call(i) - question.windowMs < Call(j)}})
                           >= question.limit
  BY Zenon DEF RateIsFair
<1> DEFINE L == question.limit
           W == question.windowMs
           span == {k \in answer.admitted :
                     k \in {j \in Taken : Call(i) <= Call(j) /\ Call(j) < Call(i) + W}}
           before == {k \in answer.admitted : k \in {j \in 1..i : Call(i) - W < Call(j)}}
<1>1. /\ \A j \in Taken : Call(j) \in Nat
      /\ \A j, k \in Taken : j <= k => Call(j) <= Call(k)
      /\ W \in Nat \ {0} /\ L \in Nat /\ done \in Nat /\ Taken = 1..done
  <2>1. HitCalls(question) /\ done \in Nat /\ done <= Len(question.calls)
    BY HitsCalls
  <2>2. W \in Nat \ {0} /\ L \in Nat /\ Taken = 1..done
    BY <2>1 DEF HitCalls, Taken
  <2>3. \A j \in 1..done : question.calls[j] \in Nat /\ j \in 1..Len(question.calls)
    BY <2>1 DEF HitCalls
  <2>4. \A j, k \in 1..Len(question.calls) : j <= k => question.calls[j] <= question.calls[k]
    BY <2>1 DEF HitCalls
  <2> HIDE DEF L, W
  <2> QED BY <2>1, <2>2, <2>3, <2>4 DEF Call
<1>2. PICK opened : OpenedBy(question, done, answer.window, answer.admitted, opened)
  BY DEF HitsInv
<1>3. /\ answer.admitted \subseteq Taken
      /\ \A j \in Taken : /\ opened[j] \in Taken /\ opened[j] \in 1..j /\ opened[opened[j]] = opened[j]
                          /\ Call(j) < Call(opened[j]) + W
                          /\ j \in answer.admitted <=> j - opened[j] + 1 <= L
      /\ \A j, k \in Taken : j <= k =>
           /\ opened[j] <= opened[k]
           /\ opened[j] # opened[k] => Call(opened[j]) + W <= Call(opened[k])
  BY <1>2 DEF OpenedBy, InWindows, WindowsApart, LastWindow, Taken, Call
<1>t. \A j \in Taken : /\ j \in Nat /\ opened[j] \in Nat /\ Call(j) \in Nat
                      /\ Call(opened[j]) \in Nat
  BY <1>1, <1>3
<1>s. /\ span = {} \/ \E j \in Taken : j \in span
      /\ \A k \in span : /\ k \in answer.admitted /\ k \in Taken
                         /\ Call(i) <= Call(k) /\ Call(k) < Call(i) + W
  BY <1>1
<1>b. /\ before \subseteq answer.admitted
      /\ \A j \in answer.admitted : j \in 1..i /\ Call(i) - W < Call(j) => j \in before
  BY <1>1
<1> HIDE DEF L, W, span, before
<1>4. Cardinality(span) <= 2 * L
  <2>1. CASE span = {}
    BY <2>1, <1>1, FS_EmptySet
  <2>2. CASE span # {}
    <3>1. span \in SUBSET (0..done) /\ span \in SUBSET Nat /\ span \subseteq Taken
      BY <1>1, <1>s
    <3>2. PICK a \in span : \A j \in span : a <= j
      BY <2>2, <3>1, LeastExists
    <3>3. PICK b \in span : \A j \in span : j <= b
      BY <2>2, <3>1, <1>1, GreatestExists
    <3> DEFINE A == opened[a]..(opened[a] + L - 1)
               B == opened[b]..(opened[b] + L - 1)
    <3>4. ASSUME NEW j \in span PROVE j \in A \cup B
      <4>1. a \in Taken /\ b \in Taken /\ j \in Taken /\ a <= j /\ j <= b
        BY <3>1, <3>2, <3>3
      <4>2. Call(a) \in Nat /\ Call(b) \in Nat /\ Call(j) \in Nat /\ Call(b) < Call(a) + W
        BY <4>1, <1>1, <1>s
      <4>3. opened[j] = opened[a] \/ opened[j] = opened[b]
        <5> SUFFICES ASSUME opened[j] # opened[a], opened[j] # opened[b] PROVE FALSE
          OBVIOUS
        <5>1. /\ opened[a] \in Taken /\ opened[j] \in Taken /\ opened[b] \in Taken
              /\ opened[b] <= b
          <6>1. opened[a] \in Taken /\ opened[j] \in Taken /\ opened[b] \in Taken
            BY <4>1, <1>3
          <6>2. opened[b] \in 1..b /\ b \in Nat
            BY <4>1, <1>3, <1>t
          <6> QED BY <6>1, <6>2
        <5>a. /\ Call(opened[a]) \in Nat /\ Call(opened[j]) \in Nat /\ Call(opened[b]) \in Nat
          BY <5>1, <1>1
        <5>2. Call(opened[a]) + W <= Call(opened[j]) /\ Call(opened[j]) + W <= Call(opened[b])
          BY <4>1, <1>3
        <5>3. Call(a) < Call(opened[a]) + W /\ Call(opened[b]) <= Call(b)
          BY <4>1, <5>1, <1>1, <1>3
        <5> QED BY <4>2, <5>2, <5>3, <5>a, <1>1
      <4>4. opened[j] \in 1..j /\ j - opened[j] + 1 <= L
        BY <4>1, <1>3, <1>s
      <4>5. opened[a] \in Nat /\ opened[b] \in Nat /\ opened[j] \in Nat /\ j \in Nat
        BY <4>1, <1>t
      <4>6. opened[j] <= j /\ j <= opened[j] + L - 1
        BY <4>4, <4>5, <1>1
      <4> QED BY <4>3, <4>5, <4>6, <1>1
    <3>5. /\ IsFiniteSet(A) /\ IsFiniteSet(B) /\ Cardinality(A) = L /\ Cardinality(B) = L
      <4>1. opened[a] \in Nat /\ opened[b] \in Nat
        BY <3>1, <1>1, <1>3
      <4> QED BY <4>1, <1>1, WindowSize
    <3> HIDE DEF A, B
    <3>6. IsFiniteSet(A \cup B) /\ Cardinality(A \cup B) <= 2 * L
      <4>1. IsFiniteSet(A \cup B) /\ Cardinality(A \cup B) = Cardinality(A) + Cardinality(B) - Cardinality(A \cap B)
        BY <3>5, FS_Union
      <4>2. IsFiniteSet(A \cap B) /\ Cardinality(A \cap B) \in Nat
        BY <3>5, FS_Subset, FS_CardinalityType
      <4> QED BY <4>1, <4>2, <3>5, <1>1
    <3>7. span \in SUBSET (A \cup B)
      BY <3>4
    <3>8. Cardinality(span) <= Cardinality(A \cup B) /\ IsFiniteSet(span)
      BY <3>6, <3>7, FS_Subset
    <3> QED BY <3>6, <3>8, <1>1, FS_CardinalityType
  <2> QED BY <2>1, <2>2
<1>5. ASSUME i \notin answer.admitted PROVE Cardinality(before) >= L
  <2> DEFINE s == opened[i]
             first == s..(s + L - 1)
  <2>1. /\ s \in Taken /\ s \in 1..i /\ opened[s] = s /\ Call(i) < Call(s) + W
        /\ ~ (i - s + 1 <= L) /\ i \in 1..done
    BY <1>1, <1>3, <1>5
  <2>f. \A j \in first : j \in Int /\ s <= j /\ j <= s + L - 1
    BY <2>1, <1>1
  <2>n. s \in Nat /\ i \in Nat
    BY <2>1, <1>1
  <2>t. L \in Nat /\ done \in Nat /\ Taken = 1..done
    BY <1>1
  <2> HIDE DEF first, s
  <2>2. ASSUME NEW j \in first PROVE j \in before
    <3>1. j \in Taken /\ s <= j /\ j <= i /\ j - s + 1 <= L
      BY <2>f, <2>1, <2>n, <2>t
    <3>2. opened[j] = s
      <4>1. opened[s] <= opened[j] /\ opened[j] <= opened[i] /\ opened[i] = s
        BY <3>1, <2>1, <1>3 DEF s
      <4>2. opened[j] \in Nat
        BY <3>1, <1>1, <1>3
      <4> QED BY <4>1, <4>2, <2>1, <2>n
    <3>3. j \in answer.admitted
      BY <3>1, <3>2, <1>3
    <3>4. Call(i) - W < Call(j)
      <4>1. Call(s) <= Call(j) /\ Call(s) \in Nat /\ Call(j) \in Nat /\ Call(i) \in Nat
        BY <3>1, <2>1, <1>1
      <4> QED BY <4>1, <2>1, <1>1
    <3>5. j \in 1..i
      BY <3>1, <2>1, <2>n, <1>1
    <3> QED BY <3>3, <3>4, <3>5, <1>b
  <2>3. IsFiniteSet(first) /\ Cardinality(first) = L
    BY <2>n, <1>1, WindowSize DEF first
  <2>4. IsFiniteSet(before)
    <3>1. before \in SUBSET (1..done) /\ IsFiniteSet(1..done)
      BY <1>1, <1>3, <1>b, FS_Interval
    <3> QED BY <3>1, FS_Subset
  <2>5. Cardinality(first) <= Cardinality(before)
    BY <2>2, <2>4, FS_Subset
  <2> QED BY <2>3, <2>4, <2>5, <1>1, FS_CardinalityType
<1> QED BY <1>4, <1>5 DEF L, W, span, before

-----------------------------------------------------------------------------
(* Base32 secrets *)

(* The powers of two that are used. *)
LEMMA Powers ==
  /\ Power(0) = 1 /\ Power(1) = 2 /\ Power(2) = 4 /\ Power(3) = 8 /\ Power(4) = 16
  /\ Power(5) = 32 /\ Power(6) = 64 /\ Power(7) = 128 /\ Power(8) = 256 /\ Power(9) = 512
  /\ Power(10) = 1024 /\ Power(11) = 2048 /\ Power(12) = 4096
BY DEF Power

(* What falls off a word does not change its thirteen lowest bits. *)
LEMMA WordIs ==
  ASSUME NEW x \in Nat
  PROVE  Word(x) \in Nat /\ \E k \in Nat : x = Word(x) + 8192 * k
<1>1. WordSize \in Nat \ {0} /\ WordSize % 8192 = 0
  BY WordSizeAssumption
<1> DEFINE m == WordSize \div 8192
           t == x \div WordSize
<1>2. m \in Nat /\ WordSize = 8192 * m
  BY <1>1
<1>3. t \in Nat /\ x % WordSize \in Nat /\ x = WordSize * t + (x % WordSize)
  BY <1>1
<1> HIDE DEF m, t
<1>4. m * t \in Nat /\ WordSize * t = 8192 * (m * t)
  BY <1>2, <1>3
<1> QED BY <1>3, <1>4 DEF Word

(* Quotient and remainder. *)
LEMMA Divided ==
  ASSUME NEW p \in Nat \ {0}, NEW v \in Nat
  PROVE  v % p \in 0..(p - 1) /\ v = p * (v \div p) + (v % p) /\ v \div p \in Nat
OBVIOUS

(* A quotient is determined by its remainder. *)
LEMMA QuotientIs ==
  ASSUME NEW p \in Nat \ {0}, NEW v \in Nat, NEW q \in Nat, NEW r \in 0..(p - 1), v = p * q + r
  PROVE  v \div p = q
OBVIOUS

(* A remainder is determined by any quotient. *)
LEMMA RemainderIs ==
  ASSUME NEW p \in Nat \ {0}, NEW v \in Nat, NEW q \in Int, NEW r \in 0..(p - 1), v = p * q + r
  PROVE  v % p = r
OBVIOUS

(* The low bits of a word that was shifted and filled. *)
LEMMA LowBits ==
  ASSUME NEW p, NEW f, NEW b, NEW m, NEW v, NEW c, NEW w, NEW k, Shifted(p, f, b, m, v, c, w, k)
  PROVE  w % b = (v % p) * f + c
<1> DEFINE q == v \div p
           r == v % p
<1>0. /\ p \in Nat \ {0} /\ f \in Nat \ {0} /\ b \in Nat \ {0} /\ v \in Nat /\ w \in Nat
      /\ k \in Nat /\ m \in Nat /\ b = p * f /\ 8192 = b * m
      /\ c \in 0..(f - 1) /\ v * f + c = w + 8192 * k
  BY DEF Shifted
<1>1. q \in Nat /\ r \in 0..(p - 1) /\ v = p * q + r
  <2>1. p \in Nat \ {0} /\ v \in Nat
    BY <1>0
  <2> QED BY <2>1, Divided
<1> HIDE DEF q, r
<1>2. PICK j \in Nat : j = m * k
  BY <1>0
<1>3. q - j \in Int /\ r * f \in Nat
  BY <1>0, <1>1
<1>4. v * f = b * q + r * f
  BY <1>0, <1>1
<1>5. 8192 * k = b * j
  BY <1>0, <1>2
<1>6. b * q - b * j = b * (q - j)
  BY <1>0, <1>1
<1>7. w = b * (q - j) + (r * f + c)
  BY <1>0, <1>1, <1>3, <1>4, <1>5, <1>6
<1>8. r * f + c \in 0..(b - 1)
  <2>1. (p - 1) - r \in Nat
    BY <1>0, <1>1
  <2>2. ((p - 1) - r) * f \in Nat
    BY <1>0, <2>1
  <2>3. ((p - 1) - r) * f = b - f - r * f
    BY <1>0, <1>1
  <2> QED BY <1>0, <1>1, <1>3, <2>2, <2>3
<1>9. w % b = r * f + c
  <2>1. b \in Nat \ {0} /\ w \in Nat
    BY <1>0
  <2> QED BY <2>1, <1>3, <1>7, <1>8, RemainderIs, Zenon
<1> QED BY <1>0, <1>9 DEF r

(* The bits of a number in two parts. *)
LEMMA TwoParts ==
  ASSUME NEW p \in Nat \ {0}, NEW f \in Nat \ {0}, NEW v \in Nat
  PROVE  /\ (v \div p) % f \in 0..(f - 1)
         /\ v % (p * f) = ((v \div p) % f) * p + (v % p)
<1> DEFINE q == v \div p
           r == v % p
           t == q \div f
           c == q % f
<1>1. q \in Nat /\ r \in 0..(p - 1) /\ v = p * q + r
  BY Divided
<1>2. t \in Nat /\ c \in 0..(f - 1) /\ q = f * t + c
  <2> HIDE DEF q
  <2> QED BY <1>1, Divided
<1> HIDE DEF q, r, t, c
<1>3. p * f \in Nat \ {0} /\ c * p \in Nat
  BY <1>2
<1>4. v = (p * f) * t + (c * p + r)
  <2>1. p * q = (p * f) * t + c * p
    BY <1>1, <1>2
  <2> QED BY <1>1, <1>2, <1>3, <2>1
<1>5. c * p + r \in 0..(p * f - 1)
  <2>1. (f - 1) - c \in Nat
    BY <1>2
  <2>2. ((f - 1) - c) * p \in Nat
    BY <2>1
  <2>3. ((f - 1) - c) * p = p * f - p - c * p
    BY <1>2
  <2> QED BY <1>1, <1>2, <1>3, <2>2, <2>3
<1>6. v % (p * f) = c * p + r
  <2>1. p * f \in Nat \ {0} /\ t \in Int /\ c * p + r \in 0..(p * f - 1)
    BY <1>2, <1>3, <1>5
  <2>2. v = (p * f) * t + (c * p + r)
    BY <1>4
  <2> QED BY <2>1, <2>2, RemainderIs, Zenon
<1> QED BY <1>2, <1>6 DEF q, r, c

(* Powers of two divide a word, and multiply as they should. *)
LEMMA PowersAre ==
  ASSUME NEW n \in 0..12
  PROVE  /\ Power(n) \in Nat \ {0} /\ \E m \in Nat : 8192 = Power(n) * m
         /\ n <= 7 => Power(n + 5) = Power(n) * 32
         /\ n <= 4 => Power(n + 8) = Power(n) * 256
<1>1. \/ n = 0 \/ n = 1 \/ n = 2 \/ n = 3 \/ n = 4 \/ n = 5 \/ n = 6
      \/ n = 7 \/ n = 8 \/ n = 9 \/ n = 10 \/ n = 11 \/ n = 12
  OBVIOUS
<1>2. /\ 8192 = 1 * 8192 /\ 8192 = 2 * 4096 /\ 8192 = 4 * 2048 /\ 8192 = 8 * 1024
      /\ 8192 = 16 * 512 /\ 8192 = 32 * 256 /\ 8192 = 64 * 128 /\ 8192 = 128 * 64
      /\ 8192 = 256 * 32 /\ 8192 = 512 * 16 /\ 8192 = 1024 * 8 /\ 8192 = 2048 * 4
      /\ 8192 = 4096 * 2
  OBVIOUS
<1>3. Power(n) \in Nat \ {0}
  BY <1>1, Powers
<1>4. \E m \in Nat : 8192 = Power(n) * m
  BY <1>1, <1>2, Powers
<1>5. n <= 7 => Power(n + 5) = Power(n) * 32
  BY <1>1, Powers
<1>6. n <= 4 => Power(n + 8) = Power(n) * 256
  BY <1>1, Powers
<1> QED BY <1>3, <1>4, <1>5, <1>6

(* Powers are positive. *)
LEMMA PowerPositive == \A n \in 0..12 : Power(n) \in Nat \ {0}
BY PowersAre

(* Five bits more are a factor of 32. *)
LEMMA PowerFive == \A n \in 0..7 : Power(n + 5) = Power(n) * 32
BY PowersAre

(* The powers of two parts of a byte give that of the byte. *)
LEMMA PowerTwice == \A n \in 0..8 : Power(n) * Power(8 - n) = 256
<1> SUFFICES ASSUME NEW n \in 0..8 PROVE Power(n) * Power(8 - n) = 256
  OBVIOUS
<1>1. \/ n = 0 /\ 8 - n = 8
      \/ n = 1 /\ 8 - n = 7
      \/ n = 2 /\ 8 - n = 6
      \/ n = 3 /\ 8 - n = 5
      \/ n = 4 /\ 8 - n = 4
      \/ n = 5 /\ 8 - n = 3
      \/ n = 6 /\ 8 - n = 2
      \/ n = 7 /\ 8 - n = 1
      \/ n = 8 /\ 8 - n = 0
  OBVIOUS
<1> QED BY <1>1, Powers

(* What the encoder holds once it took a byte. *)
LEMMA ByteTaken ==
  ASSUME NEW e \in 0..4, NEW v \in Nat, NEW b \in 0..255
  PROVE  TakesByte(e, v, b)
<1> DEFINE w == ShiftLeft(v, 8)
<1>1. PICK x \in Nat : x = v * 256
  OBVIOUS
<1>2. Word(x) \in Nat /\ \E k \in Nat : x = Word(x) + 8192 * k
  <2>1. Word(x) \in Nat /\ \E i \in Nat : x = Word(x) + 8192 * i
    BY WordIs
  <2> QED BY <2>1
<1>3. w = Word(x)
  BY <1>1, Powers DEF ShiftLeft
<1>4. PICK k \in Nat : w \in Nat /\ v * 256 = w + 8192 * k
  BY <1>1, <1>2, <1>3
<1> HIDE DEF w
<1>5. PICK u \in Nat : u = w + b /\ v * 256 + b = u + 8192 * k
  BY <1>4
<1>6. /\ e \in 0..12 /\ e + 8 \in 0..12 /\ Power(e + 8) = Power(e) * 256
      /\ Power(e) \in Nat \ {0} /\ Power(e + 8) \in Nat \ {0}
  BY PowersAre
<1>7. PICK m \in Nat : 8192 = Power(e + 8) * m
  BY <1>6, PowersAre
<1>8. PICK f \in Nat \ {0} : f = 256 /\ b \in 0..(f - 1)
  OBVIOUS
<1>9. u % Power(e + 8) = (v % Power(e)) * f + b
  <2>1. PICK h \in Nat \ {0} : h = Power(e + 8) /\ h = Power(e) * f /\ 8192 = h * m
    BY <1>6, <1>7, <1>8
  <2>2. v * f + b = u + 8192 * k
    BY <1>5, <1>8
  <2>. QED
    <3>1. Shifted(Power(e), f, h, m, v, b, u, k)
      BY <1>6, <1>8, <2>1, <2>2 DEF Shifted
    <3> QED BY <2>1, <3>1, LowBits
<1> QED BY <1>4, <1>5, <1>8, <1>9 DEF w, TakesByte

(* The last character has the remaining bits at its high end. *)
LEMMA PaddedIs ==
  ASSUME NEW e \in 1..4, NEW v \in Nat
  PROVE  /\ ShiftLeft(v, 5 - e) % 32 = (v % Power(e)) * Power(5 - e)
         /\ ShiftLeft(v, 5 - e) % 32 \in 0..31
<1>1. e \in 0..12 /\ 5 - e \in 0..12 /\ Power(e) \in Nat \ {0} /\ Power(5 - e) \in Nat \ {0}
  BY PowersAre
<1>2. Power(e) * Power(5 - e) = 32
  <2>1. e = 1 \/ e = 2 \/ e = 3 \/ e = 4
    OBVIOUS
  <2> QED BY <2>1, Powers
<1>3. PICK x \in Nat : x = v * Power(5 - e)
  BY <1>1
<1>4. PICK k \in Nat : Word(x) \in Nat /\ x = Word(x) + 8192 * k
  <2>1. Word(x) \in Nat /\ \E i \in Nat : x = Word(x) + 8192 * i
    BY WordIs
  <2> QED BY <2>1
<1>5. PICK w \in Nat : w = ShiftLeft(v, 5 - e) /\ v * Power(5 - e) + 0 = w + 8192 * k
  BY <1>1, <1>3, <1>4 DEF ShiftLeft
<1>6. 8192 = 32 * 256 /\ 32 \in Nat \ {0} /\ 256 \in Nat /\ 0 \in 0..(Power(5 - e) - 1)
  BY <1>1
<1>7. w % 32 = (v % Power(e)) * Power(5 - e) + 0
  <2>1. PICK b \in Nat \ {0} : b = 32 /\ b = Power(e) * Power(5 - e) /\ 8192 = b * 256
    BY <1>2
  <2>2. PICK m \in Nat : m = 256
    OBVIOUS
  <2>. QED
    <3>1. Shifted(Power(e), Power(5 - e), b, m, v, 0, w, k)
      BY <1>1, <1>5, <1>6, <2>1, <2>2 DEF Shifted
    <3> QED BY <2>1, <3>1, LowBits
<1>8. w % 32 \in 0..31 /\ v % Power(e) \in Nat
  BY <1>1
<1> QED BY <1>1, <1>5, <1>7, <1>8

(* What the decoder holds once it read a character. *)
LEMMA CharRead ==
  ASSUME NEW d \in 0..7, NEW v \in Nat, NEW c \in 0..31
  PROVE  LET w == Word(ShiftLeft(v, 5) + c) IN
         w \in Nat /\ w % Power(d + 5) = (v % Power(d)) * 32 + c
<1>1. PICK x \in Nat : x = v * 32
  OBVIOUS
<1>2. PICK k \in Nat : Word(x) \in Nat /\ x = Word(x) + 8192 * k
  <2>1. Word(x) \in Nat /\ \E i \in Nat : x = Word(x) + 8192 * i
    BY WordIs
  <2> QED BY <2>1
<1>3. PICK y \in Nat : y = ShiftLeft(v, 5) + c /\ y + 8192 * k = v * 32 + c
  BY <1>1, <1>2, Powers DEF ShiftLeft
<1>4. PICK j \in Nat : Word(y) \in Nat /\ y = Word(y) + 8192 * j
  <2>1. Word(y) \in Nat /\ \E i \in Nat : y = Word(y) + 8192 * i
    BY WordIs
  <2> QED BY <2>1
<1>5. PICK n \in Nat : n = k + j
  OBVIOUS
<1>6. PICK w \in Nat : w = Word(ShiftLeft(v, 5) + c) /\ v * 32 + c = w + 8192 * n
  BY <1>3, <1>4, <1>5
<1>7. /\ d \in 0..12 /\ d + 5 \in 0..12 /\ Power(d + 5) = Power(d) * 32
      /\ Power(d) \in Nat \ {0} /\ Power(d + 5) \in Nat \ {0}
  BY PowersAre
<1>8. PICK m \in Nat : 8192 = Power(d + 5) * m
  BY <1>7, PowersAre
<1>9. PICK f \in Nat \ {0} : f = 32 /\ c \in 0..(f - 1)
  OBVIOUS
<1>10. w % Power(d + 5) = (v % Power(d)) * f + c
  <2>1. PICK b \in Nat \ {0} : b = Power(d + 5) /\ b = Power(d) * f /\ 8192 = b * m
    BY <1>7, <1>8, <1>9
  <2>2. v * f + c = w + 8192 * n
    BY <1>6, <1>9
  <2>. QED
    <3>1. Shifted(Power(d), f, b, m, v, c, w, n)
      BY <1>7, <1>9, <2>1, <2>2 DEF Shifted
    <3> QED BY <2>1, <3>1, LowBits
<1> QED BY <1>6, <1>9, <1>10

(* What the encoder writes is the upper five of its bits. *)
LEMMA CharWritten ==
  ASSUME NEW e \in 5..12, NEW v \in Nat
  PROVE  LET c == ShiftRight(v, e - 5) % 32 IN
         c \in 0..31 /\ v % Power(e) = c * Power(e - 5) + (v % Power(e - 5))
<1>1. PICK n \in 0..12 : n = e - 5 /\ n <= 7 /\ e = n + 5
  OBVIOUS
<1>2. Power(n) \in Nat \ {0} /\ Power(e) = Power(n) * 32
  BY <1>1, PowersAre
<1>3. 32 \in Nat \ {0}
  OBVIOUS
<1>4. /\ (v \div Power(n)) % 32 \in 0..(32 - 1)
      /\ v % (Power(n) * 32) = ((v \div Power(n)) % 32) * Power(n) + (v % Power(n))
  BY <1>2, <1>3, TwoParts, Zenon
<1> QED BY <1>1, <1>2, <1>4 DEF ShiftRight

(* What the decoder puts out is the upper eight of its bits. *)
LEMMA ByteWritten ==
  ASSUME NEW d \in 3..7, NEW w \in Nat, NEW y, y = w % Power(d + 5)
  PROVE  WritesByte(d, w, y)
<1>1. PICK n \in 0..12 : n = d - 3 /\ n <= 4 /\ d + 5 = n + 8
  OBVIOUS
<1>2. Power(n) \in Nat \ {0} /\ Power(d + 5) = Power(n) * 256
  BY <1>1, PowersAre
<1>3. PICK f \in Nat \ {0} : f = 256
  OBVIOUS
<1>4. PICK p \in Nat \ {0} : p = Power(n)
  BY <1>2
<1>5. /\ (w \div p) % f \in 0..(f - 1)
      /\ w % (p * f) = ((w \div p) % f) * p + (w % p)
  BY TwoParts
<1>6. PICK o \in 0..255 : o = (w \div p) % f
  BY <1>3, <1>5
<1>7. o = ShiftRight(w, d - 3) % 256
  BY <1>1, <1>3, <1>4, <1>6 DEF ShiftRight
<1>8. y = o * Power(d - 3) + (w % Power(d - 3))
  <2>1. w % (p * f) = o * p + (w % p)
    BY <1>5, <1>6
  <2>2. y = w % (p * f) /\ p = Power(d - 3)
    BY <1>1, <1>2, <1>3, <1>4
  <2> QED BY <2>1, <2>2, Zenon
<1> QED BY <1>6, <1>7, <1>8, Zenon DEF WritesByte

(* A list of bytes has a length. *)
LEMMA BytesAre ==
  ASSUME NEW s, Bytes(s)
  PROVE  Len(s) \in Nat
BY DEF Bytes

(* One more byte is put out. *)
LEMMA BytesAppended ==
  ASSUME NEW s, Bytes(s), NEW o \in 0..255, NEW t, t = Append(s, o)
  PROVE  Appended(s, o, t)
<1> PICK S : S = 0..255
  OBVIOUS
<1>1. s \in Seq(S)
  BY DEF Bytes
<1>2. o \in S
  OBVIOUS
<1>3. t \in Seq(S) /\ Len(t) = Len(s) + 1
  BY <1>1, <1>2
<1>4. \A j \in 1..Len(s) : t[j] = s[j]
  BY <1>1, <1>2
<1>5. t[Len(s) + 1] = o
  BY <1>1, <1>2
<1> QED BY <1>3, <1>4, <1>5 DEF Bytes, Appended

(* What a question about a secret is made of. *)
LEMMA Base32Calls ==
  ASSUME Put, Of("base32")
  PROVE  /\ BytesIn(question.calls) /\ question.calls \in Seq(0..255)
         /\ done \in Nat /\ done <= Len(question.calls)
<1>1. question.calls \in Seq(0..255)
  BY Zenon DEF Put, Sensible, Of
<1>2. Listed
  BY DEF Listed, Of
<1>3. done \in Nat /\ done <= Len(question.calls)
  BY <1>2 DEF Put
<1>4. BytesIn(question.calls)
  <2>1. PICK S : S = 0..255
    OBVIOUS
  <2>2. question.calls \in Seq(S)
    BY <1>1, <2>1
  <2>3. Len(question.calls) \in Nat /\ \A i \in 1..Len(question.calls) : question.calls[i] \in S
    BY <2>2
  <2> QED BY <2>1, <2>3 DEF BytesIn
<1> QED BY <1>1, <1>3, <1>4

(* The invariant about base32 holds when it is asked. *)
LEMMA Base32Start == ASSUME Ask PROVE Base32Inv
<1> SUFFICES ASSUME Of("base32") PROVE Base32Inv
  BY DEF Base32Inv
<1>1. answer = [enc |-> Empty, dec |-> [bits |-> 0, value |-> 0, out |-> <<>>]]
  BY Zenon DEF Ask, Begin, Of
<1>2. done = 0
  BY DEF Ask
<1>3. Flowing(question.calls, done, answer.enc, answer.dec)
  <2>1. Power(0) = 1
    BY Powers
  <2> QED BY <1>1, <1>2, <2>1 DEF Flowing, InFlow, Empty, Pending
<1>4. ReadBack(question.calls, done, answer.dec.out)
  <2>1. answer.dec.out = <<>>
    BY <1>1
  <2>2. <<>> \in Seq(0..255) /\ Len(<<>>) = 0
    OBVIOUS
  <2> QED BY <1>2, <2>1, <2>2 DEF ReadBack, Bytes
<1> QED BY <1>1, <1>3, <1>4 DEF Base32Inv

(* A byte that is read flows behind what is pending. *)
LEMMA ByteIn ==
  ASSUME NEW e \in 0..4, NEW v \in Nat, NEW b \in 0..255, NEW x \in Nat, NEW pending,
         InFlow(x, e, v, pending)
  PROVE  FlowsIn(x, e, v, b, pending)
<1>1. PICK p \in Nat \ {0} : p = Power(e) /\ Power(e + 8) = p * 256
  BY PowersAre
<1>2. PICK r \in Nat : r = v % p
  BY <1>1
<1>3. (ShiftLeft(v, 8) + b) % Power(e + 8) = r * 256 + b
  <2>1. TakesByte(e, v, b)
    BY ByteTaken
  <2> QED BY <1>1, <1>2, <2>1 DEF TakesByte
<1>4. pending = x * p + r
  BY <1>1, <1>2 DEF InFlow
<1>5. x * (p * 256) + (r * 256 + b) = (x * p + r) * 256 + b
  OBVIOUS
<1>6. InFlow(x, e + 8, ShiftLeft(v, 8) + b, pending * 256 + b)
  BY <1>1, <1>3, <1>4, <1>5 DEF InFlow
<1> QED BY <1>6 DEF FlowsIn

(* A byte that the encoder takes adds its eight bits to those on the way. *)
LEMMA ByteFlows ==
  ASSUME NEW calls, BytesIn(calls), NEW d \in Nat, d < Len(calls), NEW enc, NEW dec,
         Flowing(calls, d, enc, dec), ReadBack(calls, d, dec.out), enc.bits < 5
  PROVE  /\ Flowing(calls, d + 1, TakeByte(enc, calls[d + 1]), dec)
         /\ ReadBack(calls, d + 1, dec.out)
<1>1. PICK b \in 0..255 : b = calls[d + 1]
  <2>1. d + 1 \in 1..Len(calls)
    BY DEF BytesIn
  <2>2. calls[d + 1] \in 0..255
    BY <2>1 DEF BytesIn
  <2> QED BY <2>2
<1>2. PICK e \in 0..4, v \in Nat : e = enc.bits /\ v = enc.value
  BY DEF Flowing
<1>3. PICK i \in 0..7, x \in Nat, n \in Nat : /\ i = dec.bits /\ x = dec.value % Power(i)
                                              /\ n = Len(dec.out)
  <2>0. Len(dec.out) \in Nat
    BY BytesAre DEF ReadBack
  <2>1. dec.bits \in 0..7 /\ dec.value \in Nat /\ dec.bits \in 0..12 /\ Len(dec.out) \in Nat
    BY <2>0 DEF Flowing
  <2>2. Power(dec.bits) \in Nat \ {0}
    BY <2>1, PowerPositive
  <2>3. dec.value % Power(dec.bits) \in Nat
    BY <2>1, <2>2
  <2> QED BY <2>1, <2>3
<1> DEFINE next == TakeByte(enc, calls[d + 1])
<1>4. next = [bits |-> e + 8, value |-> ShiftLeft(v, 8) + b]
  BY <1>1, <1>2 DEF TakeByte
<1>5. next.bits = e + 8 /\ next.value = ShiftLeft(v, 8) + b /\ next.value \in Nat
  <2>1. TakesByte(e, v, b)
    BY ByteTaken
  <2> QED BY <1>4, <2>1 DEF TakesByte
<1>6. 8 * n + i + e = 8 * d /\ InFlow(x, e, v, Pending(calls, d, n))
  BY <1>2, <1>3 DEF Flowing
<1>7. InFlow(x, e + 8, next.value, Pending(calls, d, n) * 256 + b)
  <2>1. InFlow(x, e + 8, ShiftLeft(v, 8) + b, Pending(calls, d, n) * 256 + b)
    <3>1. PICK p : p = Pending(calls, d, n)
      OBVIOUS
    <3>2. InFlow(x, e, v, p)
      BY <3>1, <1>6
    <3>3. FlowsIn(x, e, v, b, p)
      BY <3>2, ByteIn
    <3> QED BY <3>1, <3>3, Zenon DEF FlowsIn
  <2> QED BY <2>1, <1>5
<1>8. Pending(calls, d + 1, n) = Pending(calls, d, n) * 256 + b
  <2>1. n = d \/ n + 1 = d
    BY <1>6
  <2>2. CASE n = d
    BY <2>2, <1>1 DEF Pending
  <2>3. CASE n + 1 = d
    <3>1. n # d + 1 /\ n + 1 # d + 1 /\ (d + 1) - 1 = d /\ n # d
      BY <2>3
    <3> QED BY <2>3, <3>1, <1>1 DEF Pending
  <2> QED BY <2>1, <2>2, <2>3
<1> HIDE DEF next
<1>9. Flowing(calls, d + 1, next, dec)
  <2>1. next = [bits |-> next.bits, value |-> next.value]
    BY <1>4, <1>5
  <2>2. next.bits \in 0..12 /\ 8 * n + i + next.bits = 8 * (d + 1)
    BY <1>5, <1>6
  <2>3. /\ dec = [bits |-> dec.bits, value |-> dec.value, out |-> dec.out]
        /\ dec.value \in Nat
    BY DEF Flowing
  <2>4. InFlow(dec.value % Power(dec.bits), next.bits, next.value,
               Pending(calls, d + 1, Len(dec.out)))
    BY <1>3, <1>5, <1>7, <1>8
  <2>5. 8 * Len(dec.out) + dec.bits + next.bits = 8 * (d + 1) /\ dec.bits \in 0..7
    BY <1>3, <2>2
  <2> QED BY <1>5, <2>1, <2>2, <2>3, <2>4, <2>5, Zenon DEF Flowing
<1>10. ReadBack(calls, d + 1, dec.out)
  BY DEF ReadBack
<1> QED BY <1>9, <1>10 DEF next

(* A character that is read makes no byte yet, ... *)
LEMMA CharOnly ==
  ASSUME NEW f \in Nat \ {0}, NEW x \in Nat, NEW r \in Nat, NEW c \in 0..31, NEW h \in Nat,
         NEW pending, x * (f * 32) + r = pending, r = c * f + h
  PROVE  (x * 32 + c) * f + h = pending
OBVIOUS

(* The number of the bytes that are pending, and the first of them. *)
LEMMA PendingSplits ==
  ASSUME NEW calls, BytesIn(calls), NEW d \in Nat, d <= Len(calls), NEW n \in Nat,
         n + 1 = d \/ n + 2 = d
  PROVE  /\ calls[n + 1] \in 0..255
         /\ Pending(calls, d, n + 1) \in Nat
         /\ Pending(calls, d, n) = (IF n + 1 = d THEN calls[n + 1]
                                    ELSE calls[n + 1] * 256 + Pending(calls, d, n + 1))
         /\ Pending(calls, d, n + 1) < IF n + 1 = d THEN 1 ELSE 256
<1>1. CASE n + 1 = d
  <2>1. calls[d] \in 0..255
    BY <1>1 DEF BytesIn
  <2> QED BY <1>1, <2>1 DEF Pending
<1>2. CASE n + 2 = d
  <2>1. calls[d] \in 0..255 /\ calls[d - 1] \in 0..255 /\ d - 1 = n + 1
    BY <1>2 DEF BytesIn
  <2>2. n # d /\ n + 1 # d /\ (n + 1) + 1 = d
    BY <1>2
  <2>. QED
    <3>1. Pending(calls, d, n) = calls[n + 1] * 256 + calls[d]
      BY <2>1, <2>2 DEF Pending
    <3>2. Pending(calls, d, n + 1) = calls[d]
      BY <2>2 DEF Pending
    <3>3. n + 1 \in 1..Len(calls)
      BY <1>2 DEF BytesIn
    <3>4. calls[n + 1] \in 0..255
      BY <3>3 DEF BytesIn
    <3>5. PICK k \in 0..255 : k = calls[d]
      BY <2>1
    <3>6. Pending(calls, d, n + 1) = k /\ Pending(calls, d, n) = calls[n + 1] * 256 + k
      BY <3>1, <3>2, <3>5
    <3>7. n + 1 # d
      BY <2>2
    <3>. QED
      <4>1. Pending(calls, d, n + 1) \in Nat /\ Pending(calls, d, n + 1) < 256
        BY <3>6
      <4>2. Pending(calls, d, n) = calls[n + 1] * 256 + Pending(calls, d, n + 1)
        BY <3>6
      <4> QED BY <3>4, <3>7, <4>1, <4>2, Zenon
<1> QED BY <1>1, <1>2

(* The byte that the decoder puts out is the oldest of those on the way. *)
LEMMA ByteOut ==
  ASSUME NEW p, NEW g, NEW o, NEW z, NEW h, NEW a, NEW t, ByteOutputs(p, g, o, z, h, a, t)
  PROVE  o = a /\ z * g + h = t
<1>0. /\ p \in Nat \ {0} /\ g \in Nat \ {0} /\ (p * g = 1 \/ p * g = 256)
      /\ o \in Nat /\ z \in 0..(p - 1) /\ h \in 0..(g - 1)
      /\ a \in Nat /\ t \in 0..(p * g - 1)
      /\ (o * p + z) * g + h = a * (p * g) + t
  BY DEF ByteOutputs
<1>1. PICK b \in Nat \ {0} : b = p * g /\ (b = 1 \/ b = 256)
  BY <1>0
<1>2. PICK s \in Nat : s = z * g + h
  <2>1. z * g \in Nat
    BY <1>0
  <2> QED BY <1>0, <2>1
<1>3. s <= b - 1
  <2>1. (p - 1) - z \in Nat
    BY <1>0
  <2>2. ((p - 1) - z) * g \in Nat
    BY <1>0, <2>1
  <2>3. ((p - 1) - z) * g = p * g - g - z * g
    BY <1>0
  <2> QED BY <1>0, <1>1, <1>2, <2>2, <2>3
<1>4. (o * p + z) * g + h = o * b + s
  BY <1>0, <1>1, <1>2
<1>5. o * b + s = a * b + t /\ t <= b - 1
  BY <1>0, <1>1, <1>4
<1>6. o = a /\ s = t
  BY <1>0, <1>1, <1>3, <1>5
<1> QED BY <1>0, <1>2, <1>6

(* A character moves five bits from the encoder to the decoder. *)
LEMMA CharFlows ==
  ASSUME NEW calls, BytesIn(calls), NEW d \in Nat, d <= Len(calls), NEW enc, NEW dec,
         Flowing(calls, d, enc, dec), ReadBack(calls, d, dec.out), enc.bits >= 5
  PROVE  LET next == TakeChar(dec, CharOf(enc)) IN
         /\ Flowing(calls, d, [enc EXCEPT !.bits = @ - 5], next)
         /\ ReadBack(calls, d, next.out)
<1>1. PICK e \in 5..12, v \in Nat : e = enc.bits /\ v = enc.value
  BY DEF Flowing
<1>2. PICK i \in 0..7, u \in Nat, n \in Nat : i = dec.bits /\ u = dec.value /\ n = Len(dec.out)
  <2>1. Len(dec.out) \in Nat
    BY BytesAre DEF ReadBack
  <2> QED BY <2>1 DEF Flowing
<1>3. 8 * n + i + e = 8 * d /\ InFlow(u % Power(i), e, v, Pending(calls, d, n))
  BY <1>1, <1>2 DEF Flowing
<1>4. PICK g \in Nat \ {0}, p \in Nat \ {0} :
        g = Power(e - 5) /\ Power(e) = g * 32 /\ p = Power(i)
  <2>1. PICK m \in 0..7 : m = e - 5 /\ m \in 0..12 /\ m + 5 = e
    OBVIOUS
  <2>2. Power(m) \in Nat \ {0} /\ Power(m + 5) = Power(m) * 32
    BY <2>1, PowerFive, PowerPositive
  <2>3. i \in 0..12
    OBVIOUS
  <2>4. Power(i) \in Nat \ {0}
    BY <2>3, PowerPositive
  <2> QED BY <2>1, <2>2, <2>4
<1>5. PICK x \in Nat, r \in Nat, h \in 0..(g - 1) :
        x = u % Power(i) /\ r = v % Power(e) /\ h = v % Power(e - 5)
  <2>1. u % p \in Nat /\ v % (g * 32) \in Nat /\ v % g \in 0..(g - 1)
    OBVIOUS
  <2> QED BY <2>1, <1>4
<1>6. PICK c \in 0..31 : c = CharOf(enc) /\ r = c * g + h
  <2>1. CharOf(enc) = ShiftRight(v, e - 5) % 32
    BY <1>1 DEF CharOf
  <2> QED BY <2>1, <1>4, <1>5, CharWritten
<1>7. PICK w \in Nat : w = Word(ShiftLeft(u, 5) + c) /\ w % Power(i + 5) = x * 32 + c
  <2>1. ReadsChar(i, u, c)
    BY CharRead DEF ReadsChar
  <2> QED BY <2>1, <1>5 DEF ReadsChar
<1>8. (x * 32 + c) * g + h = Pending(calls, d, n)
  <2>1. x * (g * 32) + r = Pending(calls, d, n)
    BY <1>3, <1>4, <1>5 DEF InFlow
  <2> QED BY <2>1, <1>6, CharOnly
<1> DEFINE next == TakeChar(dec, CharOf(enc))
           rest == [enc EXCEPT !.bits = @ - 5]
<1>9. next = IF i + 5 < 8 THEN [bits |-> i + 5, value |-> w, out |-> dec.out]
             ELSE [bits |-> (i + 5) - 8, value |-> w,
                   out |-> Append(dec.out, ShiftRight(w, (i + 5) - 8) % 256)]
  BY <1>2, <1>6, <1>7 DEF TakeChar
<1>10. rest = [bits |-> e - 5, value |-> v]
  <2>1. enc = [bits |-> e, value |-> v]
    BY <1>1, Zenon DEF Flowing
  <2> QED BY <2>1
<1> HIDE DEF next, rest
<1>11. rest.bits = e - 5 /\ rest.value = v
  BY <1>10
<1>12. CASE i + 5 < 8
  <2>1. next = [bits |-> i + 5, value |-> w, out |-> dec.out]
    BY <1>9, <1>12
  <2>2. next.bits = i + 5 /\ next.value = w /\ next.out = dec.out
    BY <2>1
  <2>3. InFlow(next.value % Power(next.bits), rest.bits, rest.value,
               Pending(calls, d, Len(next.out)))
    BY <2>2, <1>2, <1>4, <1>5, <1>7, <1>8, <1>11 DEF InFlow
  <2>4. 8 * Len(next.out) + next.bits + rest.bits = 8 * d /\ next.bits \in 0..7
        /\ rest.bits \in 0..12
    <3>1. next.bits \in 0..7 /\ rest.bits \in 0..12
      BY <2>2, <1>11, <1>12
    <3>2. 8 * n + (i + 5) + (e - 5) = 8 * d
      BY <1>3
    <3> QED BY <3>1, <3>2, <2>2, <1>2, <1>11
  <2>5. next = [bits |-> next.bits, value |-> next.value, out |-> next.out]
    BY <2>1, <2>2
  <2>6. rest = [bits |-> rest.bits, value |-> rest.value]
    BY <1>10, <1>11
  <2>7. Flowing(calls, d, rest, next)
    BY <2>2, <2>3, <2>4, <2>5, <2>6, <1>11, Zenon DEF Flowing
  <2> QED BY <2>2, <2>7 DEF next, rest
<1>13. CASE ~ (i + 5 < 8)
  <2>1. i \in 3..7 /\ (i + 5) - 8 = i - 3 /\ (n + 1 = d \/ n + 2 = d)
    BY <1>3, <1>13
  <2>2. PICK o \in 0..255 : /\ o = ShiftRight(w, i - 3) % 256
                            /\ x * 32 + c = o * Power(i - 3) + (w % Power(i - 3))
    <3>1. WritesByte(i, w, x * 32 + c)
      BY <2>1, <1>7, ByteWritten
    <3> QED BY <3>1, Zenon DEF WritesByte
  <2>3. PICK q \in Nat \ {0} : q = Power(i - 3)
    <3>1. i - 3 \in 0..12
      BY <2>1
    <3> QED BY <3>1, PowerPositive
  <2>4. PICK z \in 0..(q - 1) : z = w % Power(i - 3)
    BY <2>3
  <2>5. q * g = IF n + 1 = d THEN 1 ELSE 256
    <3>1. CASE n + 1 = d
      <4>1. i - 3 = 0 /\ e - 5 = 0
        BY <3>1, <2>1, <1>3
      <4>2. q = 1 /\ g = 1
        BY <4>1, <2>3, <1>4, Powers
      <4> QED BY <3>1, <4>2
    <3>2. CASE n + 1 # d
      <4>1. PICK m \in 0..8 : m = i - 3 /\ e - 5 = 8 - m
        BY <3>2, <2>1, <1>3
      <4>2. q = Power(m) /\ g = Power(8 - m)
        BY <4>1, <2>3, <1>4, Zenon
      <4> QED BY <3>2, <4>2, PowerTwice
    <3> QED BY <3>1, <3>2
  <2>6. PICK a \in 0..255, t \in Nat :
          /\ a = calls[n + 1] /\ t = Pending(calls, d, n + 1) /\ t < q * g
          /\ Pending(calls, d, n) = a * (q * g) + t
    <3>1. /\ calls[n + 1] \in 0..255
          /\ Pending(calls, d, n + 1) \in Nat
          /\ Pending(calls, d, n) = (IF n + 1 = d THEN calls[n + 1]
                                     ELSE calls[n + 1] * 256 + Pending(calls, d, n + 1))
          /\ Pending(calls, d, n + 1) < IF n + 1 = d THEN 1 ELSE 256
      BY <2>1, PendingSplits
    <3>2. PICK a \in 0..255, t \in Nat : a = calls[n + 1] /\ t = Pending(calls, d, n + 1)
      BY <3>1
    <3>3. CASE n + 1 = d
      <4>1. q * g = 1 /\ Pending(calls, d, n) = a /\ t < 1 /\ t = 0 /\ a * 1 = a
        BY <3>1, <3>2, <3>3, <2>5
      <4>2. a * (q * g) = a
        BY <4>1
      <4>3. Pending(calls, d, n) = a * (q * g) + t /\ t < q * g
        BY <4>1, <4>2
      <4> QED BY <3>2, <4>3
    <3>4. CASE n + 1 # d
      <4>1. q * g = 256 /\ Pending(calls, d, n) = a * 256 + t /\ t < 256
        BY <3>1, <3>2, <3>4, <2>5
      <4>2. Pending(calls, d, n) = a * (q * g) + t /\ t < q * g
        BY <4>1
      <4> QED BY <3>2, <4>2
    <3> QED BY <3>3, <3>4
  <2>7. o = a /\ z * g + h = t
    <3>1. (o * q + z) * g + h = a * (q * g) + t
      BY <1>8, <2>2, <2>3, <2>4, <2>6
    <3>2. q * g = 1 \/ q * g = 256
      BY <2>5
    <3>3. t \in 0..(q * g - 1) /\ o \in Nat /\ a \in Nat
      <4>1. PICK b \in Nat : b = q * g
        BY <3>2
      <4>2. t < b /\ t \in Nat
        BY <2>6, <4>1
      <4>3. t \in 0..(b - 1)
        BY <4>2
      <4> QED BY <4>1, <4>3
    <3>4. ByteOutputs(q, g, o, z, h, a, t)
      BY <3>1, <3>2, <3>3, <2>3, <2>4 DEF ByteOutputs
    <3> QED BY <3>4, ByteOut
  <2>8. next = [bits |-> i - 3, value |-> w, out |-> Append(dec.out, a)]
    BY <1>9, <1>13, <2>1, <2>2, <2>7
  <2>9. next.bits = i - 3 /\ next.value = w /\ next.out = Append(dec.out, a)
    BY <2>8
  <2>10. Len(next.out) = n + 1 /\ ReadBack(calls, d, next.out)
    <3>1. Bytes(dec.out) /\ \A j \in 1..n : dec.out[j] = calls[j]
      BY <1>2 DEF ReadBack
    <3>2. /\ Bytes(next.out) /\ Len(next.out) = n + 1
          /\ \A j \in 1..n : next.out[j] = dec.out[j]
          /\ next.out[n + 1] = a
      <4>1. /\ Bytes(next.out) /\ Len(next.out) = Len(dec.out) + 1
            /\ \A j \in 1..Len(dec.out) : next.out[j] = dec.out[j]
            /\ next.out[Len(dec.out) + 1] = a
        <5>1. Appended(dec.out, a, next.out)
          BY <3>1, <2>9, BytesAppended
        <5> QED BY <5>1, Zenon DEF Appended
      <4> QED BY <4>1, <1>2
    <3>3. ASSUME NEW j \in 1..(n + 1) PROVE next.out[j] = calls[j]
      <4>1. j \in 1..n \/ j = n + 1
        OBVIOUS
      <4> QED BY <4>1, <3>1, <3>2, <2>6
    <3> QED BY <3>2, <3>3, <2>1 DEF ReadBack
  <2>11. InFlow(next.value % Power(next.bits), rest.bits, rest.value,
                Pending(calls, d, Len(next.out)))
    BY <2>4, <2>6, <2>7, <2>9, <2>10, <1>4, <1>5, <1>11 DEF InFlow
  <2>12. 8 * Len(next.out) + next.bits + rest.bits = 8 * d /\ next.bits \in 0..7
         /\ rest.bits \in 0..12
    <3>1. /\ Len(next.out) = n + 1 /\ next.bits = i - 3 /\ rest.bits = e - 5
          /\ 8 * n + i + e = 8 * d
      BY <2>9, <2>10, <1>3, <1>11
    <3> QED BY <3>1, <2>1
  <2>13. next = [bits |-> next.bits, value |-> next.value, out |-> next.out]
    BY <2>8, <2>9
  <2>14. rest = [bits |-> rest.bits, value |-> rest.value]
    BY <1>10, <1>11
  <2>15. Flowing(calls, d, rest, next)
    BY <2>9, <2>11, <2>12, <2>13, <2>14, <1>11, Zenon DEF Flowing
  <2> QED BY <2>10, <2>15 DEF next, rest
<1> QED BY <1>12, <1>13

(* The five bits of a character, of which e are in use. *)
LEMMA FiveBits == ASSUME NEW e \in 1..4 PROVE Power(e) * Power(5 - e) = 32
<1>1. \/ e = 1 /\ 5 - e = 4
      \/ e = 2 /\ 5 - e = 3
      \/ e = 3 /\ 5 - e = 2
      \/ e = 4 /\ 5 - e = 1
  OBVIOUS
<1> QED BY <1>1, Powers

(* The last character, of fewer than five bits, completes the last byte. *)
LEMMA LastCharFlows ==
  ASSUME NEW calls, BytesIn(calls), NEW d \in Nat, d <= Len(calls), NEW enc, NEW dec,
         Flowing(calls, d, enc, dec), ReadBack(calls, d, dec.out), enc.bits \in 1..4
  PROVE  LET next == TakeChar(dec, Padded(enc)) IN
         ReadBack(calls, d, next.out) /\ Len(next.out) = d
<1>1. PICK e \in 1..4, v \in Nat : e = enc.bits /\ v = enc.value
  BY DEF Flowing
<1>2. PICK i \in 0..7, u \in Nat, n \in Nat : i = dec.bits /\ u = dec.value /\ n = Len(dec.out)
  <2>1. Len(dec.out) \in Nat
    BY BytesAre DEF ReadBack
  <2> QED BY <2>1 DEF Flowing
<1>3. 8 * n + i + e = 8 * d /\ InFlow(u % Power(i), e, v, Pending(calls, d, n))
  BY <1>1, <1>2 DEF Flowing
<1>4. i = 8 - e /\ n + 1 = d /\ i - 3 = 5 - e /\ i \in 3..7
  BY <1>3
<1>5. PICK a \in 0..255 : a = calls[n + 1] /\ Pending(calls, d, n) = a
  <2>1. n + 1 \in 1..Len(calls)
    BY <1>4 DEF BytesIn
  <2>2. calls[n + 1] \in 0..255
    BY <2>1 DEF BytesIn
  <2>3. Pending(calls, d, n) = calls[n + 1]
    BY <1>4 DEF Pending
  <2> QED BY <2>2, <2>3
<1>6. PICK p \in Nat \ {0}, q \in Nat \ {0} : p = Power(e) /\ q = Power(5 - e) /\ p * q = 32
  <2>1. e \in 0..12 /\ 5 - e \in 0..12
    OBVIOUS
  <2>2. Power(e) * Power(5 - e) = 32
    BY FiveBits
  <2> QED BY <2>1, <2>2, PowerPositive
<1>7. PICK r \in Nat, x \in Nat : r = v % Power(e) /\ x = u % Power(i) /\ x * p + r = a
  <2>1. i \in 0..12
    OBVIOUS
  <2>2. PICK h \in Nat \ {0} : h = Power(i)
    BY <2>1, PowerPositive
  <2>3. v % p \in Nat /\ u % h \in Nat
    OBVIOUS
  <2> QED BY <2>2, <2>3, <1>3, <1>5, <1>6 DEF InFlow
<1>8. PICK c \in 0..31 : c = Padded(enc) /\ c = r * q
  <2>1. Padded(enc) = ShiftLeft(v, 5 - e) % 32
    BY <1>1 DEF Padded
  <2>2. /\ ShiftLeft(v, 5 - e) % 32 = (v % Power(e)) * Power(5 - e)
        /\ ShiftLeft(v, 5 - e) % 32 \in 0..31
    BY PaddedIs
  <2> QED BY <2>1, <2>2, <1>6, <1>7
<1>9. PICK w \in Nat : w = Word(ShiftLeft(u, 5) + c) /\ w % Power(i + 5) = x * 32 + c
  <2>1. ReadsChar(i, u, c)
    BY CharRead DEF ReadsChar
  <2> QED BY <2>1, <1>7 DEF ReadsChar
<1>10. PICK o \in 0..255 : /\ o = ShiftRight(w, i - 3) % 256
                           /\ x * 32 + c = o * Power(i - 3) + (w % Power(i - 3))
  <2>1. WritesByte(i, w, x * 32 + c)
    BY <1>4, <1>9, ByteWritten
  <2> QED BY <2>1, Zenon DEF WritesByte
<1>11. PICK z \in 0..(q - 1) : z = w % Power(i - 3)
  BY <1>4, <1>6
<1>12. x * 32 + c = o * q + z
  <2>1. Power(i - 3) = q
    BY <1>4, <1>6
  <2> QED BY <2>1, <1>10, <1>11, Zenon
<1>13. x * 32 + c = a * q
  <2>1. x * 32 = (x * p) * q
    <3>1. x * (p * q) = (x * p) * q
      OBVIOUS
    <3> QED BY <3>1, <1>6
  <2>2. (x * p) * q + r * q = (x * p + r) * q
    OBVIOUS
  <2> QED BY <2>1, <2>2, <1>7, <1>8
<1>14. o = a
  <2>1. PICK y \in Nat : y = o * q + z /\ y = a * q
    BY <1>12, <1>13
  <2>2. PICK t \in 0..(q - 1) : t = 0
    OBVIOUS
  <2>3. y = q * o + z /\ y = q * a + t
    BY <2>1, <2>2
  <2>4. y \div q = o
    BY <2>3
  <2>5. y \div q = a
    <3>1. a \in Nat /\ y = q * a + t
      BY <2>3
    <3> QED BY <3>1, QuotientIs
  <2> QED BY <2>4, <2>5
<1> DEFINE next == TakeChar(dec, Padded(enc))
<1>15. next.out = Append(dec.out, a)
  <2>1. next = IF i + 5 < 8 THEN [bits |-> i + 5, value |-> w, out |-> dec.out]
               ELSE [bits |-> (i + 5) - 8, value |-> w,
                     out |-> Append(dec.out, ShiftRight(w, (i + 5) - 8) % 256)]
    BY <1>2, <1>8, <1>9 DEF TakeChar
  <2>2. ~ (i + 5 < 8) /\ (i + 5) - 8 = i - 3
    BY <1>4
  <2> HIDE DEF next
  <2>3. next = [bits |-> i - 3, value |-> w, out |-> Append(dec.out, a)]
    BY <2>1, <2>2, <1>10, <1>14
  <2> QED BY <2>3
<1> HIDE DEF next
<1>16. Bytes(dec.out) /\ \A j \in 1..n : dec.out[j] = calls[j]
  BY <1>2 DEF ReadBack
<1>17. /\ Bytes(next.out) /\ Len(next.out) = n + 1
       /\ \A j \in 1..n : next.out[j] = dec.out[j]
       /\ next.out[n + 1] = a
  <2>1. Appended(dec.out, a, next.out)
    BY <1>15, <1>16, BytesAppended
  <2> QED BY <2>1, <1>2 DEF Appended
<1>18. ASSUME NEW j \in 1..(n + 1) PROVE next.out[j] = calls[j]
  <2>1. j \in 1..n \/ j = n + 1
    OBVIOUS
  <2> QED BY <2>1, <1>5, <1>16, <1>17
<1>19. ReadBack(calls, d, next.out) /\ Len(next.out) = d
  BY <1>4, <1>17, <1>18 DEF ReadBack
<1> QED BY <1>19 DEF next

(* Each step keeps the invariant about base32. *)
LEMMA Base32Step == ASSUME Put, Base32Inv, Compute PROVE Base32Inv'
<1> SUFFICES ASSUME Of("base32") PROVE Base32Inv'
  BY Counts DEF Base32Inv, Of, Put
<1>1. question' = question /\ BytesIn(question.calls) /\ done \in Nat /\ done <= Len(question.calls)
  BY Counts, Base32Calls
<1>2. /\ DOMAIN answer = {"enc", "dec"}
      /\ ReadBack(question.calls, done, answer.dec.out)
      /\ \/ Flowing(question.calls, done, answer.enc, answer.dec)
         \/ /\ done = Len(question.calls) /\ answer.enc.bits = 0
            /\ Len(answer.dec.out) = done
  BY DEF Base32Inv
<1>3. CASE EncodeByte
  <2>1. /\ done < Len(question.calls) /\ done' = done + 1 /\ answer.enc.bits < 5
        /\ answer' = [answer EXCEPT !.enc = TakeByte(answer.enc, question.calls[done + 1])]
    BY <1>3 DEF EncodeByte, Takes, Upcoming
  <2>2. answer'.enc = TakeByte(answer.enc, question.calls[done + 1]) /\ answer'.dec = answer.dec
        /\ DOMAIN answer' = {"enc", "dec"}
    BY <2>1, <1>2
  <2>3. Flowing(question.calls, done, answer.enc, answer.dec)
    BY <1>1, <1>2, <2>1
  <2>4. /\ Flowing(question.calls, done + 1, answer'.enc, answer'.dec)
        /\ ReadBack(question.calls, done + 1, answer'.dec.out)
    BY <1>1, <1>2, <2>1, <2>2, <2>3, ByteFlows
  <2> QED BY <1>1, <2>1, <2>2, <2>4 DEF Base32Inv
<1>4. CASE PassChar
  <2>1. /\ done' = done /\ answer.enc.bits >= 5
        /\ answer' = [enc |-> [answer.enc EXCEPT !.bits = @ - 5],
                      dec |-> TakeChar(answer.dec, CharOf(answer.enc))]
    BY <1>4 DEF PassChar
  <2>2. /\ answer'.enc = [answer.enc EXCEPT !.bits = @ - 5]
        /\ answer'.dec = TakeChar(answer.dec, CharOf(answer.enc))
        /\ DOMAIN answer' = {"enc", "dec"}
    BY <2>1
  <2>3. Flowing(question.calls, done, answer.enc, answer.dec)
    BY <1>2, <2>1
  <2>4. /\ Flowing(question.calls, done, answer'.enc, answer'.dec)
        /\ ReadBack(question.calls, done, answer'.dec.out)
    BY <1>1, <1>2, <2>1, <2>2, <2>3, CharFlows
  <2> QED BY <1>1, <2>1, <2>2, <2>4 DEF Base32Inv
<1>5. CASE PassLastChar
  <2>1. /\ done' = done /\ done = Len(question.calls) /\ answer.enc.bits \in 1..4
        /\ answer' = [enc |-> [answer.enc EXCEPT !.bits = 0],
                      dec |-> TakeChar(answer.dec, Padded(answer.enc))]
    BY <1>5 DEF PassLastChar
  <2>2. Flowing(question.calls, done, answer.enc, answer.dec)
    BY <1>2, <2>1
  <2>3. /\ answer'.enc.bits = 0
        /\ answer'.dec = TakeChar(answer.dec, Padded(answer.enc))
        /\ DOMAIN answer' = {"enc", "dec"}
    <3>1. answer.enc = [bits |-> answer.enc.bits, value |-> answer.enc.value]
      BY <2>2 DEF Flowing
    <3>2. [answer.enc EXCEPT !.bits = 0].bits = 0
      BY <3>1
    <3> QED BY <2>1, <3>2
  <2>4. ReadBack(question.calls, done, answer'.dec.out) /\ Len(answer'.dec.out) = done
    BY <1>1, <1>2, <2>1, <2>2, <2>3, LastCharFlows
  <2> QED BY <1>1, <2>1, <2>3, <2>4 DEF Base32Inv
<1> QED BY <1>3, <1>4, <1>5, ActionOf

(* As many whole bytes went out as came in. *)
LEMMA EightTimes ==
  ASSUME NEW n \in Nat, NEW d \in Nat, NEW i \in 0..7, 8 * n + i = 8 * d
  PROVE  n = d
OBVIOUS

(* The decoder has read back what was encoded so far, in the end all of it. *)
LEMMA Base32End ==
  ASSUME Put, Base32Inv, Of("base32")
  PROVE  /\ IsPrefix(answer.dec.out, question.calls)
         /\ done = Len(question.calls) /\ answer.enc.bits = 0 => answer.dec.out = question.calls
<1> DEFINE out == answer.dec.out
           calls == question.calls
<1>1. PICK S : S = 0..255
  OBVIOUS
<1>2. calls \in Seq(S) /\ out \in Seq(S) /\ done \in Nat /\ done <= Len(calls)
  BY <1>1, Base32Calls DEF Base32Inv, ReadBack, Bytes
<1>3. Len(out) <= done /\ \A i \in 1..Len(out) : out[i] = calls[i]
  BY DEF Base32Inv, ReadBack
<1>4. done = Len(calls) /\ answer.enc.bits = 0 => Len(out) = Len(calls)
  <2> SUFFICES ASSUME done = Len(calls), answer.enc.bits = 0,
                      Flowing(calls, done, answer.enc, answer.dec)
               PROVE  Len(out) = Len(calls)
    BY DEF Base32Inv
  <2>1. 8 * Len(out) + answer.dec.bits + 0 = 8 * done /\ answer.dec.bits \in 0..7
    BY DEF Flowing
  <2>2. Len(out) \in Nat /\ Len(out) <= done /\ done \in Nat
    BY <1>2, <1>3
  <2>3. Len(out) = done
    <3>1. PICK n \in Nat, d \in Nat, i \in 0..7 :
            n = Len(out) /\ i = answer.dec.bits /\ d = done
      BY <2>1, <2>2
    <3>2. 8 * n + i = 8 * d
      BY <2>1, <3>1
    <3> QED BY <3>1, <3>2, EightTimes
  <2> QED BY <2>3
<1> HIDE DEF out, calls
<1>5. IsPrefix(out, calls)
  BY <1>2, <1>3 DEF IsPrefix
<1>6. Len(out) = Len(calls) => out = calls
  BY <1>2, <1>3
<1> QED BY <1>4, <1>5, <1>6 DEF out, calls

-----------------------------------------------------------------------------
(* Mails, log records and uploads *)

(* The empty sequence. *)
LEMMA EmptyIsSeq == IsSeq(<<>>) /\ Len(<<>>) = 0
BY DEF IsSeq

(* Append makes a sequence longer by its element. *)
LEMMA Appending ==
  ASSUME NEW s, IsSeq(s), NEW e, NEW t, t = Append(s, e)
  PROVE  Longer(s, e, t)
<1>1. PICK T : s \in Seq(T)
  BY DEF IsSeq
<1>2. t \in Seq(T \cup {e}) /\ Len(s) \in Nat /\ Len(t) = Len(s) + 1
  <2>1. s \in Seq(T \cup {e})
    BY <1>1
  <2> QED BY <2>1
<1>3. t[Len(s) + 1] = e /\ \A k \in 1..Len(s) : t[k] = s[k]
  BY <1>1
<1>4. IsSeq(t)
  BY <1>2 DEF IsSeq
<1> QED BY <1>2, <1>3, <1>4 DEF Longer

(* Nothing was filtered yet. *)
LEMMA FilteredNone == ASSUME NEW f PROVE Filtered(<<>>, {}, f)
BY EmptyIsSeq, FS_EmptySet DEF Filtered

(* Elements that are equal may be exchanged. *)
LEMMA FilteredKept ==
  ASSUME NEW s, NEW S, NEW f, NEW g, Filtered(s, S, f), \A i \in S : g[i] = f[i]
  PROVE  Filtered(s, S, g)
BY DEF Filtered

(* One more element, of the next call. *)
LEMMA FilteredAdds ==
  ASSUME NEW n \in Nat, NEW S \in SUBSET (1..n), NEW s, NEW f, NEW g, Filtered(s, S, f),
         \A i \in S : g[i] = f[i], NEW e, e = g[n + 1]
  PROVE  Filtered(Append(s, e), S \cup {n + 1}, g)
<1>1. PICK t : t = Append(s, e)
  OBVIOUS
<1>2. PICK c \in Nat : c = Cardinality(S)
  BY RankOfLast
<1>3. /\ IsSeq(s) /\ Len(s) = c /\ \A i \in S : s[Rank(i, S)] = f[i]
  BY <1>2 DEF Filtered
<1>4. /\ IsSeq(t) /\ Len(t) = c + 1 /\ t[c + 1] = e /\ \A k \in 1..c : t[k] = s[k]
  <2>1. Longer(s, e, t)
    BY <1>1, <1>3, Appending
  <2> QED BY <2>1, <1>3 DEF Longer
<1>5. Len(t) = Cardinality(S \cup {n + 1})
  BY <1>2, <1>4, RankOfLast
<1>6. ASSUME NEW i \in S \cup {n + 1} PROVE t[Rank(i, S \cup {n + 1})] = g[i]
  <2>1. CASE i = n + 1
    <3>1. Rank(n + 1, S \cup {n + 1}) = c + 1
      BY <1>2, RankOfLast
    <3> QED BY <2>1, <3>1, <1>4
  <2>2. CASE i \in S
    <3>1. Rank(i, S \cup {n + 1}) = Rank(i, S) /\ Rank(i, S) \in 1..c
      BY <2>2, <1>2, RankOfLast
    <3> QED BY <2>2, <3>1, <1>3, <1>4
  <2> QED BY <2>1, <2>2
<1> QED BY <1>1, <1>4, <1>5, <1>6 DEF Filtered

(* The invariant about mails holds when it is asked. *)
LEMMA MailsStart == ASSUME Ask PROVE MailsInv
<1> SUFFICES ASSUME Of("mails") PROVE MailsInv
  BY DEF MailsInv
<1>1. answer = <<>>
  BY Zenon DEF Ask, Begin, Of
<1>2. DueMails(question, done) = {}
  BY DEF Ask, DueMails
<1> QED BY <1>1, <1>2, FilteredNone DEF MailsInv

(* A mail is sent if it is due. *)
LEMMA OneMoreMail ==
  ASSUME NEW q, NEW d \in Nat, NEW s,
         Filtered(s, DueMails(q, d), [i \in 1..d |-> SentMail(q, q.calls[i])])
  PROVE  Filtered(SendMail(s, q.calls[d + 1], q.from).sent, DueMails(q, d + 1),
                  [i \in 1..(d + 1) |-> SentMail(q, q.calls[i])])
<1> DEFINE m == q.calls[d + 1]
           f == [i \in 1..d |-> SentMail(q, q.calls[i])]
           g == [i \in 1..(d + 1) |-> SentMail(q, q.calls[i])]
           S == DueMails(q, d)
           t == SendMail(s, m, q.from).sent
<1>1. S \in SUBSET (1..d) /\ \A i \in S : g[i] = f[i]
  BY DEF DueMails
<1>2. CASE Complete(q, m)
  <2>1. t = Append(s, SentMail(q, m))
    BY <1>2 DEF Complete, SendMail, SentMail, Recipients
  <2>2. DueMails(q, d + 1) = S \cup {d + 1}
    BY <1>2 DEF DueMails
  <2>3. g[d + 1] = SentMail(q, m)
    OBVIOUS
  <2> HIDE DEF f, g, S, t, m
  <2>4. PICK e : e = SentMail(q, m)
    OBVIOUS
  <2>5. Filtered(Append(s, e), S \cup {d + 1}, g)
    BY <1>1, <2>3, <2>4, FilteredAdds DEF f, S
  <2>6. Filtered(t, DueMails(q, d + 1), g)
    BY <2>1, <2>2, <2>4, <2>5
  <2> QED BY <2>6 DEF g, t, m
<1>3. CASE ~ Complete(q, m)
  <2>1. t = s
    BY <1>3 DEF Complete, SendMail, Recipients
  <2>2. DueMails(q, d + 1) = S
    BY <1>3 DEF DueMails
  <2> HIDE DEF f, g, S, t, m
  <2>3. Filtered(s, S, g)
    BY <1>1, FilteredKept DEF f, S
  <2> QED BY <2>1, <2>2, <2>3 DEF g, t, m
<1> QED BY <1>2, <1>3

(* Each step keeps the invariant about mails. *)
LEMMA MailsStep == ASSUME Put, MailsInv, Compute PROVE MailsInv'
<1> SUFFICES ASSUME Of("mails") PROVE MailsInv'
  BY Counts DEF MailsInv, Of, Put
<1>1. /\ question' = question /\ done' = done + 1 /\ done \in Nat
      /\ answer' = SendMail(answer, question.calls[done + 1], question.from).sent
  BY ActionOf DEF Send, Takes, Upcoming, Put
<1>2. Filtered(answer, DueMails(question, done),
               [i \in 1..done |-> SentMail(question, question.calls[i])])
  BY DEF MailsInv
<1>3. Filtered(answer', DueMails(question, done + 1),
               [i \in 1..(done + 1) |-> SentMail(question, question.calls[i])])
  BY <1>1, <1>2, OneMoreMail
<1> QED BY <1>1, <1>3 DEF MailsInv

(* Exactly the mails that are due were sent, in order. *)
LEMMA MailsEnd == ASSUME Put, MailsInv PROVE MailsSent
<1> SUFFICES ASSUME Of("mails") PROVE MailsSent
  BY DEF MailsSent
<1> DEFINE sender(m) == IF m.from = None THEN question.from ELSE m.from
           complete(m) == /\ m.to \notin {None, <<>>} /\ sender(m) \notin {None, ""}
                          /\ m.subject # "" /\ (m.text \/ m.html)
           due == {i \in Taken : complete(Call(i))}
<1>1. due = DueMails(question, done)
  BY DEF DueMails, Complete, MailFrom, Defined, Taken, Call
<1>2. \A i \in due : /\ SentMail(question, Call(i)).to = Call(i).to
                     /\ SentMail(question, Call(i)).from = sender(Call(i))
  BY DEF SentMail, Recipients, MailFrom, Defined
<1>3. Filtered(answer, due, [i \in 1..done |-> SentMail(question, question.calls[i])])
  BY <1>1 DEF MailsInv
<1>4. Len(answer) = Cardinality(due)
  BY <1>3 DEF Filtered
<1>5. \A i \in due : answer[Rank(i, due)] = SentMail(question, Call(i))
  BY <1>3 DEF Filtered, Taken, Call
<1> QED BY <1>2, <1>4, <1>5 DEF MailsSent

(* The invariant about log records holds when it is asked. *)
LEMMA RecordsStart == ASSUME Ask PROVE RecordsInv
<1> SUFFICES ASSUME Of("records") PROVE RecordsInv
  BY DEF RecordsInv
<1>1. answer = <<>>
  BY Zenon DEF Ask, Begin, Of
<1>2. Loud(question, done) = {}
  BY DEF Ask, Loud
<1> QED BY <1>1, <1>2, FilteredNone DEF RecordsInv

(* Levels are numbers. *)
LEMMA LevelsAre ==
  ASSUME NEW level \in DOMAIN Levels
  PROVE  Levels[level] \in Nat
BY DEF Levels

(* A record is written if it is loud enough. *)
LEMMA OneMoreRecord ==
  ASSUME NEW q, NEW d \in Nat, NEW s, q.calls[d + 1] \in DOMAIN Levels,
         Filtered(s, Loud(q, d), [i \in 1..d |-> Record(q, q.calls[i])])
  PROVE  Filtered(WriteLog(s, q.calls[d + 1], EnvLevel(q.min), q.id), Loud(q, d + 1),
                  [i \in 1..(d + 1) |-> Record(q, q.calls[i])])
<1> DEFINE m == q.calls[d + 1]
           f == [i \in 1..d |-> Record(q, q.calls[i])]
           g == [i \in 1..(d + 1) |-> Record(q, q.calls[i])]
           S == Loud(q, d)
           t == WriteLog(s, m, EnvLevel(q.min), q.id)
<1>1. S \in SUBSET (1..d) /\ \A i \in S : g[i] = f[i]
  BY DEF Loud
<1>2. Levels[m] \in Nat /\ \A x \in DOMAIN Levels : Levels[x] \in Nat
  BY LevelsAre
<1>3. CASE Heard(m, EnvLevel(q.min))
  <2>1. t = Append(s, Record(q, m))
    BY <1>2, <1>3 DEF WriteLog, Record, Quieter, Heard
  <2>2. Loud(q, d + 1) = S \cup {d + 1}
    BY <1>3 DEF Loud
  <2>3. g[d + 1] = Record(q, m)
    OBVIOUS
  <2> HIDE DEF f, g, S, t, m
  <2>4. PICK e : e = Record(q, m)
    OBVIOUS
  <2>5. Filtered(Append(s, e), S \cup {d + 1}, g)
    BY <1>1, <2>3, <2>4, FilteredAdds DEF f, S
  <2>6. Filtered(t, Loud(q, d + 1), g)
    BY <2>1, <2>2, <2>4, <2>5
  <2> QED BY <2>6 DEF g, t, m
<1>4. CASE ~ Heard(m, EnvLevel(q.min))
  <2>1. t = s
    BY <1>2, <1>4 DEF WriteLog, Quieter, Heard
  <2>2. Loud(q, d + 1) = S
    BY <1>4 DEF Loud
  <2> HIDE DEF f, g, S, t, m
  <2>3. Filtered(s, S, g)
    BY <1>1, FilteredKept DEF f, S
  <2> QED BY <2>1, <2>2, <2>3 DEF g, t, m
<1> QED BY <1>3, <1>4

(* Each step keeps the invariant about log records. *)
LEMMA RecordsStep == ASSUME Put, RecordsInv, Compute PROVE RecordsInv'
<1> SUFFICES ASSUME Of("records") PROVE RecordsInv'
  BY Counts DEF RecordsInv, Of, Put
<1>1. /\ question' = question /\ done' = done + 1 /\ done \in Nat
      /\ done < Len(question.calls)
      /\ answer' = WriteLog(answer, question.calls[done + 1], EnvLevel(question.min), question.id)
  BY ActionOf DEF Write, Takes, Upcoming, Put
<1>2. question.calls[done + 1] \in DOMAIN Levels
  <2>1. question.calls \in Seq(DOMAIN Levels)
    BY Zenon DEF Put, Sensible, Of
  <2> PICK S : S = DOMAIN Levels
    OBVIOUS
  <2> QED BY <2>1, <1>1
<1>3. Filtered(answer, Loud(question, done),
               [i \in 1..done |-> Record(question, question.calls[i])])
  BY DEF RecordsInv
<1>4. Filtered(answer', Loud(question, done + 1),
               [i \in 1..(done + 1) |-> Record(question, question.calls[i])])
  BY <1>1, <1>2, <1>3, OneMoreRecord
<1> QED BY <1>1, <1>4 DEF RecordsInv

(* Exactly the records of the level or above were written, in order. *)
LEMMA RecordsEnd == ASSUME Put, RecordsInv PROVE RecordsWritten
<1> SUFFICES ASSUME Of("records") PROVE RecordsWritten
  BY DEF RecordsWritten
<1> DEFINE min == EnvLevel(question.min)
           loud == {i \in Taken : min \in DOMAIN Levels => Levels[Call(i)] >= Levels[min]}
<1>1. loud = Loud(question, done)
  BY DEF Loud, Heard, Taken, Call
<1>2. Filtered(answer, loud, [i \in 1..done |-> Record(question, question.calls[i])])
  BY <1>1 DEF RecordsInv
<1>3. Len(answer) = Cardinality(loud)
  BY <1>2 DEF Filtered
<1>4. \A i \in loud : answer[Rank(i, loud)] = [level |-> Call(i), requestId |-> question.id]
  BY <1>2 DEF Filtered, Record, Taken, Call
<1> QED BY <1>3, <1>4 DEF RecordsWritten

(* What a question about an upload is made of. *)
LEMMA UploadCalls ==
  ASSUME Put, Of("upload")
  PROVE  FileCalls(question) /\ done \in Nat /\ DOMAIN question.calls = 1..Len(question.calls)
<1> DEFINE Parts == [kind : {"field"}]
                     \cup [kind : {"file"}, name : STRING, size : Nat, type : Seq(STRING)]
<1>1. /\ question.calls \in Seq(Parts)
      /\ {question.options.maxFiles, question.options.maxTotalSize, question.options.maxFileSize}
           \subseteq Nat \cup {None}
  BY Zenon DEF Put, Sensible, Of
<1>2. \A p \in Parts : p.kind \in {"field", "file"} /\ (p.kind = "file" => p.size \in Nat)
  OBVIOUS
<1> HIDE DEF Parts
<1>3. \A i \in DOMAIN question.calls : question.calls[i] \in Parts
  BY <1>1
<1>4. FileCalls(question)
  BY <1>1, <1>2, <1>3 DEF FileCalls
<1>5. Listed
  BY DEF Listed, Of
<1> QED BY <1>4, <1>5, ListedCalls DEF Put

(* The files of an upload are finitely many, and so are their bytes. *)
LEMMA FilesFinite ==
  ASSUME NEW q, NEW d \in Nat, \A i \in FilesOf(q, d) : q.calls[i].size \in Nat
  PROVE  /\ FilesOf(q, d) \in SUBSET (1..d) /\ IsFiniteSet(FilesOf(q, d))
         /\ Cardinality(FilesOf(q, d)) \in Nat /\ Total(Sizes(q, d), FilesOf(q, d)) \in Nat
<1>1. FilesOf(q, d) \in SUBSET (1..d)
  BY DEF FilesOf
<1>2. IsFiniteSet(FilesOf(q, d)) /\ Cardinality(FilesOf(q, d)) \in Nat
  BY <1>1, RankOfLast
<1>3. \A i \in FilesOf(q, d) : Sizes(q, d)[i] \in Nat
  BY DEF Sizes
<1>4. IsFiniteSet(UNION {{i} \X (1..Sizes(q, d)[i]) : i \in FilesOf(q, d)})
  BY <1>2, <1>3, UnitsFinite
<1>5. Total(Sizes(q, d), FilesOf(q, d)) \in Nat
  BY <1>4, FS_CardinalityType DEF Total
<1> QED BY <1>1, <1>2, <1>5

(* The invariant about uploads holds when it is asked. *)
LEMMA UploadStart == ASSUME Ask PROVE UploadInv
<1> SUFFICES ASSUME Of("upload"), Put PROVE UploadInv
  <2>1. Put
    BY QuestionsAssumption, CallsAre DEF Ask, Put
  <2> QED BY <2>1 DEF UploadInv
<1>1. answer = [count |-> 0, total |-> 0, files |-> <<>>, status |-> 200]
  BY Zenon DEF Ask, Begin, Of, ParseStart
<1>2. FilesOf(question, done) = {}
  BY DEF Ask, FilesOf
<1>3. Cardinality({}) = 0 /\ Total(Sizes(question, done), {}) = 0
  BY FS_EmptySet, TotalEmpty
<1>4. Filtered(<<>>, {}, [i \in 1..done |-> question.calls[i]])
  BY FilteredNone
<1>5. FileCalls(question)
  BY UploadCalls
<1>6. LimitsKept(question, done)
  <2>1. Fits4(question.options, 0, 0)
    BY <1>5 DEF FileCalls, Fits4, Defined
  <2> QED BY <1>2, <1>3, <2>1 DEF LimitsKept
<1> QED BY <1>1, <1>2, <1>3, <1>4, <1>6 DEF UploadInv, Parsed

(* A field does not count against the limits of files. *)
LEMMA FieldRead ==
  ASSUME NEW q, FileCalls(q), NEW d \in Nat, d + 1 \in DOMAIN q.calls, NEW a, Parsed(q, d, a),
         q.calls[d + 1].kind = "field"
  PROVE  Parsed(q, d + 1, a)
<1>1. FilesOf(q, d + 1) = FilesOf(q, d) /\ FilesOf(q, d) \subseteq 1..d
  BY DEF FilesOf
<1>2. Sizes(q, d + 1) = Sizes(q, d) /\ (LimitsKept(q, d + 1) <=> LimitsKept(q, d))
  BY <1>1 DEF Sizes, LimitsKept
<1>3. \A i \in FilesOf(q, d) : [k \in 1..(d + 1) |-> q.calls[k]][i] = [k \in 1..d |-> q.calls[k]][i]
  BY <1>1
<1>4. a.status = 200 => Filtered(a.files, FilesOf(q, d), [k \in 1..(d + 1) |-> q.calls[k]])
  <2> DEFINE f == [k \in 1..d |-> q.calls[k]]
             g == [k \in 1..(d + 1) |-> q.calls[k]]
  <2>1. \A i \in FilesOf(q, d) : g[i] = f[i]
    BY <1>3
  <2>2. a.status = 200 => Filtered(a.files, FilesOf(q, d), f)
    BY DEF Parsed
  <2> HIDE DEF f, g
  <2>3. a.status = 200 => Filtered(a.files, FilesOf(q, d), g)
    BY <2>1, <2>2, FilteredKept
  <2> QED BY <2>3 DEF g
<1> QED BY <1>1, <1>2, <1>4 DEF Parsed

(* What one more file makes of the limits. *)
LEMMA FileLimits ==
  ASSUME NEW q, FileCalls(q), NEW d \in Nat, d + 1 \in DOMAIN q.calls, 1..d \subseteq DOMAIN q.calls,
         q.calls[d + 1].kind = "file",
         NEW count, count = Cardinality(FilesOf(q, d)),
         NEW total, total = Total(Sizes(q, d), FilesOf(q, d))
  PROVE  /\ FilesOf(q, d + 1) = FilesOf(q, d) \cup {d + 1}
         /\ count \in Nat /\ total \in Nat
         /\ Cardinality(FilesOf(q, d + 1)) = count + 1
         /\ Total(Sizes(q, d + 1), FilesOf(q, d + 1)) = total + q.calls[d + 1].size
         /\ LimitsKept(q, d + 1) <=>
              /\ LimitsKept(q, d) /\ FileKept(q.options, q.calls[d + 1])
              /\ Fits4(q.options, count + 1, total + q.calls[d + 1].size)
<1> DEFINE S == FilesOf(q, d)
           T == FilesOf(q, d + 1)
           size == q.calls[d + 1].size
<1>1. T = S \cup {d + 1} /\ S \in SUBSET (1..d) /\ d + 1 \notin S
  BY DEF FilesOf
<1>2. size \in Nat /\ \A i \in S : q.calls[i].size \in Nat
  BY DEF FileCalls, FilesOf
<1>3. IsFiniteSet(S) /\ count \in Nat /\ total \in Nat
  BY <1>2, FilesFinite
<1>4. Cardinality(T) = count + 1
  BY <1>1, RankOfLast
<1>5. Total(Sizes(q, d + 1), T) = total + size
  <2>1. \A i \in S \cup {d + 1} : Sizes(q, d + 1)[i] \in Nat
    BY <1>1, <1>2 DEF Sizes
  <2>2. Sizes(q, d + 1)[d + 1] = size
    BY <1>1 DEF Sizes
  <2>3. \A i \in S : Sizes(q, d + 1)[i] = Sizes(q, d)[i]
    BY <1>1 DEF Sizes
  <2> HIDE DEF S, T, size
  <2>4. Total(Sizes(q, d + 1), S \cup {d + 1}) = Total(Sizes(q, d + 1), S) + Sizes(q, d + 1)[d + 1]
    <3>1. PICK f, x : f = Sizes(q, d + 1) /\ x = d + 1
      OBVIOUS
    <3>2. IsFiniteSet(S) /\ x \notin S /\ \A i \in S \cup {x} : f[i] \in Nat
      BY <3>1, <1>1, <1>3, <2>1
    <3>3. Total(f, S \cup {x}) = Total(f, S) + f[x]
      BY <3>2, TotalAdds
    <3> QED BY <3>1, <3>3
  <2>5. Total(Sizes(q, d + 1), S) = Total(Sizes(q, d), S)
    BY <2>3, TotalSame
  <2> QED BY <1>1, <2>2, <2>4, <2>5 DEF S
<1>6. Fits4(q.options, count + 1, total + size) => Fits4(q.options, count, total)
  BY <1>2, <1>3 DEF Fits4, FileCalls, Defined
<1>7. (\A i \in T : FileKept(q.options, q.calls[i])) <=>
        FileKept(q.options, q.calls[d + 1]) /\ \A i \in S : FileKept(q.options, q.calls[i])
  BY <1>1
<1>8. LimitsKept(q, d + 1) <=>
        /\ LimitsKept(q, d) /\ FileKept(q.options, q.calls[d + 1])
        /\ Fits4(q.options, count + 1, total + size)
  BY <1>4, <1>5, <1>6, <1>7 DEF LimitsKept
<1> QED BY <1>1, <1>3, <1>4, <1>5, <1>8

(* A file is taken, or is refused by the first limit it breaks. *)
LEMMA FileRead ==
  ASSUME NEW q, FileCalls(q), NEW d \in Nat, d + 1 \in DOMAIN q.calls, 1..d \subseteq DOMAIN q.calls,
         NEW a, Parsed(q, d, a), q.calls[d + 1].kind = "file"
  PROVE  Parsed(q, d + 1, ParsePart(a, q.calls[d + 1], q.options))
<1> DEFINE o == q.options
           part == q.calls[d + 1]
           b == ParsePart(a, part, o)
           S == FilesOf(q, d)
<1>1. CASE a.status # 200
  <2>1. b = a
    BY <1>1 DEF ParsePart
  <2>2. ~ LimitsKept(q, d)
    BY <1>1 DEF Parsed
  <2>3. ~ LimitsKept(q, d + 1)
    BY <2>2, FileLimits
  <2> QED BY <1>1, <2>1, <2>3 DEF Parsed
<1>2. CASE a.status = 200
  <2>1. PICK count, total : /\ count = a.count /\ count = Cardinality(S)
                            /\ total = a.total /\ total = Total(Sizes(q, d), S)
    BY <1>2 DEF Parsed
  <2>2. /\ FilesOf(q, d + 1) = S \cup {d + 1}
        /\ count \in Nat /\ total \in Nat
        /\ Cardinality(FilesOf(q, d + 1)) = count + 1
        /\ Total(Sizes(q, d + 1), FilesOf(q, d + 1)) = total + part.size
        /\ LimitsKept(q, d + 1) <=>
             /\ LimitsKept(q, d) /\ FileKept(o, part)
             /\ Fits4(o, count + 1, total + part.size)
    BY <2>1, FileLimits
  <2>3. LimitsKept(q, d)
    BY <1>2 DEF Parsed
  <2>4. a = [count |-> count, total |-> total, files |-> a.files, status |-> 200]
    BY <1>2, <2>1 DEF Parsed
  <2>5. part.size \in Nat /\ part.kind = "file"
        /\ {o.maxFiles, o.maxTotalSize, o.maxFileSize} \subseteq Nat \cup {None}
    BY DEF FileCalls
  <2>8. b = (LET counted == [count |-> count + 1, total |-> total, files |-> a.files,
                             status |-> 200] IN
             IF Defined(o.maxFiles) /\ count + 1 > o.maxFiles
             THEN [counted EXCEPT !.status = 400]
             ELSE IF TooLarge(a, part, o) THEN [counted EXCEPT !.status = 413]
             ELSE IF Defined(o.allowedTypes) /\ ~ TypeAllowed(part.type, o.allowedTypes)
             THEN [counted EXCEPT !.status = 415]
             ELSE IF part.name \in ObjectNames THEN [counted EXCEPT !.status = 500]
             ELSE [counted EXCEPT !.total = total + part.size, !.files = Append(a.files, part)])
    <3> DEFINE counted == [a EXCEPT !.count = @ + 1]
    <3>1. counted = [count |-> count + 1, total |-> total, files |-> a.files, status |-> 200]
      BY <2>4
    <3>2. counted.count = count + 1 /\ counted.total = total /\ counted.files = a.files
      BY <3>1
    <3>3. b = IF Defined(o.maxFiles) /\ counted.count > o.maxFiles
              THEN [counted EXCEPT !.status = 400]
              ELSE IF TooLarge(a, part, o) THEN [counted EXCEPT !.status = 413]
              ELSE IF Defined(o.allowedTypes) /\ ~ TypeAllowed(part.type, o.allowedTypes)
              THEN [counted EXCEPT !.status = 415]
              ELSE IF part.name \in ObjectNames THEN [counted EXCEPT !.status = 500]
              ELSE [counted EXCEPT !.total = counted.total + part.size,
                                   !.files = Append(counted.files, part)]
      BY <1>2, <2>5 DEF ParsePart
    <3> HIDE DEF counted, b, part, o
    <3> QED BY <3>1, <3>2, <3>3
  <2>9. TooLarge(a, part, o) <=>
          \/ Defined(o.maxFileSize) /\ part.size > o.maxFileSize
          \/ Defined(o.maxTotalSize) /\ total + part.size > o.maxTotalSize
    BY <2>1 DEF TooLarge
  <2>6. CASE ~ (FileKept(o, part) /\ Fits4(o, count + 1, total + part.size))
    <3>1. b.status # 200
          /\ b = [count |-> b.count, total |-> b.total, files |-> b.files, status |-> b.status]
      <4>1. \/ Defined(o.maxFiles) /\ count + 1 > o.maxFiles
            \/ TooLarge(a, part, o)
            \/ Defined(o.allowedTypes) /\ ~ TypeAllowed(part.type, o.allowedTypes)
            \/ part.name \in ObjectNames
        BY <2>2, <2>5, <2>6, <2>9 DEF FileKept, Fits4, Defined
      <4>2. \E code \in {400, 413, 415, 500} :
              b = [count |-> count + 1, total |-> total, files |-> a.files, status |-> code]
        <5> HIDE DEF b, part, o
        <5> QED BY <4>1, <2>8
      <4> HIDE DEF b
      <4> QED BY <4>2
    <3> QED BY <2>2, <2>6, <3>1 DEF Parsed
  <2>7. CASE FileKept(o, part) /\ Fits4(o, count + 1, total + part.size)
    <3>1. b = [count |-> count + 1, total |-> total + part.size,
               files |-> Append(a.files, part), status |-> 200]
      <4>1. /\ ~ (Defined(o.maxFiles) /\ count + 1 > o.maxFiles)
            /\ ~ TooLarge(a, part, o)
            /\ ~ (Defined(o.allowedTypes) /\ ~ TypeAllowed(part.type, o.allowedTypes))
            /\ part.name \notin ObjectNames
        BY <2>2, <2>5, <2>7, <2>9 DEF FileKept, Fits4, Defined
      <4> HIDE DEF b, part, o
      <4> QED BY <4>1, <2>8
    <3>2. Filtered(Append(a.files, part), S \cup {d + 1}, [k \in 1..(d + 1) |-> q.calls[k]])
      <4> DEFINE f == [k \in 1..d |-> q.calls[k]]
                 g == [k \in 1..(d + 1) |-> q.calls[k]]
      <4>1. S \in SUBSET (1..d) /\ part = g[d + 1] /\ \A i \in S : g[i] = f[i]
        BY DEF FilesOf
      <4>2. Filtered(a.files, S, f)
        BY <1>2 DEF Parsed
      <4> HIDE DEF f, g, S, part
      <4>3. Filtered(Append(a.files, part), S \cup {d + 1}, g)
        BY <4>1, <4>2, FilteredAdds
      <4> QED BY <4>3 DEF g
    <3> HIDE DEF b, part, o, S
    <3>3. b.count = count + 1 /\ b.total = total + part.size /\ b.status = 200
          /\ b.files = Append(a.files, part)
      BY <3>1
    <3>4. b = [count |-> b.count, total |-> b.total, files |-> b.files, status |-> b.status]
      BY <3>1, <3>3
    <3>5. LimitsKept(q, d + 1)
      BY <2>2, <2>3, <2>7
    <3> QED BY <2>2, <3>2, <3>3, <3>4, <3>5 DEF Parsed, b, part, o
  <2> QED BY <2>6, <2>7
<1> QED BY <1>1, <1>2

(* Each step keeps the invariant about uploads. *)
LEMMA UploadStep == ASSUME Put, UploadInv, Compute PROVE UploadInv'
<1> SUFFICES ASSUME Of("upload") PROVE UploadInv'
  BY Counts DEF UploadInv, Of, Put
<1>1. /\ question' = question /\ done' = done + 1 /\ done \in Nat
      /\ done < Len(question.calls)
      /\ answer' = ParsePart(answer, question.calls[done + 1], question.options)
  BY ActionOf DEF ReadPart, Takes, Upcoming, Put
<1>2. FileCalls(question) /\ done + 1 \in DOMAIN question.calls /\ 1..done \subseteq DOMAIN question.calls
  <2>1. Len(question.calls) \in Nat
    <3>1. Listed
      BY DEF Listed, Of
    <3> QED BY <3>1, ListedCalls
  <2> QED BY <1>1, <2>1, UploadCalls
<1>3. question.calls[done + 1].kind \in {"field", "file"}
  BY <1>2 DEF FileCalls
<1>4. Parsed(question, done, answer)
  BY DEF UploadInv
<1>5. Parsed(question, done + 1, answer')
  <2>1. CASE question.calls[done + 1].kind = "field"
    <3>1. answer' = answer
      BY <1>1, <2>1 DEF ParsePart
    <3>2. Parsed(question, done + 1, answer)
      BY <1>1, <1>2, <1>4, <2>1, FieldRead
    <3> QED BY <3>1, <3>2
  <2>2. CASE question.calls[done + 1].kind = "file"
    BY <1>1, <1>2, <1>4, <2>2, FileRead
  <2> QED BY <1>3, <2>1, <2>2
<1> QED BY <1>1, <1>5 DEF UploadInv

(* An upload is accepted exactly when it keeps every limit. *)
LEMMA UploadEnd == ASSUME Put, UploadInv PROVE UploadsKeepLimits
<1> SUFFICES ASSUME Of("upload") PROVE UploadsKeepLimits
  BY DEF UploadsKeepLimits
<1> DEFINE o == question.options
           files == {i \in Taken : Call(i).kind = "file"}
           sizes == [i \in files |-> Call(i).size]
<1>1. files = FilesOf(question, done)
  BY DEF FilesOf, Taken, Call
<1>2. sizes = Sizes(question, done)
  BY <1>1 DEF Sizes, Call
<1>3. Parsed(question, done, answer)
  BY DEF UploadInv
<1>4. LimitsKept(question, done) <=>
        /\ Defined(o.maxFiles) => Cardinality(files) <= o.maxFiles
        /\ Defined(o.maxTotalSize) => Total(sizes, files) <= o.maxTotalSize
        /\ \A i \in files :
             /\ Defined(o.maxFileSize) => Call(i).size <= o.maxFileSize
             /\ Defined(o.allowedTypes) => TypeAllowed(Call(i).type, o.allowedTypes)
             /\ Call(i).name \notin ObjectNames
  BY <1>1, <1>2 DEF LimitsKept, Fits4, FileKept, Call
<1>5. answer.status = 200 =>
        Len(answer.files) = Cardinality(files) /\ \A i \in files : answer.files[Rank(i, files)] = Call(i)
  <2>1. answer.status = 200 => Filtered(answer.files, files, [i \in 1..done |-> question.calls[i]])
    BY <1>1, <1>3 DEF Parsed
  <2>2. \A i \in files : i \in 1..done
    BY DEF Taken
  <2> HIDE DEF files
  <2> QED BY <2>1, <2>2 DEF Filtered, Call
<1> QED BY <1>3, <1>4, <1>5 DEF UploadsKeepLimits, Parsed

-----------------------------------------------------------------------------
(* Settings *)

(* The invariant about settings holds when it is asked. *)
LEMMA SettingsStart == ASSUME Ask PROVE SettingsInv
<1> SUFFICES ASSUME Of("settings") PROVE SettingsInv
  BY DEF SettingsInv
<1>1. answer = <<>>
  BY Zenon DEF Ask, Begin, Of
<1>2. Mine(question, done) = {}
  BY DEF Ask, Mine
<1> QED BY <1>1, <1>2 DEF SettingsInv, Collected

(* A function on 1..n is a sequence of n elements. *)
LEMMA Numbers ==
  ASSUME NEW n \in Nat, NEW u \in [1..n -> Nat]
  PROVE  u \in Seq(Nat) /\ Len(u) = n
OBVIOUS

(* What a key is called. *)
LEMMA KeyNames ==
  ASSUME NEW q, NEW i, Keyed(q.calls[i].key), All(q) \/ Under(q.calls[i].key, q.prefix)
  PROVE  CamelCase(Stripped(q.calls[i].key, q.prefix)) = NameOf(q, i)
<1> DEFINE key == q.calls[i].key
<1>1. /\ Len(key.words) > 0 /\ key.words \in Seq(STRING)
      /\ key.underscores \in [DOMAIN key.words -> Nat]
  BY DEF Keyed
<1>2. CASE All(q)
  BY <1>2 DEF All, CamelCase, Stripped, NameOf
<1>3. CASE ~ All(q)
  <2>1. Len(key.words) > 1 /\ DOMAIN key.words = 1..Len(key.words) /\ Len(key.words) \in Nat
    BY <1>1, <1>3 DEF Under
  <2>2. key.underscores \in Seq(Nat) /\ Len(key.underscores) = Len(key.words)
    BY <1>1, <2>1, Numbers
  <2> DEFINE u == key.underscores
             t == Tail(u)
             v == [t EXCEPT ![1] = @ - 1]
  <2>3. t \in Seq(Nat) /\ 1 \in DOMAIN t /\ t[1] = u[2] /\ u[2] \in Nat
    BY <2>1, <2>2
  <2>4. v[1] = u[2] - 1
    BY <2>3
  <2>5. Stripped(key, q.prefix) = [words |-> Tail(key.words), underscores |-> v]
    BY <1>3 DEF All, Stripped
  <2> HIDE DEF v, t
  <2>6. CamelCase(Stripped(key, q.prefix)) =
          [words |-> Tail(key.words),
           capital |-> {n \in DOMAIN Tail(key.words) : v[n] > 0 /\ Tail(key.words)[n] \notin Numerals}]
    <3>1. \A w, c : CamelCase([words |-> w, underscores |-> c]) =
            [words |-> w, capital |-> {n \in DOMAIN w : c[n] > 0 /\ w[n] \notin Numerals}]
      BY DEF CamelCase
    <3> QED BY <2>5, <3>1
  <2>7. ASSUME NEW n \in DOMAIN Tail(key.words)
        PROVE  /\ Tail(key.words)[n] = key.words[n + 1]
               /\ (v[n] > 0) = (u[n + 1] > IF n = 1 THEN 1 ELSE 0)
    <3>1. n \in 1..(Len(key.words) - 1) /\ Tail(key.words)[n] = key.words[n + 1] /\ t[n] = u[n + 1]
          /\ n \in DOMAIN t
      BY <1>1, <2>1, <2>2 DEF t
    <3>2. v[n] = IF n = 1 THEN t[1] - 1 ELSE t[n]
      BY <3>1 DEF v
    <3> QED BY <2>3, <3>1, <3>2
  <2> QED BY <1>3, <2>6, <2>7 DEF NameOf
<1> QED BY <1>2, <1>3

(* One more entry of the environment is bound, or is not under the prefix. *)
LEMMA OneMoreSetting ==
  ASSUME NEW q, NEW d \in Nat, NEW out, Collected(q, d, out),
         All(q) \/ Under(q.calls[d + 1].key, q.prefix) =>
           CamelCase(Stripped(q.calls[d + 1].key, q.prefix)) = NameOf(q, d + 1)
  PROVE  Collected(q, d + 1, Collect(out, q.calls[d + 1], q.prefix))
<1> DEFINE e == q.calls[d + 1]
           next == Collect(out, e, q.prefix)
           S == Mine(q, d)
           k == NameOf(q, d + 1)
<1>1. CASE ~ (All(q) \/ Under(e.key, q.prefix))
  <2>1. Mine(q, d + 1) = S
    BY <1>1 DEF Mine
  <2>2. next = out
    BY <1>1 DEF Collect, All
  <2> QED BY <2>1, <2>2 DEF Collected
<1>2. CASE All(q) \/ Under(e.key, q.prefix)
  <2>1. Mine(q, d + 1) = S \cup {d + 1} /\ S \subseteq 1..d
    BY <1>2 DEF Mine
  <2>2. next = [x \in DOMAIN out \cup {k} |-> IF x = k THEN e.value ELSE out[x]]
    BY <1>2 DEF Collect, All
  <2> HIDE DEF next, S, e, k
  <2>3. DOMAIN out = {NameOf(q, i) : i \in S}
        /\ \A i \in S : (\A j \in S : NameOf(q, j) = NameOf(q, i) => j <= i) =>
             out[NameOf(q, i)] = q.calls[i].value
    BY DEF Collected, S
  <2>4. DOMAIN next = {NameOf(q, i) : i \in S \cup {d + 1}}
    BY <2>2, <2>3 DEF k
  <2>5. ASSUME NEW i \in S \cup {d + 1},
               \A j \in S \cup {d + 1} : NameOf(q, j) = NameOf(q, i) => j <= i
        PROVE  next[NameOf(q, i)] = q.calls[i].value
    <3>1. CASE i = d + 1
      BY <3>1, <2>2 DEF k, e
    <3>2. CASE i # d + 1
      <4>1. i \in S /\ ~ (d + 1 <= i)
        BY <3>2, <2>1
      <4>2. NameOf(q, i) # k
        BY <4>1, <2>5 DEF k
      <4>3. NameOf(q, i) \in DOMAIN out
        BY <4>1, <2>3
      <4>4. out[NameOf(q, i)] = q.calls[i].value
        BY <4>1, <2>3, <2>5
      <4> QED BY <4>2, <4>3, <4>4, <2>2
    <3> QED BY <3>1, <3>2
  <2> QED BY <2>1, <2>4, <2>5 DEF Collected, next, e
<1> QED BY <1>1, <1>2

(* Each step keeps the invariant about settings. *)
LEMMA SettingsStep == ASSUME Put, SettingsInv, Compute PROVE SettingsInv'
<1> SUFFICES ASSUME Of("settings") PROVE SettingsInv'
  BY Counts DEF SettingsInv, Of, Put
<1>1. /\ question' = question /\ done' = done + 1 /\ done \in Nat
      /\ done < Len(question.calls)
      /\ answer' = Collect(answer, question.calls[done + 1], question.prefix)
  BY ActionOf DEF CollectEntry, Takes, Upcoming, Put
<1>2. Keyed(question.calls[done + 1].key)
  <2>1. \A i \in DOMAIN question.calls : Keyed(question.calls[i].key)
    BY Zenon DEF Put, Sensible, Of, Keyed
  <2>2. Listed
    BY DEF Listed, Of
  <2>3. DOMAIN question.calls = 1..Len(question.calls) /\ Len(question.calls) \in Nat
    BY <2>2, ListedCalls
  <2>4. done + 1 \in DOMAIN question.calls
    BY <2>3, <1>1
  <2> QED BY <2>1, <2>4, Zenon
<1>3. All(question) \/ Under(question.calls[done + 1].key, question.prefix) =>
        CamelCase(Stripped(question.calls[done + 1].key, question.prefix)) = NameOf(question, done + 1)
  BY <1>2, KeyNames
<1>4. Collected(question, done, answer)
  BY DEF SettingsInv
<1>5. Collected(question, done + 1, answer')
  BY <1>1, <1>3, <1>4, OneMoreSetting
<1> QED BY <1>1, <1>5 DEF SettingsInv

(* Each setting has the value of the last entry with its name. *)
LEMMA SettingsEnd == ASSUME Put, SettingsInv PROVE SettingsBind
<1> SUFFICES ASSUME Of("settings") PROVE SettingsBind
  BY DEF SettingsBind
<1> DEFINE all == question.prefix = ""
           mine == {i \in Taken : all \/ Under(Call(i).key, question.prefix)}
           name(i) == LET key == Call(i).key IN
                      IF all
                      THEN [words |-> key.words,
                            capital |-> {n \in DOMAIN key.words :
                                           key.underscores[n] > 0 /\ key.words[n] \notin Numerals}]
                      ELSE [words |-> Tail(key.words),
                            capital |-> {n \in DOMAIN Tail(key.words) :
                                           /\ key.underscores[n + 1] > IF n = 1 THEN 1 ELSE 0
                                           /\ key.words[n + 1] \notin Numerals}]
           given == {name(i) : i \in mine}
           bean == BindProperties(answer, question.required, FALSE)
<1>1. mine = Mine(question, done)
  BY DEF Mine, All, Taken, Call
<1>2. \A i : name(i) = NameOf(question, i)
  BY DEF NameOf, All, Call
<1>3. Collected(question, done, answer)
  BY DEF SettingsInv
<1> HIDE DEF mine, name
<1>4. DOMAIN answer = given
  BY <1>1, <1>2, <1>3 DEF Collected
<1>5. \A i \in mine : (\A j \in mine : name(j) = name(i) => j <= i) =>
        answer[name(i)] = Call(i).value
  BY <1>1, <1>2, <1>3 DEF Collected, Call
<1> HIDE DEF given
<1>6. bean.throws <=> ~ (question.required \subseteq given)
  BY <1>4 DEF BindProperties
<1>7. ~ bean.throws => bean.bound = answer
  BY DEF BindProperties
<1> HIDE DEF bean
<1>8. /\ bean.throws <=> ~ (question.required \subseteq given)
      /\ ~ bean.throws =>
           /\ DOMAIN bean.bound = given
           /\ \A i \in mine : (\A j \in mine : name(j) = name(i) => j <= i) =>
                bean.bound[name(i)] = Call(i).value
  BY <1>4, <1>5, <1>6, <1>7
<1> QED BY <1>8, Zenon DEF SettingsBind, bean, given, mine, name

-----------------------------------------------------------------------------
(* Metrics *)

(* What a question about a metric is made of. *)
LEMMA MetricCalls ==
  ASSUME Put, Of("metrics")
  PROVE  Observed(question)
<1>1. /\ IsList(question.calls) /\ question.calls # <<>> /\ question.calls[1].do = "create"
      /\ question.calls[1].kind \in {"histogram", "counter", "gauge"}
      /\ \A i \in DOMAIN question.calls : MetricCall(question.calls[i], question.calls[1].kind)
  BY Zenon DEF Put, Sensible, Of
<1>2. Len(question.calls) \in Nat \ {0} /\ DOMAIN question.calls = 1..Len(question.calls)
  BY <1>1 DEF IsList
<1>3. ASSUME NEW c, NEW kind \in {"histogram", "counter", "gauge"}, MetricCall(c, kind)
      PROVE  \/ c.do = "create" /\ IsList(c.buckets)
             \/ kind = "histogram" /\ c.do = "observe" /\ c.value \in Int
             \/ kind = "counter" /\ c.do = "inc" /\ c.value \in Int
             \/ kind = "gauge" /\ c.do \in {"set", "inc", "dec"} /\ c.value \in Nat
  <2>1. kind = "histogram" => kind # "gauge" /\ kind # "counter"
    OBVIOUS
  <2>2. kind = "counter" => kind # "gauge" /\ kind # "histogram"
    OBVIOUS
  <2>3. CASE kind = "histogram"
    BY <2>3, <2>1, <1>3, Zenon DEF MetricCall
  <2>4. CASE kind = "counter"
    BY <2>4, <2>2, <1>3, Zenon DEF MetricCall
  <2>5. CASE kind = "gauge"
    <3>1. kind # "histogram" /\ kind # "counter"
      BY <2>5
    <3> QED BY <2>5, <3>1, <1>3, Zenon DEF MetricCall
  <2> QED BY <2>3, <2>4, <2>5
<1>4. \A i \in DOMAIN question.calls : Fitted(question, i)
  BY <1>1, <1>3 DEF Fitted
<1>5. IsList(question.calls[1].buckets)
  <2>1. 1 \in DOMAIN question.calls
    BY <1>2
  <2>2. question.calls[1].do \notin {"observe", "inc", "set", "dec"}
    BY <1>1
  <2> QED BY <1>1, <1>3, <2>1, <2>2
<1> QED BY <1>1, <1>2, <1>4, <1>5 DEF Observed

(* The invariant about metrics holds when it is asked. *)
LEMMA MetricsStart == ASSUME Ask PROVE MetricsInv
<1> SUFFICES ASSUME Of("metrics") PROVE MetricsInv
  BY DEF MetricsInv
<1>1. answer = <<>>
  BY Zenon DEF Ask, Begin, Of
<1> QED BY <1>1 DEF MetricsInv, Ask

(* How the sets of calls grow. *)
LEMMA UsedMore ==
  ASSUME NEW q, NEW d \in Nat
  PROVE  /\ Used(q, d + 1) = IF Recorded(q, d + 1) THEN Used(q, d) \cup {d + 1} ELSE Used(q, d)
         /\ Used(q, d) \subseteq 1..d
         /\ \A k : OfSeries(q, d + 1, k) = IF Recorded(q, d + 1) /\ SeriesOf(q, d + 1) = k
                                           THEN OfSeries(q, d, k) \cup {d + 1} ELSE OfSeries(q, d, k)
         /\ \A k : OfSeries(q, d, k) \subseteq 1..d
<1>1. 1..(d + 1) = (1..d) \cup {d + 1}
  OBVIOUS
<1>2. Used(q, d + 1) = IF Recorded(q, d + 1) THEN Used(q, d) \cup {d + 1} ELSE Used(q, d)
  <2> HIDE DEF Recorded
  <2> QED BY <1>1 DEF Used
<1>3. Used(q, d) \subseteq 1..d
  BY DEF Used
<1>4. ASSUME NEW k
      PROVE  /\ OfSeries(q, d + 1, k) = IF Recorded(q, d + 1) /\ SeriesOf(q, d + 1) = k
                                        THEN OfSeries(q, d, k) \cup {d + 1} ELSE OfSeries(q, d, k)
             /\ OfSeries(q, d, k) \subseteq 1..d
  <2>1. OfSeries(q, d, k) \subseteq 1..d
    BY <1>3 DEF OfSeries
  <2>2. CASE Recorded(q, d + 1)
    BY <2>1, <2>2, <1>2 DEF OfSeries
  <2>3. CASE ~ Recorded(q, d + 1)
    BY <2>1, <2>3, <1>2 DEF OfSeries
  <2> QED BY <2>1, <2>2, <2>3
<1> QED BY <1>2, <1>3, <1>4

(* A set makes all that came before it void. *)
LEMMA SinceSet ==
  ASSUME NEW q, NEW d \in Nat, NEW M \in SUBSET (1..d), q.calls[d + 1].do = "set"
  PROVE  Since(q, M \cup {d + 1}) = {d + 1}
<1>1. \A j \in M : j < d + 1 /\ j \in Nat
  OBVIOUS
<1>2. ASSUME NEW i \in M PROVE i \notin Since(q, M \cup {d + 1})
  <2>1. ~ (d + 1 <= i)
    BY <1>1
  <2> QED BY <2>1 DEF Since
<1>3. d + 1 \in Since(q, M \cup {d + 1})
  <2>1. \A j \in M \cup {d + 1} : j <= d + 1
    BY <1>1
  <2> QED BY <2>1 DEF Since
<1>4. Since(q, M \cup {d + 1}) \subseteq M \cup {d + 1}
  BY DEF Since
<1> QED BY <1>2, <1>3, <1>4

(* What one more call adds to those since the last set. *)
LEMMA SinceMore ==
  ASSUME NEW q, NEW d \in Nat, NEW M \in SUBSET (1..d)
  PROVE  /\ q.calls[d + 1].do # "set" => Since(q, M \cup {d + 1}) = Since(q, M) \cup {d + 1}
         /\ Since(q, M) \subseteq 1..d
<1>1. \A j \in M : j < d + 1 /\ j \in Nat
  OBVIOUS
<1>2. ASSUME q.calls[d + 1].do # "set" PROVE Since(q, M \cup {d + 1}) = Since(q, M) \cup {d + 1}
  BY <1>1, <1>2 DEF Since
<1> QED BY <1>2 DEF Since

(* Sets of calls are finite. *)
LEMMA SubFinite ==
  ASSUME NEW d \in Nat, NEW M \in SUBSET (1..d)
  PROVE  IsFiniteSet(M) /\ Cardinality(M) \in Nat /\ d + 1 \notin M
<1>1. IsFiniteSet(1..d)
  BY FS_Interval
<1>2. IsFiniteSet(M)
  BY <1>1, FS_Subset
<1> QED BY <1>2, FS_CardinalityType

(* The sum with one more call. *)
LEMMA TotalOfMore ==
  ASSUME NEW q, NEW d \in Nat, NEW M \in SUBSET (1..d), M \cup {d + 1} \subseteq DOMAIN q.calls,
         \A i \in M \cup {d + 1} : q.calls[i].value \in Nat
  PROVE  /\ Total(Amounts(q), M) \in Nat
         /\ Total(Amounts(q), M \cup {d + 1}) = Total(Amounts(q), M) + q.calls[d + 1].value
<1>1. IsFiniteSet(M) /\ d + 1 \notin M
  BY SubFinite
<1>2. \A i \in M \cup {d + 1} : Amounts(q)[i] = q.calls[i].value
  BY DEF Amounts
<1>3. PICK f : f = Amounts(q)
  OBVIOUS
<1>4. /\ \A i \in M \cup {d + 1} : f[i] \in Nat
      /\ f[d + 1] = q.calls[d + 1].value
  BY <1>2, <1>3
<1>5. PICK x : x = d + 1
  OBVIOUS
<1>6. Total(f, M) \in Nat /\ Total(f, M \cup {x}) = Total(f, M) + f[x]
  <2>1. x \notin M /\ \A i \in M \cup {x} : f[i] \in Nat
    BY <1>1, <1>4, <1>5
  <2> QED BY <2>1, <1>1, TotalAdds
<1> QED BY <1>3, <1>4, <1>5, <1>6

(* The value of a gauge or a counter after one more call. *)
LEMMA ValueMore ==
  ASSUME NEW q, NEW d \in Nat, NEW M \in SUBSET (1..d), M \cup {d + 1} \subseteq DOMAIN q.calls,
         \A i \in M \cup {d + 1} : q.calls[i].value \in Nat
  PROVE  /\ ValueOf(q, M) \in Int
         /\ q.calls[d + 1].do = "set" => ValueOf(q, M \cup {d + 1}) = q.calls[d + 1].value
         /\ q.calls[d + 1].do = "inc" =>
              ValueOf(q, M \cup {d + 1}) = ValueOf(q, M) + q.calls[d + 1].value
         /\ q.calls[d + 1].do = "dec" =>
              ValueOf(q, M \cup {d + 1}) = ValueOf(q, M) - q.calls[d + 1].value
<1> DEFINE A == Amounts(q)
           N == M \cup {d + 1}
           v == q.calls[d + 1].value
           D(what) == Doing(q, M, what)
           E(what) == Doing(q, N, what)
<1>1. Since(q, M) \in SUBSET (1..d)
  BY SinceMore
<1>2. \A what : D(what) \in SUBSET (1..d) /\ D(what) \subseteq M
  BY <1>1 DEF Doing, Since
<1>3. v \in Nat /\ Total(A, {}) = 0
  BY TotalEmpty
<1>4. ASSUME NEW what
      PROVE  /\ Total(A, D(what)) \in Nat
             /\ Total(A, D(what) \cup {d + 1}) = Total(A, D(what)) + v
  <2>1. D(what) \in SUBSET (1..d) /\ D(what) \cup {d + 1} \subseteq DOMAIN q.calls
    BY <1>2
  <2>2. \A i \in D(what) \cup {d + 1} : q.calls[i].value \in Nat
    BY <1>2
  <2> HIDE DEF D
  <2> QED BY <2>1, <2>2, TotalOfMore
<1>5. Total(A, {d + 1}) = v
  <2>1. {} \in SUBSET (1..d) /\ {} \cup {d + 1} \subseteq DOMAIN q.calls
    OBVIOUS
  <2>2. \A i \in {} \cup {d + 1} : q.calls[i].value \in Nat
    OBVIOUS
  <2>3. Total(A, {} \cup {d + 1}) = Total(A, {}) + v
    BY <2>1, <2>2, TotalOfMore
  <2>4. {} \cup {d + 1} = {d + 1}
    OBVIOUS
  <2> QED BY <2>3, <2>4, <1>3
<1>6. ValueOf(q, M) = Total(A, D("set")) + Total(A, D("inc")) - Total(A, D("dec"))
  BY DEF ValueOf
<1>7. ValueOf(q, N) = Total(A, E("set")) + Total(A, E("inc")) - Total(A, E("dec"))
  BY DEF ValueOf
<1>s. q.calls[d + 1].do = "set" => Since(q, N) = {d + 1}
  BY SinceSet
<1>8. ASSUME q.calls[d + 1].do = "set" PROVE ValueOf(q, N) = v
  <2>1. Since(q, N) = {d + 1}
    BY <1>8, <1>s
  <2>2. E("set") = {d + 1} /\ E("inc") = {} /\ E("dec") = {}
    BY <2>1, <1>8 DEF Doing
  <2> HIDE DEF E, A, v
  <2>3. Total(A, E("set")) = v /\ Total(A, E("inc")) = 0 /\ Total(A, E("dec")) = 0
    BY <2>2, <1>3, <1>5
  <2> HIDE DEF N
  <2> QED BY <2>3, <1>3, <1>7
<1>9. q.calls[d + 1].do # "set" => Since(q, N) = Since(q, M) \cup {d + 1}
  <2>1. PICK x : x = d + 1
    OBVIOUS
  <2>2. \A j \in M : ~ (j > x)
    BY <2>1
  <2>3. \A j : j \in M \cup {x} <=> j \in M \/ j = x
    OBVIOUS
  <2>4. q.calls[x].do # "set" => Since(q, M \cup {x}) = Since(q, M) \cup {x}
    BY <2>1, SinceMore
  <2> QED BY <2>1, <2>4
<1>10. ASSUME q.calls[d + 1].do = "inc" PROVE ValueOf(q, N) = ValueOf(q, M) + v
  <2>1. E("set") = D("set") /\ E("inc") = D("inc") \cup {d + 1} /\ E("dec") = D("dec")
    BY <1>10, <1>9 DEF Doing
  <2>2. Total(A, E("inc")) = Total(A, D("inc")) + v
    BY <2>1, <1>4
  <2>3. Total(A, D("set")) \in Nat /\ Total(A, D("inc")) \in Nat /\ Total(A, D("dec")) \in Nat
    BY <1>4
  <2> HIDE DEF E, D, A, v
  <2> QED BY <2>1, <2>2, <2>3, <1>3, <1>6, <1>7
<1>11. ASSUME q.calls[d + 1].do = "dec" PROVE ValueOf(q, N) = ValueOf(q, M) - v
  <2>1. E("set") = D("set") /\ E("dec") = D("dec") \cup {d + 1} /\ E("inc") = D("inc")
    BY <1>11, <1>9 DEF Doing
  <2>2. Total(A, E("dec")) = Total(A, D("dec")) + v
    BY <2>1, <1>4
  <2>3. Total(A, D("set")) \in Nat /\ Total(A, D("inc")) \in Nat /\ Total(A, D("dec")) \in Nat
    BY <1>4
  <2> HIDE DEF E, D, A, v
  <2> QED BY <2>1, <2>2, <2>3, <1>3, <1>6, <1>7
<1>12. ValueOf(q, M) \in Int
  <2>1. Total(A, D("set")) \in Nat /\ Total(A, D("inc")) \in Nat /\ Total(A, D("dec")) \in Nat
    BY <1>4
  <2> HIDE DEF D, A
  <2> QED BY <2>1, <1>6
<1> QED BY <1>8, <1>10, <1>11, <1>12

(* Only the series of the call changes. *)
LEMMA SeriesPut ==
  ASSUME NEW q, NEW d \in Nat, NEW metric, NEW series, Shaped(q, metric, series),
         DOMAIN series = {SeriesOf(q, i) : i \in Used(q, d)},
         \A k \in DOMAIN series : Holds(q, OfSeries(q, d, k), Sorted(q), series[k]),
         Recorded(q, d + 1), NEW s,
         Holds(q, OfSeries(q, d + 1, SeriesOf(q, d + 1)), Sorted(q), s)
  PROVE  Kept(q, d + 1, PutSeries(metric, SeriesOf(q, d + 1), s))
<1> DEFINE k0 == SeriesOf(q, d + 1)
           next == [x \in DOMAIN series \cup {k0} |-> IF x = k0 THEN s ELSE series[x]]
<1>1. Shaped(q, PutSeries(metric, k0, s), next)
  BY DEF Shaped, PutSeries
<1>2. Used(q, d + 1) = Used(q, d) \cup {d + 1}
  BY UsedMore
<1>3. DOMAIN next = {SeriesOf(q, i) : i \in Used(q, d + 1)}
  <2>1. DOMAIN next = {SeriesOf(q, i) : i \in Used(q, d)} \cup {k0}
    OBVIOUS
  <2> QED BY <2>1, <1>2
<1>4. ASSUME NEW k \in DOMAIN next PROVE Holds(q, OfSeries(q, d + 1, k), Sorted(q), next[k])
  <2>1. CASE k = k0
    BY <2>1
  <2>2. CASE k # k0
    <3>1. OfSeries(q, d + 1, k) = OfSeries(q, d, k)
      BY <2>2, UsedMore
    <3>2. k \in DOMAIN series /\ next[k] = series[k]
      BY <2>2
    <3> QED BY <3>1, <3>2
  <2> QED BY <2>1, <2>2
<1> HIDE DEF next, k0
<1> QED BY <1>1, <1>3, <1>4 DEF Kept, Shaped, Sorted, k0

(* A series that is not there holds what no call gives. *)
LEMMA NothingHeld ==
  ASSUME NEW q, NEW d \in Nat, NEW series, NEW k,
         DOMAIN series = {SeriesOf(q, i) : i \in Used(q, d)}, k \notin DOMAIN series
  PROVE  OfSeries(q, d, k) = {} /\ ValueOf(q, {}) = 0 /\ Cardinality({}) = 0
<1>1. OfSeries(q, d, k) = {}
  BY DEF OfSeries
<1>2. \A what : Doing(q, {}, what) = {}
  BY DEF Doing, Since
<1>3. Total(Amounts(q), {}) = 0
  BY TotalEmpty
<1>4. ValueOf(q, {}) = 0
  <2>1. ValueOf(q, {}) = 0 + 0 - 0
    BY <1>2, <1>3 DEF ValueOf
  <2> QED BY <2>1
<1> QED BY <1>1, <1>4, FS_EmptySet

(* The value of a series of a gauge or a counter. *)
LEMMA ValueHeld ==
  ASSUME NEW q, NEW d \in Nat, Observed(q), d + 1 \in DOMAIN q.calls,
         q.calls[1].kind \in {"gauge", "counter"}, Recorded(q, d + 1),
         NEW metric, NEW series, Shaped(q, metric, series),
         DOMAIN series = {SeriesOf(q, i) : i \in Used(q, d)},
         \A k \in DOMAIN series : Holds(q, OfSeries(q, d, k), Sorted(q), series[k])
  PROVE  LET k == SeriesOf(q, d + 1)
             M == OfSeries(q, d, k)
             v == q.calls[d + 1].value IN
         /\ SeriesAt(metric, k).value = ValueOf(q, M) /\ ValueOf(q, M) \in Int
         /\ v \in Nat
         /\ q.calls[d + 1].do = "set" => ValueOf(q, OfSeries(q, d + 1, k)) = v
         /\ q.calls[d + 1].do = "inc" => ValueOf(q, OfSeries(q, d + 1, k)) = ValueOf(q, M) + v
         /\ q.calls[d + 1].do = "dec" => ValueOf(q, OfSeries(q, d + 1, k)) = ValueOf(q, M) - v
<1> DEFINE k == SeriesOf(q, d + 1)
           M == OfSeries(q, d, k)
           v == q.calls[d + 1].value
<1>1. SeriesAt(metric, k).value = ValueOf(q, M)
  <2>1. metric.kind = q.calls[1].kind /\ metric.series = series
    BY DEF Shaped
  <2>2. CASE k \in DOMAIN series
    <3>1. series[k] = [value |-> ValueOf(q, M)]
      BY <2>2 DEF Holds
    <3> QED BY <2>1, <2>2, <3>1 DEF SeriesAt
  <2>3. CASE k \notin DOMAIN series
    <3>1. SeriesAt(metric, k) = [value |-> 0]
      BY <2>1, <2>3 DEF SeriesAt, ZeroSeries
    <3>2. M = {} /\ ValueOf(q, {}) = 0
      BY <2>3, NothingHeld
    <3>3. ValueOf(q, M) = 0
      BY <3>2
    <3>4. SeriesAt(metric, k).value = 0
      BY <3>1
    <3> QED BY <3>3, <3>4
  <2> QED BY <2>2, <2>3
<1>2. M \in SUBSET (1..d) /\ OfSeries(q, d + 1, k) = M \cup {d + 1}
  BY UsedMore
<1>3. \A i \in DOMAIN q.calls : Recorded(q, i) => q.calls[i].value \in Nat
  BY DEF Observed, Fitted, Recorded
<1>4. 1..d \subseteq DOMAIN q.calls
  BY DEF Observed
<1>5. \A i \in M \cup {d + 1} : q.calls[i].value \in Nat
  <2>1. \A i \in M : Recorded(q, i)
    BY DEF OfSeries, Used
  <2> QED BY <2>1, <1>2, <1>3, <1>4
<1>6. M \cup {d + 1} \subseteq DOMAIN q.calls
  BY <1>2, <1>4
<1> HIDE DEF M, k
<1>7. /\ ValueOf(q, M) \in Int
      /\ q.calls[d + 1].do = "set" => ValueOf(q, M \cup {d + 1}) = q.calls[d + 1].value
      /\ q.calls[d + 1].do = "inc" =>
           ValueOf(q, M \cup {d + 1}) = ValueOf(q, M) + q.calls[d + 1].value
      /\ q.calls[d + 1].do = "dec" =>
           ValueOf(q, M \cup {d + 1}) = ValueOf(q, M) - q.calls[d + 1].value
  BY <1>2, <1>5, <1>6, ValueMore
<1> QED BY <1>1, <1>2, <1>5, <1>7 DEF M, k

(* What an observation counts. *)
LEMMA CountHeld ==
  ASSUME NEW q, NEW d \in Nat, NEW M \in SUBSET (1..d), NEW bound
  PROVE  UpTo(q, M \cup {d + 1}, bound) =
           UpTo(q, M, bound) + (IF q.calls[d + 1].value <= bound THEN 1 ELSE 0)
<1> DEFINE S == {i \in M : q.calls[i].value <= bound}
           T == {i \in M \cup {d + 1} : q.calls[i].value <= bound}
<1>1. S \in SUBSET (1..d)
  OBVIOUS
<1>2. IsFiniteSet(S) /\ Cardinality(S) \in Nat /\ d + 1 \notin S
  <2> HIDE DEF S
  <2> QED BY <1>1, SubFinite
<1>3. UpTo(q, M, bound) = Cardinality(S) /\ UpTo(q, M \cup {d + 1}, bound) = Cardinality(T)
  BY DEF UpTo
<1>5. CASE q.calls[d + 1].value <= bound
  <2>1. T = S \cup {d + 1}
    BY <1>5
  <2> HIDE DEF S, T
  <2>2. Cardinality(S \cup {d + 1}) = Cardinality(S) + 1
    BY <1>2, FS_AddElement
  <2>3. Cardinality(T) = Cardinality(S) + 1
    BY <2>1, <2>2
  <2> QED BY <2>3, <1>3, <1>5
<1>6. CASE ~ (q.calls[d + 1].value <= bound)
  <2>1. T = S
    BY <1>6
  <2> HIDE DEF S, T
  <2>2. Cardinality(T) = Cardinality(S) + 0
    BY <2>1, <1>2
  <2> QED BY <2>2, <1>3, <1>6
<1> QED BY <1>5, <1>6

(* A use of a metric that does not throw counts in its series. *)
LEMMA OneMoreUse ==
  ASSUME NEW q, NEW d \in Nat, Observed(q), d + 1 \in DOMAIN q.calls,
         q.calls[d + 1].do # "create", NEW metric, Kept(q, d, metric)
  PROVE  Kept(q, d + 1, Apply(metric, q.calls[d + 1]))
<1> DEFINE e == q.calls[d + 1]
           k == SeriesOf(q, d + 1)
           kind == q.calls[1].kind
<1>1. PICK series :
        /\ Shaped(q, metric, series)
        /\ DOMAIN series = {SeriesOf(q, i) : i \in Used(q, d)}
        /\ \A x \in DOMAIN series : Holds(q, OfSeries(q, d, x), Sorted(q), series[x])
  BY DEF Kept, Shaped, Sorted
<1>2. /\ metric.kind = kind /\ metric.labelNames = q.calls[1].labelNames
      /\ metric.buckets = Sorted(q) /\ metric.series = series
  BY <1>1 DEF Shaped, Sorted
<1>3. Pick(metric.labelNames, e.labels) = k
  BY <1>2 DEF SeriesOf
<1>4. Fitted(q, d + 1)
  BY DEF Observed
<1>5. CASE ~ Recorded(q, d + 1)
  <2>1. kind = "counter" /\ e.do = "inc" /\ e.value < 0
    BY <1>4, <1>5 DEF Fitted, Recorded
  <2>2. Apply(metric, e) = Increment(metric, e.labels, e.value)
    <3>1. e.do # "observe"
      BY <2>1
    <3> QED BY <3>1, <2>1, Zenon DEF Apply
  <2>3. Apply(metric, e) = metric
    BY <2>1, <2>2, <1>2 DEF Increment
  <2>4. Used(q, d + 1) = Used(q, d) /\ \A x : OfSeries(q, d + 1, x) = OfSeries(q, d, x)
    BY <1>5, UsedMore
  <2> QED BY <2>3, <2>4 DEF Kept
<1>6. ASSUME Recorded(q, d + 1),
             NEW s, Holds(q, OfSeries(q, d + 1, k), Sorted(q), s)
      PROVE  Kept(q, d + 1, PutSeries(metric, k, s))
  <2> HIDE DEF e, kind
  <2> QED BY <1>1, <1>6, SeriesPut
<1>7. CASE Recorded(q, d + 1) /\ kind = "histogram"
  <2>1. e.do = "observe"
    BY <1>4, <1>7 DEF Fitted
  <2>2. Apply(metric, e) = Observe(metric, e.labels, e.value)
    BY <2>1, Zenon DEF Apply
  <2> DEFINE B == Sorted(q)
             M == OfSeries(q, d, k)
             old == SeriesAt(metric, k)
             c(b) == UpTo(q, M, B[b])
  <2>3. old.count = Cardinality(M) /\ \A b \in DOMAIN B : old.counts[b] = c(b)
    <3>1. CASE k \in DOMAIN series
      <4>1. Holds(q, M, B, series[k])
        BY <3>1, <1>1
      <4>2. old = series[k]
        BY <3>1, <1>2 DEF SeriesAt
      <4> HIDE DEF B, M, old
      <4>3. PICK counts, sum, count :
              /\ series[k] = [counts |-> counts, sum |-> sum, count |-> count]
              /\ \A b \in DOMAIN B :
                   counts[b] = UpTo(q, M, B[b])
              /\ count = Cardinality(M)
        BY <4>1, <1>7, Zenon DEF Holds
      <4> QED BY <4>2, <4>3
    <3>2. CASE k \notin DOMAIN series
      <4>1. old = [counts |-> [i \in DOMAIN B |-> 0], sum |-> 0, count |-> 0]
        BY <3>2, <1>2, <1>7 DEF SeriesAt, ZeroSeries
      <4>2. M = {} /\ Cardinality({}) = 0
        BY <3>2, <1>1, NothingHeld
      <4> HIDE DEF old, M
      <4>3. \A b : UpTo(q, M, B[b]) = 0
        BY <4>2 DEF UpTo
      <4> QED BY <4>1, <4>2, <4>3
    <3> QED BY <3>1, <3>2
  <2> DEFINE counts == [b \in DOMAIN B |-> old.counts[b] + (IF Fits(e.value, B[b]) THEN 1 ELSE 0)]
             s == [counts |-> counts, sum |-> old.sum + e.value, count |-> old.count + 1]
  <2>4. Apply(metric, e) = PutSeries(metric, k, s)
    BY <2>2, <1>2, <1>3 DEF Observe
  <2>5. M \in SUBSET (1..d) /\ OfSeries(q, d + 1, k) = M \cup {d + 1}
    BY <1>7, UsedMore
  <2>6. ASSUME NEW b \in DOMAIN B
        PROVE  counts[b] = UpTo(q, M \cup {d + 1}, B[b])
    <3>1. counts[b] = c(b) + (IF e.value <= B[b] THEN 1 ELSE 0)
      BY <2>3 DEF Fits
    <3> HIDE DEF M, B, counts
    <3> QED BY <3>1, <2>5, CountHeld
  <2>7. old.count + 1 = Cardinality(M \cup {d + 1})
    <3>1. Cardinality(M \cup {d + 1}) = Cardinality(M) + 1
      <4> HIDE DEF M
      <4>1. IsFiniteSet(M) /\ d + 1 \notin M
        BY <2>5, SubFinite
      <4> QED BY <4>1, FS_AddElement
    <3> QED BY <3>1, <2>3
  <2>8. DOMAIN counts = DOMAIN B
    OBVIOUS
  <2> HIDE DEF counts, M, B, old
  <2>9. Holds(q, M \cup {d + 1}, B, s)
    BY <2>6, <2>7, <2>8, <1>7 DEF Holds
  <2> HIDE DEF s
  <2> QED BY <2>4, <2>5, <2>9, <1>6, <1>7 DEF B
<1>8. CASE Recorded(q, d + 1) /\ kind \in {"gauge", "counter"}
  <2> DEFINE M == OfSeries(q, d, k)
             N == OfSeries(q, d + 1, k)
  <2>1. /\ SeriesAt(metric, k).value = ValueOf(q, M) /\ ValueOf(q, M) \in Int
        /\ e.value \in Nat
        /\ e.do = "set" => ValueOf(q, N) = e.value
        /\ e.do = "inc" => ValueOf(q, N) = ValueOf(q, M) + e.value
        /\ e.do = "dec" => ValueOf(q, N) = ValueOf(q, M) - e.value
    BY <1>1, <1>8, ValueHeld
  <2>2. e.do \in {"set", "inc", "dec"} /\ (kind = "counter" => e.do = "inc" /\ e.value >= 0)
    BY <1>4, <1>8, <2>1 DEF Fitted
  <2>3. Apply(metric, e) = PutSeries(metric, k, [value |-> ValueOf(q, N)])
    <3> HIDE DEF M, N, k, e
    <3>1. CASE e.do = "set"
      <4>1. e.do # "observe" /\ e.do # "inc" /\ e.do # "dec"
        BY <3>1
      <4>2. Apply(metric, e) = SetGauge(metric, e.labels, e.value)
        BY <3>1, <4>1, Zenon DEF Apply
      <4> QED BY <4>2, <3>1, <2>1, <1>3 DEF SetGauge
    <3>2. CASE e.do = "inc"
      <4>1. e.do # "observe" /\ e.do # "set" /\ e.do # "dec"
        BY <3>2
      <4>2. Apply(metric, e) = Increment(metric, e.labels, e.value)
        BY <3>2, <4>1, Zenon DEF Apply
      <4>3. ~ (metric.kind = "counter" /\ e.value < 0)
        BY <2>1
      <4>4. Apply(metric, e) = PutSeries(metric, k, [value |-> SeriesAt(metric, k).value + e.value])
        BY <4>2, <4>3, <1>3 DEF Increment
      <4> QED BY <4>4, <3>2, <2>1
    <3>3. CASE e.do = "dec"
      <4>1. e.do # "observe" /\ e.do # "set" /\ e.do # "inc"
        BY <3>3
      <4>2. Apply(metric, e) = Increment(metric, e.labels, -e.value)
        BY <3>3, <4>1, Zenon DEF Apply
      <4>3. metric.kind # "counter"
        BY <1>2, <2>2, <3>3
      <4>4. Apply(metric, e) = PutSeries(metric, k, [value |-> SeriesAt(metric, k).value + (-e.value)])
        BY <4>2, <4>3, <1>3 DEF Increment
      <4>5. SeriesAt(metric, k).value + (-e.value) = ValueOf(q, N)
        BY <3>3, <2>1
      <4> QED BY <4>4, <4>5
    <3> QED BY <3>1, <3>2, <3>3, <2>2
  <2>4. Holds(q, N, Sorted(q), [value |-> ValueOf(q, N)])
    BY <1>8 DEF Holds
  <2> QED BY <2>3, <2>4, <1>6, <1>8
<1>. QED
  <2>1. kind \in {"histogram", "counter", "gauge"}
    BY DEF Observed
  <2> QED BY <2>1, <1>5, <1>7, <1>8

(* Each step keeps the invariant about metrics. *)
LEMMA MetricsStep == ASSUME Put, MetricsInv, Compute PROVE MetricsInv'
<1> SUFFICES ASSUME Of("metrics") PROVE MetricsInv'
  BY Counts DEF MetricsInv, Of, Put
<1> DEFINE q == question
           e == question.calls[done + 1]
<1>1. CreateMetric \/ UseMetric
  BY ActionOf
<1>2. /\ question' = question /\ done' = done + 1 /\ done \in Nat
      /\ done < Len(question.calls)
  BY <1>1 DEF CreateMetric, UseMetric, Takes, Put
<1>3. Observed(q)
  BY MetricCalls
<1>4. done + 1 \in DOMAIN q.calls
  BY <1>2, <1>3 DEF Observed
<1>5. done + 1 # 0
  BY <1>2
<1>6. SUFFICES ASSUME TRUE
               PROVE \E f : answer' = [n \in {"m"} |-> f] /\ Kept(q, done + 1, f)
  BY <1>2, <1>5, <1>6 DEF MetricsInv
<1>7. CASE done = 0
  <2>1. e.do = "create" /\ answer = <<>> /\ DOMAIN answer = {}
    BY <1>7, <1>3 DEF Observed, MetricsInv
  <2>2. answer' = Register(answer, "m", NewMetric(e.kind, e.labelNames, e.buckets))
    BY <1>1, <2>1 DEF CreateMetric, UseMetric, Upcoming
  <2> DEFINE f == NewMetric(e.kind, e.labelNames, e.buckets)
  <2>3. answer' = [n \in {"m"} |-> f]
    <3> HIDE DEF f
    <3> QED BY <2>1, <2>2 DEF Register, f
  <2>4. e = q.calls[1] /\ Used(q, 1) = {}
    <3>1. ~ Recorded(q, 1)
      BY <1>3 DEF Observed, Recorded
    <3> QED BY <3>1, <1>7 DEF Used
  <2>5. f = [kind |-> q.calls[1].kind, labelNames |-> q.calls[1].labelNames,
             buckets |-> Ascending(q.calls[1].buckets), series |-> [k \in {} |-> 0]]
    BY <2>4 DEF NewMetric
  <2> HIDE DEF f
  <2>6. Kept(q, 1, f)
    <3> DEFINE empty == [k \in {} |-> 0]
    <3>1. DOMAIN empty = {SeriesOf(q, i) : i \in Used(q, 1)} /\ DOMAIN empty = {}
      BY <2>4
    <3> HIDE DEF empty
    <3> QED BY <2>5, <3>1 DEF Kept, empty
  <2> QED BY <2>3, <2>6, <1>7
<1>8. CASE done # 0
  <2>1. PICK f : answer = [n \in {"m"} |-> f] /\ Kept(q, done, f)
    BY <1>8 DEF MetricsInv
  <2>2. CASE CreateMetric
    <3>1. answer' = Register(answer, "m", NewMetric(e.kind, e.labelNames, e.buckets)) /\ e.do = "create"
      BY <2>2 DEF CreateMetric, Upcoming
    <3>2. answer' = answer
      BY <3>1, <2>1 DEF Register
    <3>3. ~ Recorded(q, done + 1)
      BY <3>1 DEF Recorded
    <3>4. Used(q, done + 1) = Used(q, done) /\ \A x : OfSeries(q, done + 1, x) = OfSeries(q, done, x)
      BY <3>3, <1>2, UsedMore
    <3>5. Kept(q, done + 1, f)
      BY <2>1, <3>4 DEF Kept
    <3> QED BY <3>2, <3>5, <2>1
  <2>3. CASE UseMetric
    <3>1. answer' = [answer EXCEPT !["m"] = Apply(@, e)] /\ e.do # "create"
      BY <2>3 DEF UseMetric, Upcoming
    <3>2. answer' = [n \in {"m"} |-> Apply(f, e)]
      BY <3>1, <2>1
    <3>3. Kept(q, done + 1, Apply(f, e))
      BY <3>1, <2>1, <1>2, <1>3, <1>4, OneMoreUse
    <3> QED BY <3>2, <3>3
  <2> QED BY <1>1, <2>2, <2>3
<1> QED BY <1>7, <1>8

(* Counters and gauges add up, and buckets are cumulative. *)
LEMMA MetricsEnd == ASSUME Put, MetricsInv PROVE BucketsAreCumulative
<1> SUFFICES ASSUME Of("metrics"), done > 0 PROVE BucketsAreCumulative
  BY DEF BucketsAreCumulative
<1> DEFINE metric == answer["m"]
           used == {i \in Taken : Call(i).do # "create" /\ (metric.kind = "counter" => Call(i).value >= 0)}
           series(i) == Pick(Call(1).labelNames, Call(i).labels)
           values == [i \in used |-> Call(i).value]
           q == question
           mine(k) == {i \in used : series(i) = k}
           since(k) == {i \in mine(k) : \A j \in mine(k) : Call(j).do = "set" => j <= i}
           of(k, what) == {i \in since(k) : Call(i).do = what}
<1>1. Kept(q, done, metric)
  <2>1. PICK f : answer = [n \in {"m"} |-> f] /\ Kept(question, done, f)
    BY DEF MetricsInv, Put
  <2> QED BY <2>1
<1>2. PICK all :
        /\ metric = [kind |-> q.calls[1].kind, labelNames |-> q.calls[1].labelNames,
                     buckets |-> Ascending(q.calls[1].buckets), series |-> all]
        /\ DOMAIN all = {SeriesOf(q, i) : i \in Used(q, done)}
        /\ \A k \in DOMAIN all : Holds(q, OfSeries(q, done, k), Ascending(q.calls[1].buckets), all[k])
  BY <1>1 DEF Kept
<1> HIDE DEF metric
<1>3. /\ metric.kind = Call(1).kind /\ metric.labelNames = Call(1).labelNames
      /\ metric.series = all /\ metric.buckets = Ascending(q.calls[1].buckets)
  BY <1>2 DEF Call
<1>4. used = Used(q, done)
  BY <1>3 DEF Used, Recorded, Call, Taken
<1>5. \A i : series(i) = SeriesOf(q, i)
  BY DEF SeriesOf, Call
<1>6. DOMAIN metric.series = {series(i) : i \in used}
  <2> HIDE DEF series, used
  <2> QED BY <1>2, <1>3, <1>4, <1>5
<1>7. \A k : mine(k) = OfSeries(q, done, k)
  <2> HIDE DEF series, used
  <2> QED BY <1>4, <1>5 DEF OfSeries
<1>8. \A k, what : of(k, what) = Doing(q, mine(k), what)
  <2> HIDE DEF mine
  <2> QED BY DEF Doing, Since, Call
<1>9. \A k, what : Total(values, of(k, what)) = Total(Amounts(q), Doing(q, mine(k), what))
  <2> SUFFICES ASSUME NEW k, NEW what
               PROVE  Total(values, of(k, what)) = Total(Amounts(q), Doing(q, mine(k), what))
    OBVIOUS
  <2>1. of(k, what) \subseteq used
    OBVIOUS
  <2>2. used \subseteq DOMAIN q.calls
    <3>1. Taken \subseteq DOMAIN q.calls
      BY ListedCalls DEF Listed, Of
    <3> QED BY <3>1
  <2>3. \A i \in of(k, what) : values[i] = Amounts(q)[i]
    <3> HIDE DEF of, used
    <3> QED BY <2>1, <2>2 DEF Amounts, Call
  <2> HIDE DEF of, values
  <2>4. PICK S : S = of(k, what)
    OBVIOUS
  <2>5. Total(values, S) = Total(Amounts(q), S)
    BY <2>3, <2>4, TotalSame
  <2> QED BY <2>4, <2>5, <1>8
<1>10. metric.buckets = Ascending(q.calls[1].buckets) /\ DOMAIN metric.buckets = 1..Len(metric.buckets)
       /\ Len(metric.buckets) \in Nat
  <2>1. IsList(q.calls[1].buckets)
    BY MetricCalls DEF Observed
  <2>2. PICK s : s = q.calls[1].buckets
    OBVIOUS
  <2>3. DOMAIN s = 1..Len(s) /\ Len(s) \in Nat
    BY <2>1, <2>2 DEF IsList
  <2>4. DOMAIN Ascending(s) = 1..Len(s)
    BY <2>3 DEF Ascending
  <2>5. Len(Ascending(s)) = Len(s)
    BY <2>3, <2>4 DEF Ascending
  <2> QED BY <2>2, <2>3, <2>4, <2>5, <1>3
<1> HIDE DEF used, series, values, of, since
<1>11. ASSUME NEW k \in DOMAIN metric.series, metric.kind = "histogram",
              NEW b \in 1..(Len(metric.buckets) + 1)
       PROVE  BucketLines(metric, k)[b] =
                Cardinality({i \in mine(k) : b > Len(metric.buckets)
                                             \/ Call(i).value <= metric.buckets[b]})
  <2> DEFINE B == metric.buckets
  <2>1. Holds(q, mine(k), B, metric.series[k])
    BY <1>2, <1>3, <1>7
  <2> HIDE DEF mine
  <2>2. PICK counts, sum, count :
          /\ metric.series[k] = [counts |-> counts, sum |-> sum, count |-> count]
          /\ \A x \in DOMAIN B :
               counts[x] = UpTo(q, mine(k), B[x])
          /\ count = Cardinality(mine(k))
    BY <2>1, <1>3, <1>11, Zenon DEF Holds, Call
  <2> DEFINE lines == [i \in DOMAIN B |-> metric.series[k].counts[i]]
  <2>3. \A x \in DOMAIN B : lines[x] = UpTo(q, mine(k), B[x])
    BY <2>2
  <2>4. metric.series[k].count = Cardinality(mine(k))
    BY <2>2
  <2>5. Len(lines) = Len(B) /\ DOMAIN lines = 1..Len(B)
    BY <1>10
  <2>6. BucketLines(metric, k) = Append(lines, metric.series[k].count)
    BY DEF BucketLines
  <2> HIDE DEF B, lines
  <2>7. CASE b = Len(B) + 1
    <3>1. BucketLines(metric, k)[b] = Cardinality(mine(k))
      BY <2>4, <2>5, <2>6, <2>7
    <3>2. {i \in mine(k) : b > Len(B) \/ Call(i).value <= B[b]} = mine(k)
      BY <2>7, <1>10 DEF B
    <3> QED BY <3>1, <3>2 DEF B
  <2>8. CASE b \in 1..Len(B)
    <3>1. BucketLines(metric, k)[b] = lines[b]
      BY <2>5, <2>6, <2>8
    <3>2. ~ (b > Len(B)) /\ b \in DOMAIN B
      BY <2>8, <1>10 DEF B
    <3>3. Cardinality({i \in mine(k) : b > Len(B) \/ Call(i).value <= B[b]}) = UpTo(q, mine(k), B[b])
      <4>1. {i \in mine(k) : b > Len(B) \/ Call(i).value <= B[b]} = {i \in mine(k) : q.calls[i].value <= B[b]}
        BY <3>2 DEF Call
      <4> QED BY <4>1 DEF UpTo
    <3> QED BY <3>1, <3>2, <3>3, <2>3 DEF B
  <2> QED BY <2>7, <2>8, <1>10 DEF B
<1>12. ASSUME NEW k \in DOMAIN metric.series, metric.kind # "histogram"
       PROVE  metric.series[k].value =
                Total(values, of(k, "set")) + Total(values, of(k, "inc")) - Total(values, of(k, "dec"))
  <2>1. Holds(q, mine(k), metric.buckets, metric.series[k])
    BY <1>2, <1>3, <1>7
  <2>2. metric.series[k].value = ValueOf(q, mine(k))
    BY <2>1, <1>3, <1>12 DEF Holds, Call
  <2> QED BY <2>2, <1>9 DEF ValueOf
<1>13. \A k \in DOMAIN metric.series :
         IF metric.kind = "histogram"
         THEN \A b \in 1..(Len(metric.buckets) + 1) :
                BucketLines(metric, k)[b] =
                  Cardinality({i \in mine(k) : b > Len(metric.buckets)
                                            \/ Call(i).value <= metric.buckets[b]})
         ELSE metric.series[k].value =
                Total(values, of(k, "set")) + Total(values, of(k, "inc")) - Total(values, of(k, "dec"))
  <2> HIDE DEF mine
  <2> QED BY <1>11, <1>12
<1>. QED
  BY <1>3, <1>6, <1>13, Zenon DEF BucketsAreCumulative, metric, used, series, values, mine, since, of

-----------------------------------------------------------------------------
(* Plugins *)

(* What a question about plugins is made of. *)
LEMMA PluginQuestion ==
  ASSUME Put, Of("plugins")
  PROVE  Apps(question.app) /\ question.req \in PluginRequests
<1>1. /\ {question.app.plugins, question.app.schemes} \subseteq Seq(STRING)
      /\ question.app.guard \in {"open", "authenticated", "role"}
      /\ question.app.origins \in OriginOptions /\ question.req \in PluginRequests
  BY Zenon DEF Put, Sensible, Of
<1> QED BY <1>1, Zenon DEF Apps

(* Headers *)
LEMMA NamedHeaders ==
  ASSUME NEW names
  PROVE  \A h \in Set(names) : h[1] \in names
<1>1. ASSUME NEW h \in names \X {"set"} PROVE h[1] \in names
  BY <1>1
<1> QED BY <1>1 DEF Set

(* A set of one header. *)
LEMMA OneHeader ==
  ASSUME NEW n
  PROVE  Set({n}) = {<<n, "set">>} /\ \A h \in Set({n}) : h[1] = n
<1>1. {n} \X {"set"} = {<<n, "set">>}
  OBVIOUS
<1>2. <<n, "set">>[1] = n
  OBVIOUS
<1> QED BY <1>1, <1>2 DEF Set

(* More headers leave the rest of a response alone. *)
LEMMA WithHeaders ==
  ASSUME NEW res, Whole(res), NEW hs
  PROVE  /\ Whole(With(res, hs))
         /\ With(res, hs).status = res.status /\ With(res, hs).body = res.body
         /\ With(res, hs).headers = res.headers \cup hs
BY DEF With, Whole

(* What a reply is made of. *)
LEMMA Replies ==
  ASSUME NEW status \in Nat, NEW body \in Texts, NEW hs
  PROVE  /\ Whole(Reply(status, body, hs)) /\ Reply(status, body, hs).status = status
         /\ Reply(status, body, hs).headers = hs /\ Reply(status, body, hs).body = body
BY DEF Reply, Whole

(* A text is not compressed. *)
LEMMA BodyIs ==
  ASSUME NEW s \in TextNames
  PROVE  Body(s) \in Texts /\ Body(s).of = s /\ Body(s).gzip = FALSE
BY DEF Body, Texts

(* A compressed text. *)
LEMMA GzippedIs ==
  ASSUME NEW body \in Texts
  PROVE  Gzipped(body) \in Texts /\ Gzipped(body).of = body.of /\ Gzipped(body).gzip = TRUE
BY DEF Gzipped, Texts

(* A compressed response. *)
LEMMA CompressedIs ==
  ASSUME NEW res, Whole(res), NEW hs
  PROVE  LET r == Reply(res.status, Gzipped(res.body), hs) IN
         /\ Whole(r) /\ r.status = res.status /\ r.headers = hs
         /\ r.body.of = res.body.of /\ r.body.gzip = TRUE
<1>1. res.body \in Texts /\ res.status \in Nat
  BY DEF Whole
<1>2. PICK status \in Nat, body \in Texts : status = res.status /\ body = res.body
  BY <1>1
<1>3. PICK zipped \in Texts : /\ zipped = Gzipped(res.body) /\ zipped.of = res.body.of
                             /\ zipped.gzip = TRUE
  BY <1>2, GzippedIs
<1>4. /\ Whole(Reply(status, zipped, hs)) /\ Reply(status, zipped, hs).status = status
      /\ Reply(status, zipped, hs).headers = hs /\ Reply(status, zipped, hs).body = zipped
  BY Replies
<1> QED BY <1>2, <1>3, <1>4

(* The 304 of etag(). *)
LEMMA Unchanged ==
  /\ Whole(Reply(304, NoBody, Set({"etag"}))) /\ Reply(304, NoBody, Set({"etag"})).status = 304
  /\ Reply(304, NoBody, Set({"etag"})).body.gzip = FALSE
  /\ Reply(304, NoBody, Set({"etag"})).headers = Set({"etag"})
<1>1. NoBody \in Texts /\ NoBody.gzip = FALSE
  BY BodyIs DEF NoBody, TextNames
<1>2. PICK hs : hs = Set({"etag"})
  OBVIOUS
<1>3. PICK status \in Nat : status = 304
  OBVIOUS
<1>4. /\ Whole(Reply(status, NoBody, hs)) /\ Reply(status, NoBody, hs).status = status
      /\ Reply(status, NoBody, hs).headers = hs /\ Reply(status, NoBody, hs).body = NoBody
  BY <1>1, Replies
<1> QED BY <1>1, <1>2, <1>3, <1>4

(* More headers that say nothing of encoding, origin or handler. *)
LEMMA HonestWith ==
  ASSUME NEW app, NEW msg, NEW res, Honest(app, msg, res), NEW hs,
         \A h \in hs : h[1] \notin {"content-encoding", "handler", "allow-origin"}
  PROVE  Honest(app, msg, With(res, hs))
<1> DEFINE w == With(res, hs)
<1>1. /\ Whole(w) /\ w.status = res.status /\ w.body = res.body
      /\ w.headers = res.headers \cup hs
  BY WithHeaders DEF Honest
<1> HIDE DEF w
<1>2. HasHeader(w, "content-encoding") <=> HasHeader(res, "content-encoding")
  BY <1>1 DEF HasHeader
<1>3. HasHeader(w, "handler") <=> HasHeader(res, "handler")
  BY <1>1 DEF HasHeader
<1>4. \A h \in w.headers : h[1] = "allow-origin" => h \in res.headers
  BY <1>1
<1>5. \A h \in w.headers : h[1] = "allow-origin" => h \in CorsHeaders(app.origins, msg.origin)
  BY <1>4 DEF Honest
<1>6. HasHeader(w, "handler") \/ w.status \in {200, 304} => Cleared(app, msg) /\ Authorized(app, msg)
  BY <1>1, <1>3 DEF Honest
<1> QED BY <1>1, <1>2, <1>5, <1>6 DEF Honest, w

(* A refusal has no header that would lie about it. *)
LEMMA HonestReply ==
  ASSUME NEW app, NEW msg, NEW status \in Refusals, NEW text \in TextNames, NEW hs,
         Harmless(app, msg, hs)
  PROVE  Denied(app, msg, Reply(status, Body(text), hs))
<1>1. PICK b \in Texts : b = Body(text) /\ b.gzip = FALSE
  BY BodyIs
<1>2. PICK n \in Nat : n = status /\ n \notin {200, 304}
  BY DEF Refusals
<1> DEFINE r == Reply(n, b, hs)
<1>3. Whole(r) /\ r.status = n /\ r.headers = hs /\ r.body = b
  BY Replies
<1> HIDE DEF r
<1>4. Honest(app, msg, r)
  BY <1>1, <1>2, <1>3 DEF Honest, HasHeader, Harmless
<1>5. r.status # 304 /\ ~ HasHeader(r, "handler")
  BY <1>2, <1>3 DEF HasHeader, Harmless
<1> QED BY <1>1, <1>2, <1>4, <1>5 DEF r, Given, Denied

(* Leaving a wrapper *)
LEMMA LeftHow ==
  ASSUME NEW plugin, NEW msg, NEW res
  PROVE  \/ plugin = "etag" /\ LeavePlugin(plugin, msg, res) = LeaveEtag(msg, res)
         \/ plugin = "compression" /\ LeavePlugin(plugin, msg, res) = LeaveCompression(msg, res)
         \/ plugin = "rateLimit" /\ LeavePlugin(plugin, msg, res) = With(res, Set({"x-ratelimit"}))
         \/ plugin = "requestId" /\ LeavePlugin(plugin, msg, res) = With(res, Set({"x-request-id"}))
         \/ plugin \notin {"etag", "compression", "rateLimit", "requestId"}
            /\ LeavePlugin(plugin, msg, res) = res
<1>1. CASE plugin = "etag"
  BY <1>1, Zenon DEF LeavePlugin
<1>2. CASE plugin = "compression"
  <2>1. plugin # "etag"
    BY <1>2
  <2> QED BY <1>2, <2>1, Zenon DEF LeavePlugin
<1>3. CASE plugin = "rateLimit"
  <2>1. plugin # "etag" /\ plugin # "compression"
    BY <1>3
  <2> QED BY <1>3, <2>1, Zenon DEF LeavePlugin
<1>4. CASE plugin = "requestId"
  <2>1. plugin # "etag" /\ plugin # "compression" /\ plugin # "rateLimit"
    BY <1>4
  <2> QED BY <1>4, <2>1, Zenon DEF LeavePlugin
<1>5. CASE plugin \notin {"etag", "compression", "rateLimit", "requestId"}
  <2>1. plugin # "etag" /\ plugin # "compression" /\ plugin # "rateLimit" /\ plugin # "requestId"
    BY <1>5
  <2> QED BY <1>5, <2>1, Zenon DEF LeavePlugin
<1> QED BY <1>1, <1>2, <1>3, <1>4, <1>5

(* etag() and compression() leave a response whole. *)
LEMMA LeaveWhole ==
  ASSUME NEW msg, NEW res, Whole(res), res.status = 200 => res.body.of = "page"
  PROVE  /\ Whole(LeaveEtag(msg, res)) /\ Whole(LeaveCompression(msg, res))
         /\ LeaveEtag(msg, res).status = 200 => LeaveEtag(msg, res).body.of = "page"
         /\ LeaveCompression(msg, res).status = 200 => LeaveCompression(msg, res).body.of = "page"
<1>1. LeaveEtag(msg, res) \in {res, With(res, Set({"etag"})), Reply(304, NoBody, Set({"etag"}))}
  BY DEF LeaveEtag
<1>2. /\ Whole(With(res, Set({"etag"}))) /\ With(res, Set({"etag"})).status = res.status
      /\ With(res, Set({"etag"})).body = res.body
  BY WithHeaders
<1>3. Whole(Reply(304, NoBody, Set({"etag"}))) /\ Reply(304, NoBody, Set({"etag"})).status = 304
  BY Unchanged
<1> DEFINE hs == {h \in res.headers : h[1] # "vary"}
                  \cup {<<"content-encoding", "gzip">>, <<"vary", "accept-encoding">>}
           r == Reply(res.status, Gzipped(res.body), hs)
<1>4. LeaveCompression(msg, res) \in {res, r}
  BY DEF LeaveCompression
<1>6. Whole(r) /\ r.status = res.status /\ r.body.of = res.body.of
  <2> HIDE DEF hs
  <2> QED BY CompressedIs
<1> HIDE DEF r
<1>8. Whole(LeaveEtag(msg, res)) /\ (LeaveEtag(msg, res).status = 200 => LeaveEtag(msg, res).body.of = "page")
  BY <1>1, <1>2, <1>3
<1>9. /\ Whole(LeaveCompression(msg, res))
      /\ LeaveCompression(msg, res).status = 200 => LeaveCompression(msg, res).body.of = "page"
  BY <1>4, <1>6
<1> QED BY <1>8, <1>9

(* Sets of one of the headers that plugins set. *)
LEMMA SmallHeaders ==
  /\ \A h \in Set({"etag"}) : h[1] = "etag"
  /\ \A h \in Set({"x-ratelimit"}) : h[1] = "x-ratelimit"
  /\ \A h \in Set({"x-request-id"}) : h[1] = "x-request-id"
  /\ <<"etag", "set">> \in Set({"etag"})
BY OneHeader

(* A plugin that is left keeps the response honest. *)
LEMMA LeaveHonest ==
  ASSUME NEW app, NEW msg, NEW plugin, NEW res, Honest(app, msg, res)
  PROVE  Honest(app, msg, LeavePlugin(plugin, msg, res))
<1>1. Honest(app, msg, LeaveEtag(msg, res))
  <2>1. CASE ~ MayTag(msg, res)
    BY <2>1 DEF LeaveEtag
  <2>2. CASE MayTag(msg, res) /\ msg.ifNoneMatch = Tag(res.body)
    <3> DEFINE r == Reply(304, NoBody, Set({"etag"}))
    <3>1. LeaveEtag(msg, res) = r
      BY <2>2 DEF LeaveEtag
    <3>2. Whole(r) /\ r.status = 304 /\ r.body.gzip = FALSE /\ r.headers = Set({"etag"})
      BY Unchanged
    <3>3. \A h \in r.headers : h[1] = "etag"
      BY <3>2, SmallHeaders
    <3>4. Cleared(app, msg) /\ Authorized(app, msg)
      BY <2>2 DEF MayTag, Honest
    <3> HIDE DEF r
    <3> QED BY <3>1, <3>2, <3>3, <3>4 DEF Honest, HasHeader
  <2>3. CASE MayTag(msg, res) /\ msg.ifNoneMatch # Tag(res.body)
    <3>1. Honest(app, msg, With(res, Set({"etag"})))
      BY SmallHeaders, HonestWith
    <3> QED BY <3>1, <2>3 DEF LeaveEtag
  <2> QED BY <2>1, <2>2, <2>3
<1>2. Honest(app, msg, LeaveCompression(msg, res))
  <2> DEFINE none == \/ res.body = NoBody \/ HasHeader(res, "content-encoding")
                     \/ "gzip" \notin msg.accepts \/ ~ Compressible(res.body)
  <2>1. CASE none
    BY <2>1 DEF LeaveCompression
  <2>2. CASE ~ none
    <3> DEFINE hs == {h \in res.headers : h[1] # "vary"}
                      \cup {<<"content-encoding", "gzip">>, <<"vary", "accept-encoding">>}
               r == Reply(res.status, Gzipped(res.body), hs)
    <3>1. LeaveCompression(msg, res) = r
      BY <2>2 DEF LeaveCompression
    <3>2. Whole(res)
      BY DEF Honest
    <3>3. /\ Whole(r) /\ r.status = res.status /\ r.headers = hs
          /\ r.body.gzip = TRUE /\ r.body.of = res.body.of
      <4> HIDE DEF hs
      <4> QED BY <3>2, CompressedIs
    <3>4. HasHeader(r, "content-encoding") /\ (HasHeader(r, "handler") => HasHeader(res, "handler"))
      <4>1. <<"content-encoding", "gzip">> \in r.headers
        BY <3>3
      <4>2. <<"content-encoding", "gzip">>[1] = "content-encoding"
        OBVIOUS
      <4>3. \A h \in r.headers : h[1] = "handler" => h \in res.headers
        BY <3>3
      <4> QED BY <4>1, <4>2, <4>3 DEF HasHeader
    <3>5. \A h \in r.headers : h[1] = "allow-origin" => h \in res.headers
      BY <3>3
    <3> HIDE DEF r, hs
    <3>6. r.body.gzip = TRUE /\ r.body.of = res.body.of /\ "gzip" \in msg.accepts
      BY <3>3, <2>2
    <3>7. HasHeader(r, "handler") \/ r.status \in {200, 304} => Cleared(app, msg) /\ Authorized(app, msg)
      BY <3>3, <3>4 DEF Honest
    <3>8. \A h \in r.headers : h[1] = "allow-origin" => h \in CorsHeaders(app.origins, msg.origin)
      BY <3>5 DEF Honest
    <3>9. Honest(app, msg, r)
      BY <3>3, <3>4, <3>6, <3>7, <3>8 DEF Honest
    <3> QED BY <3>1, <3>9
  <2> QED BY <2>1, <2>2
<1>3. Honest(app, msg, With(res, Set({"x-ratelimit"}))) /\ Honest(app, msg, With(res, Set({"x-request-id"})))
  BY SmallHeaders, HonestWith
<1> QED BY <1>1, <1>2, <1>3, LeftHow

(* A plugin that is left keeps what a response has, or is an etag() with its 304. *)
LEMMA LeaveContinues ==
  ASSUME NEW msg, NEW plugin, NEW res, Whole(res)
  PROVE  LET r == LeavePlugin(plugin, msg, res) IN
         \/ plugin = "etag" /\ r.status = 304 /\ ~ HasHeader(r, "handler")
         \/ /\ Continues(res, r)
            /\ plugin \in {"requestId", "rateLimit"} => HasHeader(r, HeaderOf(plugin))
<1>1. ASSUME NEW n, n # "handler"
      PROVE  Continues(res, With(res, Set({n}))) /\ HasHeader(With(res, Set({n})), n)
  <2>1. PICK hs : hs = Set({n}) /\ hs = {<<n, "set">>} /\ \A h \in hs : h[1] = n
    BY OneHeader
  <2>2. With(res, hs).status = res.status /\ With(res, hs).headers = res.headers \cup hs
    BY WithHeaders
  <2>3. PICK w : w = With(res, Set({n})) /\ w.status = res.status /\ w.headers = res.headers \cup hs
    BY <2>1, <2>2
  <2>4. <<n, "set">> \in w.headers /\ <<n, "set">>[1] = n
    BY <2>1, <2>3
  <2>5. \A h \in w.headers : h \in res.headers \/ h[1] = n
    BY <2>1, <2>3
  <2> QED BY <1>1, <2>3, <2>4, <2>5 DEF Continues, HasHeader
<1>2. Continues(res, res)
  BY DEF Continues
<1>3. CASE plugin = "etag"
  <2>1. LeaveEtag(msg, res) \in {res, With(res, Set({"etag"})), Reply(304, NoBody, Set({"etag"}))}
    BY DEF LeaveEtag
  <2>2. /\ Reply(304, NoBody, Set({"etag"})).status = 304
        /\ ~ HasHeader(Reply(304, NoBody, Set({"etag"})), "handler")
    BY Unchanged, SmallHeaders DEF HasHeader
  <2>3. Continues(res, With(res, Set({"etag"})))
    BY <1>1
  <2> QED BY <1>2, <1>3, <2>1, <2>2, <2>3, LeftHow
<1>4. CASE plugin = "compression"
  <2> DEFINE hs == {h \in res.headers : h[1] # "vary"}
                    \cup {<<"content-encoding", "gzip">>, <<"vary", "accept-encoding">>}
             r == Reply(res.status, Gzipped(res.body), hs)
  <2>1. LeaveCompression(msg, res) \in {res, r}
    BY DEF LeaveCompression
  <2>2. r.status = res.status /\ r.headers = hs
    BY DEF Reply
  <2>3. \A h \in hs : h \in res.headers \/ h[1] # "handler"
    OBVIOUS
  <2>4. \A h \in res.headers : h[1] # "vary" => h \in hs
    OBVIOUS
  <2> HIDE DEF r, hs
  <2>5. Continues(res, r)
    BY <2>2, <2>3, <2>4 DEF Continues, HasHeader
  <2> QED BY <1>2, <1>4, <2>1, <2>5, LeftHow
<1>5. CASE plugin \in {"requestId", "rateLimit"}
  <2>1. HeaderOf(plugin) \in {"x-request-id", "x-ratelimit"}
        /\ LeavePlugin(plugin, msg, res) = With(res, Set({HeaderOf(plugin)}))
    BY <1>5, LeftHow DEF HeaderOf
  <2> QED BY <1>1, <2>1
<1> QED BY <1>2, <1>3, <1>4, <1>5, LeftHow

(* What a response carries, one that continues it carries too. *)
LEMMA BearsOn ==
  ASSUME NEW app, NEW msg, NEW n, NEW a, Bears(app, msg, a, n), NEW b, Continues(a, b)
  PROVE  Bears(app, msg, b, n)
<1>1. \A p : HeaderOf(p) # "vary"
  BY DEF HeaderOf
<1> QED BY <1>1 DEF Bears, Continues

(* The response and the one without If-None-Match stay apart in one way only. *)
LEMMA LeavePaired ==
  ASSUME NEW msg \in PluginRequests, NEW plugin, NEW res, Whole(res), NEW plain, Paired(res, plain)
  PROVE  Paired(LeavePlugin(plugin, msg, res), LeavePlugin(plugin, WithoutTag(msg), plain))
<1> DEFINE bare == WithoutTag(msg)
<1>1. bare.method = msg.method /\ bare.accepts = msg.accepts /\ bare.ifNoneMatch = None
  BY DEF WithoutTag, PluginRequests
<1>2. Whole(plain) /\ (plain.status = 200 => plain.body.of = "page")
  BY DEF Paired
<1> HIDE DEF bare
<1> DEFINE next == LeavePlugin(plugin, bare, plain)
<1>3. Whole(next) /\ (next.status = 200 => next.body.of = "page")
  <2>1. \A hs : /\ Whole(With(plain, hs)) /\ With(plain, hs).status = plain.status
                /\ With(plain, hs).body = plain.body
    BY <1>2, WithHeaders
  <2>2. /\ Whole(LeaveEtag(bare, plain)) /\ Whole(LeaveCompression(bare, plain))
        /\ LeaveEtag(bare, plain).status = 200 => LeaveEtag(bare, plain).body.of = "page"
        /\ LeaveCompression(bare, plain).status = 200 => LeaveCompression(bare, plain).body.of = "page"
    BY <1>2, LeaveWhole
  <2> QED BY <1>2, <2>1, <2>2, LeftHow DEF next
<1> HIDE DEF next
<1>4. LeaveCompression(bare, plain) = LeaveCompression(msg, plain)
  BY <1>1 DEF LeaveCompression
<1>5. <<"etag", "set">> \in Set({"etag"})
  BY SmallHeaders
<1>6. plain.status = 200 => plain.body # None
  <2>1. plain.body \in Texts
    BY <1>2 DEF Whole
  <2>2. plain.status = 200 => plain.body \in Bodies
    BY <1>2, <2>1 DEF Bodies, Texts, TextNames
  <2> QED BY <2>2, NoneAssumption
<1>7. LeaveEtag(bare, plain) = IF MayTag(msg, plain) THEN With(plain, Set({"etag"})) ELSE plain
  BY <1>1, <1>6 DEF LeaveEtag, MayTag, Tag
<1>8. \A n : HasHeader(plain, n) => HasHeader(With(plain, Set({"etag"})), n)
  BY <1>2, <1>5, WithHeaders DEF HasHeader
<1>9. HasHeader(With(plain, Set({"etag"})), "etag")
  <2>1. With(plain, Set({"etag"})).headers = plain.headers \cup Set({"etag"})
    BY <1>2, <1>5, WithHeaders
  <2>2. <<"etag", "set">>[1] = "etag"
    OBVIOUS
  <2> QED BY <2>1, <2>2, <1>5 DEF HasHeader
<1>10. With(plain, Set({"etag"})).status = plain.status
  BY <1>2, <1>5, WithHeaders
<1>13. next.status # 304
  <2>1. LeaveCompression(bare, plain).status = plain.status
    <3>1. \A b, hs : Reply(plain.status, b, hs).status = plain.status
      BY DEF Reply
    <3> QED BY <3>1 DEF LeaveCompression
  <2>2. \A hs : With(plain, hs).status = plain.status
    BY <1>2, WithHeaders
  <2> QED BY <2>1, <2>2, <1>7, LeftHow DEF next, Paired
<1>11. CASE res = plain
  <2>1. CASE plugin = "etag"
    <3>1. /\ LeavePlugin(plugin, msg, res) = LeaveEtag(msg, plain)
          /\ next = LeaveEtag(bare, plain)
      BY <2>1, <1>11, LeftHow DEF next
    <3>2. CASE MayTag(msg, plain) /\ msg.ifNoneMatch = Tag(plain.body)
      <4>1. LeaveEtag(msg, plain) = Reply(304, NoBody, Set({"etag"}))
        BY <3>2 DEF LeaveEtag
      <4>2. Reply(304, NoBody, Set({"etag"})).status = 304
        BY DEF Reply
      <4>3. With(plain, Set({"etag"})).status = 200
        BY <3>2, <1>10 DEF MayTag
      <4> QED BY <4>1, <4>2, <4>3, <3>1, <3>2, <1>3, <1>13, <1>7, <1>9 DEF Paired, bare, next
    <3>3. CASE ~ (MayTag(msg, plain) /\ msg.ifNoneMatch = Tag(plain.body))
      <4>1. LeaveEtag(msg, plain) = LeaveEtag(bare, plain)
        BY <3>3, <1>7 DEF LeaveEtag
      <4> QED BY <4>1, <3>1, <1>3, <1>13 DEF Paired, bare, next
    <3> QED BY <3>2, <3>3
  <2>2. CASE plugin # "etag"
    <3>1. LeavePlugin(plugin, msg, plain) = next
      BY <2>2, <1>4, LeftHow DEF next
    <3> QED BY <3>1, <1>11, <1>3, <1>13 DEF Paired, bare, next
  <2> QED BY <2>1, <2>2
<1>12. CASE res.status = 304 /\ plain.status = 200 /\ HasHeader(plain, "etag")
  <2>1. LeavePlugin(plugin, msg, res).status = 304
    <3>1. LeaveEtag(msg, res).status = 304
      BY <1>12 DEF LeaveEtag, MayTag
    <3>2. LeaveCompression(msg, res).status = 304
      BY <1>12 DEF LeaveCompression, Reply
    <3>3. With(res, Set({"x-ratelimit"})).status = 304 /\ With(res, Set({"x-request-id"})).status = 304
      BY <1>12, WithHeaders
    <3> QED BY <1>12, <3>1, <3>2, <3>3, LeftHow DEF next
  <2>2. next.status = 200 /\ HasHeader(next, "etag")
    <3>1. LeaveEtag(bare, plain).status = 200 /\ HasHeader(LeaveEtag(bare, plain), "etag")
      BY <1>12, <1>7, <1>9, <1>10
    <3>2. LeaveCompression(bare, plain).status = 200 /\ HasHeader(LeaveCompression(bare, plain), "etag")
      <4> DEFINE hs == {h \in plain.headers : h[1] # "vary"}
                        \cup {<<"content-encoding", "gzip">>, <<"vary", "accept-encoding">>}
                 r == Reply(plain.status, Gzipped(plain.body), hs)
      <4>1. LeaveCompression(bare, plain) \in {plain, r}
        BY DEF LeaveCompression
      <4>2. r.status = 200 /\ r.headers = hs
        BY <1>12 DEF Reply
      <4>3. PICK h \in plain.headers : h[1] = "etag"
        BY <1>12 DEF HasHeader
      <4>4. h \in hs
        BY <4>3
      <4> HIDE DEF hs, r
      <4> QED BY <4>1, <4>2, <4>3, <4>4, <1>12 DEF HasHeader
    <3>3. \A hs :
            With(plain, hs).status = 200 /\ HasHeader(With(plain, hs), "etag")
      BY <1>12, <1>2, WithHeaders DEF HasHeader
    <3>4. /\ With(plain, Set({"x-ratelimit"})).status = 200
          /\ HasHeader(With(plain, Set({"x-ratelimit"})), "etag")
          /\ With(plain, Set({"x-request-id"})).status = 200
          /\ HasHeader(With(plain, Set({"x-request-id"})), "etag")
      BY <3>3
    <3> QED BY <1>12, <3>1, <3>2, <3>4, LeftHow DEF next
  <2> QED BY <2>1, <2>2, <1>3, <1>13 DEF Paired, bare, next
<1> QED BY <1>11, <1>12 DEF Paired

(* What each plugin does with a request. *)
LEMMA EnteredHow ==
  ASSUME NEW app, NEW plugin, NEW msg, NEW st
  PROVE  /\ plugin = "csrf" => EnterPlugin(app, plugin, msg, st) = EnterCsrf(msg, st)
         /\ plugin = "rateLimit" => EnterPlugin(app, plugin, msg, st) = EnterRateLimit(msg, st)
         /\ plugin = "authentication" =>
              EnterPlugin(app, plugin, msg, st) = GoOn(Authenticating(app, msg, st))
         /\ plugin = "requestId" => EnterPlugin(app, plugin, msg, st) = GoOn(Identified(st))
         /\ plugin \notin {"csrf", "rateLimit", "authentication", "requestId"} =>
              EnterPlugin(app, plugin, msg, st) = GoOn(st)
<1>1. ASSUME plugin = "csrf" PROVE EnterPlugin(app, plugin, msg, st) = EnterCsrf(msg, st)
  BY <1>1, Zenon DEF EnterPlugin, Authenticating, Identified
<1>2. ASSUME plugin = "rateLimit" PROVE EnterPlugin(app, plugin, msg, st) = EnterRateLimit(msg, st)
  <2>1. plugin # "csrf"
    BY <1>2
  <2> QED BY <1>2, <2>1, Zenon DEF EnterPlugin, Authenticating, Identified
<1>3. ASSUME plugin = "authentication" PROVE EnterPlugin(app, plugin, msg, st) = GoOn(Authenticating(app, msg, st))
  <2>1. plugin # "csrf" /\ plugin # "rateLimit"
    BY <1>3
  <2> QED BY <1>3, <2>1, Zenon DEF EnterPlugin, Authenticating, Identified
<1>4. ASSUME plugin = "requestId" PROVE EnterPlugin(app, plugin, msg, st) = GoOn(Identified(st))
  <2>1. plugin # "csrf" /\ plugin # "rateLimit" /\ plugin # "authentication"
    BY <1>4
  <2> QED BY <1>4, <2>1, Zenon DEF EnterPlugin, Authenticating, Identified
<1>5. ASSUME plugin \notin {"csrf", "rateLimit", "authentication", "requestId"}
      PROVE  EnterPlugin(app, plugin, msg, st) = GoOn(st)
  <2>1. plugin # "csrf" /\ plugin # "rateLimit" /\ plugin # "authentication" /\ plugin # "requestId"
    BY <1>5
  <2> QED BY <1>5, <2>1, Zenon DEF EnterPlugin, Authenticating, Identified
<1> QED BY <1>1, <1>2, <1>3, <1>4, <1>5

(* The roles that authenticate() finds are those of a valid credential. *)
LEMMA WhoIsKnown ==
  ASSUME NEW app, NEW msg, app.schemes \in Seq(STRING), "authentication" \in ToSet(app.plugins),
         Authenticate(app.schemes, msg) # None
  PROVE  Known(app, msg, Authenticate(app.schemes, msg))
<1> DEFINE schemes == app.schemes
           I == {i \in 1..Len(schemes) : Accepts(schemes[i], msg)}
           m == SelectInSeq(schemes, LAMBDA s : Accepts(s, msg))
<1>1. m = IF I # {} THEN Min(I) ELSE 0
  BY DEF SelectInSeq
<1>2. I \in SUBSET Nat
  OBVIOUS
<1>3. Authenticate(schemes, msg) = IF m = 0 THEN None ELSE PrincipalBy(schemes[m], msg).roles
  BY DEF Authenticate
<1> HIDE DEF m
<1>4. m # 0 /\ I # {}
  BY <1>1, <1>3
<1>5. m \in I
  <2> HIDE DEF I
  <2> QED BY <1>1, <1>2, <1>4, LeastExists
<1>6. m \in DOMAIN schemes /\ Accepts(schemes[m], msg)
  BY <1>5
<1> DEFINE p == PrincipalBy(schemes[m], msg)
<1>7. p \in msg.credentials /\ p.scheme = schemes[m] /\ p.valid
  BY <1>6 DEF Accepts, PrincipalBy
<1>8. Authenticate(schemes, msg) = p.roles
  BY <1>3, <1>4
<1>9. p.scheme \in ToSet(schemes)
  BY <1>6, <1>7 DEF ToSet
<1> HIDE DEF p
<1> QED BY <1>7, <1>8, <1>9, Zenon DEF Known

(* What a wrapper does that goes on, and one that answers itself. *)
LEMMA WrapperEntered ==
  ASSUME NEW app, NEW msg, Apps(app), NEW n \in Nat, n + 1 \in DOMAIN app.plugins, NEW st,
         st \in PassingStates(st.principal),
         st.principal # None => Known(app, msg, st.principal),
         PassedSoFar(app, msg, n, st)
  PROVE  LET e == EnterPlugin(app, app.plugins[n + 1], msg, st) IN
         IF e.short THEN Denied(app, msg, e.response)
         ELSE /\ e.st \in PassingStates(e.st.principal)
              /\ e.st.principal # None => Known(app, msg, e.st.principal)
              /\ PassedSoFar(app, msg, n + 1, e.st)
<1> DEFINE plugin == app.plugins[n + 1]
           e == EnterPlugin(app, plugin, msg, st)
           Goes(s) == /\ s \in PassingStates(s.principal)
                      /\ s.principal # None => Known(app, msg, s.principal)
                      /\ PassedSoFar(app, msg, n + 1, s)
<1>1. \A s : GoOn(s).short = FALSE /\ GoOn(s).st = s
  BY DEF GoOn
<1>2. \A r : Short(r).short = TRUE /\ Short(r).response = r
  BY DEF Short
<1>3. ASSUME NEW s, st.minted => s.minted,
             plugin = "csrf" /\ msg.method \notin SafeMethods =>
               msg.cookie # "none" /\ msg.cookie = msg.sent,
             plugin = "csrf" /\ Tokenless(msg) => s.minted,
             plugin = "rateLimit" => ~ msg.overLimit
      PROVE  PassedSoFar(app, msg, n + 1, s)
  <2>1. \A name : Behind(app, n + 1, name) <=> Behind(app, n, name) \/ plugin = name
    BY DEF Behind
  <2> QED BY <1>3, <2>1 DEF PassedSoFar
<1>4. SUFFICES \/ \E r : e = Short(r) /\ Denied(app, msg, r)
               \/ \E s : e = GoOn(s) /\ Goes(s)
  <2> HIDE DEF e, Goes
  <2>1. ASSUME NEW r, e = Short(r), Denied(app, msg, r) PROVE e.short /\ Denied(app, msg, e.response)
    BY <2>1, <1>2
  <2>2. ASSUME NEW s, e = GoOn(s), Goes(s) PROVE ~ e.short /\ Goes(e.st)
    <3>1. e.st = s /\ e.short = FALSE
      BY <2>2, <1>1
    <3> QED BY <3>1, <2>2
  <2> QED BY <1>4, <2>1, <2>2 DEF e, Goes
<1>5. plugin \notin {"csrf", "rateLimit"} => Goes(st)
  BY <1>3
<1>6. CASE plugin = "csrf"
  <2>1. e = EnterCsrf(msg, st)
    BY <1>6, EnteredHow
  <2>2. CASE msg.method \in SafeMethods
    <3> DEFINE s == [st EXCEPT !.minted = @ \/ msg.cookie = "none"]
    <3>1. e = GoOn(s)
      BY <2>1, <2>2 DEF EnterCsrf
    <3>2. /\ s \in PassingStates(s.principal) /\ s.principal = st.principal
          /\ s.minted = (st.minted \/ msg.cookie = "none")
      BY DEF PassingStates
    <3> HIDE DEF s
    <3>3. PassedSoFar(app, msg, n + 1, s)
      BY <3>2, <2>2, <1>3, <1>6 DEF Tokenless
    <3> QED BY <3>1, <3>2, <3>3
  <2>3. CASE msg.method \notin SafeMethods /\ CsrfPasses(msg)
    <3>1. e = GoOn(st)
      BY <2>1, <2>3 DEF EnterCsrf
    <3>2. PassedSoFar(app, msg, n + 1, st)
      BY <2>3, <1>3, <1>6 DEF CsrfPasses, Tokenless
    <3> QED BY <3>1, <3>2
  <2>4. CASE msg.method \notin SafeMethods /\ ~ CsrfPasses(msg)
    <3>1. e = Short(Reply(403, Body("Forbidden"), {}))
      BY <2>1, <2>4 DEF EnterCsrf
    <3>2. PICK status \in Refusals, text \in TextNames :
            status = 403 /\ text = "Forbidden"
      BY DEF TextNames, Refusals
    <3>5. Harmless(app, msg, {})
      BY DEF Harmless
    <3>3. PICK hs : hs = {} /\ Harmless(app, msg, hs)
      BY <3>5
    <3>4. Denied(app, msg, Reply(status, Body(text), hs))
      BY <3>3, HonestReply
    <3> QED BY <3>1, <3>2, <3>3, <3>4
  <2> QED BY <2>2, <2>3, <2>4
<1>7. CASE plugin = "rateLimit"
  <2> DEFINE names == {"retry-after", "x-ratelimit"}
  <2>1. e = EnterRateLimit(msg, st)
    BY <1>7, EnteredHow
  <2>2. CASE ~ msg.overLimit
    <3>1. e = GoOn(st)
      BY <2>1, <2>2 DEF EnterRateLimit
    <3>2. PassedSoFar(app, msg, n + 1, st)
      BY <2>2, <1>3, <1>7
    <3> QED BY <3>1, <3>2
  <2>3. CASE msg.overLimit
    <3>1. e = Short(Reply(429, Body("Too Many Requests"), Set(names)))
      BY <2>1, <2>3 DEF EnterRateLimit
    <3>2. PICK status \in Refusals, text \in TextNames :
            status = 429 /\ text = "Too Many Requests"
      BY DEF TextNames, Refusals
    <3>3. PICK hs : hs = Set(names)
      OBVIOUS
    <3>4. \A h \in hs : h[1] \in names
      BY <3>3, NamedHeaders
    <3>6. Harmless(app, msg, hs)
      BY <3>4 DEF Harmless
    <3>5. Denied(app, msg, Reply(status, Body(text), hs))
      BY <3>6, HonestReply
    <3> HIDE DEF names
    <3> QED BY <3>1, <3>2, <3>3, <3>5
  <2> QED BY <2>2, <2>3
<1>8. CASE plugin = "authentication"
  <2>8. e = GoOn(Authenticating(app, msg, st))
    BY <1>8, EnteredHow
  <2> DEFINE p == Authenticate(app.schemes, msg)
             s == Authenticating(app, msg, st)
  <2>1. e = GoOn(s)
    BY <2>8
  <2>2. "authentication" \in ToSet(app.plugins) /\ app.schemes \in Seq(STRING)
    BY <1>8 DEF ToSet, Apps
  <2>3. p # None => Known(app, msg, p)
    BY <2>2, WhoIsKnown
  <2> HIDE DEF p
  <2>4. s = IF p = None THEN st ELSE [st EXCEPT !.principal = p]
    BY DEF Authenticating, p
  <2>5. s \in PassingStates(s.principal)
        /\ s.principal = (IF p = None THEN st.principal ELSE p) /\ s.minted = st.minted
    BY <2>4 DEF PassingStates
  <2> HIDE DEF s
  <2>6. PassedSoFar(app, msg, n + 1, s)
    BY <2>5, <1>3, <1>8
  <2> QED BY <2>1, <2>3, <2>5, <2>6
<1>9. CASE plugin = "requestId"
  <2> DEFINE s == Identified(st)
  <2>1. e = GoOn(s)
    BY <1>9, EnteredHow
  <2>2. s \in PassingStates(s.principal) /\ s.principal = st.principal /\ s.minted = st.minted
    BY DEF Identified, PassingStates
  <2> HIDE DEF s
  <2>3. PassedSoFar(app, msg, n + 1, s)
    BY <2>2, <1>3, <1>9
  <2> QED BY <2>1, <2>2, <2>3
<1>10. CASE plugin \notin {"csrf", "rateLimit", "authentication", "requestId"}
  <2>1. e = GoOn(st)
    BY <1>10, EnteredHow
  <2> QED BY <2>1, <1>5, <1>10
<1> QED BY <1>6, <1>7, <1>8, <1>9, <1>10

(* The answer of the guard and the handler. *)
LEMMA VerdictIs ==
  ASSUME NEW app, Apps(app), NEW principal
  PROVE  /\ Guarded(app, principal) \in {200, 401, 403}
         /\ Guarded(app, principal) = 200 /\ app.guard # "open" => principal # None
         /\ Guarded(app, principal) = 200 /\ app.guard = "role" => principal \cap app.roles # {}
<1>1. CASE app.guard = "open"
  <2>1. Guarded(app, principal) = 200
    BY <1>1, Zenon DEF Guarded
  <2> QED BY <2>1, <1>1
<1>2. CASE app.guard = "authenticated"
  <2>1. app.guard # "open"
    BY <1>2
  <2>2. Guarded(app, principal) = RequireAuth(principal)
    BY <2>1, <1>2, Zenon DEF Guarded
  <2> QED BY <2>2, <1>2 DEF RequireAuth, Defined
<1>3. CASE app.guard = "role"
  <2>1. app.guard # "open" /\ app.guard # "authenticated"
    BY <1>3
  <2>2. Guarded(app, principal) = ClaimGuard(principal, app.roles)
    BY <2>1, <1>3, Zenon DEF Guarded
  <2> QED BY <2>2, <1>3 DEF ClaimGuard, Defined
<1> QED BY <1>1, <1>2, <1>3 DEF Apps

(* What the route answers to a request that came that far. *)
LEMMA RouteSettled ==
  ASSUME NEW app, NEW msg, Apps(app), NEW st,
         st.principal # None => Known(app, msg, st.principal),
         Cleared(app, msg)
  PROVE  /\ Given(app, msg, SettleRequest(app, msg, st))
         /\ st.minted => HasHeader(SettleRequest(app, msg, st), "set-cookie")
<1> DEFINE verdict == Guarded(app, st.principal)
           ok == Reply(200, Body("page"), Set({"handler"}) \cup {<<"vary", "handler">>})
           settled == CASE verdict = 401 -> Reply(401, Body("Unauthorized"), {})
                        [] verdict = 403 -> Reply(403, Body("Forbidden"), {})
                        [] OTHER -> ok
           cookies == IF st.minted THEN Set({"set-cookie"}) ELSE {}
<1>1. SettleRequest(app, msg, st) = With(settled, cookies)
  BY DEF SettleRequest
<1>2. verdict \in {200, 401, 403}
  BY VerdictIs
<1>3. Harmless(app, msg, {})
  BY DEF Harmless
<1>4. ASSUME NEW status \in Refusals, NEW text \in TextNames
      PROVE  Given(app, msg, Reply(status, Body(text), {}))
  <2>1. PICK hs : hs = {} /\ Harmless(app, msg, hs)
    BY <1>3
  <2>2. Denied(app, msg, Reply(status, Body(text), hs))
    BY <2>1, HonestReply
  <2> QED BY <2>1, <2>2 DEF Denied
<1>5. ASSUME verdict # 200 PROVE Given(app, msg, settled)
  <2>1. PICK status \in Refusals, text \in TextNames : settled = Reply(status, Body(text), {})
    <3>1. CASE verdict = 401
      <4>3. verdict # 403
        BY <3>1
      <4>1. settled = Reply(401, Body("Unauthorized"), {})
        BY <3>1, <4>3, Zenon
      <4>2. 401 \in Refusals /\ "Unauthorized" \in TextNames
        BY DEF Refusals, TextNames
      <4> HIDE DEF settled
      <4> QED BY <4>1, <4>2
    <3>2. CASE verdict = 403
      <4>1. verdict # 401
        BY <3>2
      <4>2. settled = Reply(403, Body("Forbidden"), {})
        BY <3>2, <4>1, Zenon
      <4>3. 403 \in Refusals /\ "Forbidden" \in TextNames
        BY DEF Refusals, TextNames
      <4> HIDE DEF settled
      <4> QED BY <4>2, <4>3
    <3> QED BY <3>1, <3>2, <1>2, <1>5
  <2> HIDE DEF settled
  <2> QED BY <2>1, <1>4
<1>6. ASSUME verdict = 200 PROVE Given(app, msg, settled)
  <2>1. verdict # 401 /\ verdict # 403
    BY <1>6
  <2>2. settled = ok
    BY <2>1, Zenon
  <2>3. Authorized(app, msg)
    <3>1. SUFFICES ASSUME app.guard # "open" PROVE Authorized(app, msg)
      BY DEF Authorized
    <3>2. Known(app, msg, st.principal) /\ (app.guard = "role" => st.principal \cap app.roles # {})
      BY <3>1, <1>6, VerdictIs
    <3> QED BY <3>2 DEF Known, Authorized
  <2>4. PICK b \in Texts : b = Body("page") /\ b.of = "page" /\ b.gzip = FALSE
    <3>1. PICK t \in TextNames : t = "page"
      BY DEF TextNames
    <3> QED BY <3>1, BodyIs
  <2>5. PICK hs : hs = Set({"handler"}) \cup {<<"vary", "handler">>}
    OBVIOUS
  <2>6. PICK n \in Nat : n = 200
    OBVIOUS
  <2> DEFINE r == Reply(n, b, hs)
  <2>7. Whole(r) /\ r.status = n /\ r.headers = hs /\ r.body = b
    BY Replies
  <2>8. \A h \in hs : h[1] \in {"handler", "vary"}
    <3>1. \A h \in Set({"handler"}) : h[1] = "handler"
      BY OneHeader
    <3>2. <<"vary", "handler">>[1] = "vary"
      OBVIOUS
    <3> QED BY <3>1, <3>2, <2>5
  <2> HIDE DEF r
  <2>9. ~ HasHeader(r, "content-encoding") /\ \A h \in r.headers : h[1] # "allow-origin"
    BY <2>7, <2>8 DEF HasHeader
  <2>10. Given(app, msg, r)
    BY <2>3, <2>4, <2>6, <2>7, <2>9 DEF Honest, Given
  <2>11. ok = r
    BY <2>4, <2>5, <2>6 DEF r
  <2> HIDE DEF ok, settled
  <2> QED BY <2>2, <2>10, <2>11
<1> HIDE DEF settled, verdict
<1>7. Given(app, msg, settled)
  BY <1>5, <1>6
<1>8. \A h \in cookies : h[1] \notin {"content-encoding", "handler", "allow-origin"}
  <2>1. \A h \in Set({"set-cookie"}) : h[1] = "set-cookie"
    BY OneHeader
  <2> QED BY <2>1
<1>11. st.minted => HasHeader(With(settled, cookies), "set-cookie")
  <2>1. With(settled, cookies).headers = settled.headers \cup cookies
    BY <1>7, WithHeaders DEF Given, Honest
  <2>2. cookies = IF st.minted THEN {<<"set-cookie", "set">>} ELSE {}
    BY OneHeader
  <2>3. <<"set-cookie", "set">>[1] = "set-cookie"
    OBVIOUS
  <2> QED BY <2>1, <2>2, <2>3 DEF HasHeader
<1> HIDE DEF cookies
<1>9. Honest(app, msg, With(settled, cookies))
  BY <1>7, <1>8, HonestWith DEF Given
<1>10. With(settled, cookies).status # 304
  BY <1>7, WithHeaders DEF Given, Honest
<1> QED BY <1>1, <1>9, <1>10, <1>11 DEF Given

(* The response hooks keep the response honest and add their headers. *)
LEMMA HooksHonest ==
  ASSUME NEW app, NEW msg, NEW res, Honest(app, msg, res)
  PROVE  /\ Honest(app, msg, ResponseHooks(app, msg, res))
         /\ Continues(res, ResponseHooks(app, msg, res))
         /\ CorsHeaders(app.origins, msg.origin) \cup SecurityHeaders(app.off)
              \subseteq ResponseHooks(app, msg, res).headers
<1> DEFINE cors == CorsHeaders(app.origins, msg.origin)
           security == SecurityHeaders(app.off)
           w == With(res, cors \cup security)
<1>1. ResponseHooks(app, msg, res) = w
  BY DEF ResponseHooks
<1>2. /\ Whole(w) /\ w.status = res.status /\ w.body = res.body
      /\ w.headers = res.headers \cup (cors \cup security)
  BY WithHeaders DEF Honest
<1>3. \A h \in security : h[1] \in SecurityNames
  <2>1. PICK names : names = SecurityNames \ app.off
    OBVIOUS
  <2>2. security = Set(names)
    BY <2>1 DEF SecurityHeaders, SecurityNames
  <2>3. \A h \in Set(names) : h[1] \in names
    BY NamedHeaders
  <2> QED BY <2>1, <2>2, <2>3
<1>4. \A h \in cors : h[1] \in {"allow-origin", "vary"}
  <2>1. \A v : <<"allow-origin", v>>[1] = "allow-origin" /\ <<"vary", v>>[1] = "vary"
    OBVIOUS
  <2> QED BY <2>1 DEF CorsHeaders
<1>5. \A h \in security : h[1] \notin {"content-encoding", "handler", "allow-origin"}
  BY <1>3 DEF SecurityNames
<1> HIDE DEF w, cors, security
<1>6. HasHeader(w, "content-encoding") <=> HasHeader(res, "content-encoding")
  BY <1>2, <1>4, <1>5 DEF HasHeader
<1>7. HasHeader(w, "handler") <=> HasHeader(res, "handler")
  BY <1>2, <1>4, <1>5 DEF HasHeader
<1>8. \A h \in w.headers : h[1] = "allow-origin" => h \in cors
  <2>1. \A h \in res.headers : h[1] = "allow-origin" => h \in cors
    BY DEF Honest, cors
  <2> QED BY <1>2, <1>5, <2>1
<1>9. HasHeader(w, "handler") \/ w.status \in {200, 304} => Cleared(app, msg) /\ Authorized(app, msg)
  BY <1>2, <1>7 DEF Honest
<1>10. Honest(app, msg, w)
  BY <1>2, <1>6, <1>8, <1>9 DEF Honest, cors
<1>11. Continues(res, w)
  BY <1>2, <1>7 DEF Continues, HasHeader
<1> QED BY <1>1, <1>2, <1>10, <1>11 DEF cors, security

(* The answer on its way *)
LEMMA Blank ==
  ASSUME NEW app, NEW msg, NEW status \in Refusals, NEW text \in TextNames
  PROVE  Denied(app, msg, Reply(status, Body(text), {}))
<1>1. Harmless(app, msg, {})
  BY DEF Harmless
<1>2. PICK hs : hs = {} /\ Harmless(app, msg, hs)
  BY <1>1
<1>3. Denied(app, msg, Reply(status, Body(text), hs))
  BY <1>2, HonestReply
<1> QED BY <1>2, <1>3

(* A response is the one compression() would make of itself. *)
LEMMA SamePaired ==
  ASSUME NEW app, NEW msg, NEW res, Given(app, msg, res)
  PROVE  Paired(res, res)
BY DEF Given, Honest, Paired

(* The record of a request that entered one more plugin. *)
LEMMA PassingEntered ==
  ASSUME NEW S, NEW A, NEW B, NEW x \in Passings(S, A, B), NEW n \in Nat, NEW st \in S
  PROVE  LET y == Entering(x, n, st) IN
         /\ y \in Passings(S, A, B) /\ y.phase = x.phase /\ y.entered = n /\ y.st = st
         /\ y.response = x.response /\ y.plain = x.plain
BY DEF Passings, Entering

(* The record of a request that left one more plugin. *)
LEMMA PassingLeft ==
  ASSUME NEW S, NEW A, NEW B, NEW x \in Passings(S, A, B), NEW n \in Nat, NEW a \in A, NEW b \in B
  PROVE  LET y == Leaving(x, n, a, b) IN
         /\ y \in Passings(S, A, B) /\ y.phase = x.phase /\ y.entered = n /\ y.st = x.st
         /\ y.response = a /\ y.plain = b
BY DEF Passings, Leaving

(* The record of a request with a response. *)
LEMMA PassingAnswered ==
  ASSUME NEW S, NEW A, NEW B, NEW x \in Passings(S, A, B), NEW a \in A, NEW b \in B,
         NEW p \in {"received", "entering", "leaving", "answered"}
  PROVE  LET y == Answering(x, p, a, b) IN
         /\ y \in Passings(S, A, B) /\ y.phase = p /\ y.entered = x.entered /\ y.st = x.st
         /\ y.response = a /\ y.plain = b
BY DEF Passings, Answering

(* One that is on its way still is with another response. *)
LEMMA WayTaken ==
  ASSUME NEW x, OnItsWay(x)
  PROVE  /\ x.entered \in Nat /\ x.st \in PassingStates(x.st.principal)
         /\ \A S, A, B : x.st \in S /\ x.response \in A /\ x.plain \in B => x \in Passings(S, A, B)
BY DEF OnItsWay, Passings

(* A request stays on its way with its state. *)
LEMMA WayGoesOn ==
  ASSUME NEW S, NEW A, NEW B, NEW y \in Passings(S, A, B), y.st \in PassingStates(y.st.principal)
  PROVE  OnItsWay(y)
BY DEF OnItsWay, Passings

(* What changes when a response is made. *)
LEMMA RespondedIs ==
  ASSUME NEW x, OnItsWay(x), NEW phase \in {"received", "entering", "leaving", "answered"},
         NEW res, NEW plain
  PROVE  LET y == Answering(x, phase, res, plain) IN
         /\ OnItsWay(y) /\ y.phase = phase /\ y.entered = x.entered /\ y.st = x.st
         /\ y.response = res /\ y.plain = plain
<1> DEFINE S == PassingStates(x.st.principal)
           A == {x.response, res}
           B == {x.plain, plain}
<1>1. x \in Passings(S, A, B) /\ x.st \in S
  <2>1. x.st \in S
    BY WayTaken
  <2>2. x.response \in A /\ x.plain \in B
    OBVIOUS
  <2> HIDE DEF S, A, B
  <2> QED BY <2>1, <2>2, WayTaken
<1>2. PICK y : y = Answering(x, phase, res, plain)
  OBVIOUS
<1>3. res \in A /\ plain \in B
  OBVIOUS
<1>4. /\ y \in Passings(S, A, B) /\ y.phase = phase /\ y.entered = x.entered /\ y.st = x.st
      /\ y.response = res /\ y.plain = plain
  <2> HIDE DEF S, A, B
  <2> QED BY <1>1, <1>2, <1>3, PassingAnswered
<1>5. y.st \in PassingStates(y.st.principal)
  BY <1>1, <1>4
<1> HIDE DEF S, A, B
<1>6. OnItsWay(y)
  BY <1>4, <1>5, WayGoesOn
<1> QED BY <1>2, <1>4, <1>6

(* What changes when a plugin is left. *)
LEMMA LeftIs ==
  ASSUME NEW x, OnItsWay(x), NEW n \in Nat, NEW res, NEW plain
  PROVE  LET y == Leaving(x, n, res, plain) IN
         /\ OnItsWay(y) /\ y.phase = x.phase /\ y.entered = n /\ y.st = x.st
         /\ y.response = res /\ y.plain = plain
<1> DEFINE S == PassingStates(x.st.principal)
           A == {x.response, res}
           B == {x.plain, plain}
<1>1. x \in Passings(S, A, B) /\ x.st \in S
  <2>1. x.st \in S
    BY WayTaken
  <2>2. x.response \in A /\ x.plain \in B
    OBVIOUS
  <2> HIDE DEF S, A, B
  <2> QED BY <2>1, <2>2, WayTaken
<1>2. PICK y : y = Leaving(x, n, res, plain)
  OBVIOUS
<1>3. res \in A /\ plain \in B
  OBVIOUS
<1>4. /\ y \in Passings(S, A, B) /\ y.phase = x.phase /\ y.entered = n /\ y.st = x.st
      /\ y.response = res /\ y.plain = plain
  <2> HIDE DEF S, A, B
  <2> QED BY <1>1, <1>2, <1>3, PassingLeft
<1>5. y.st \in PassingStates(y.st.principal)
  BY <1>1, <1>4
<1> HIDE DEF S, A, B
<1>6. OnItsWay(y)
  BY <1>4, <1>5, WayGoesOn
<1> QED BY <1>2, <1>4, <1>6

(* What changes when a plugin is entered. *)
LEMMA EnteredIs ==
  ASSUME NEW x, OnItsWay(x), NEW n \in Nat, NEW p, NEW st \in PassingStates(p)
  PROVE  LET y == Entering(x, n, st) IN
         /\ OnItsWay(y) /\ y.phase = x.phase /\ y.entered = n /\ y.st = st
         /\ y.response = x.response /\ y.plain = x.plain
<1> DEFINE S == {x.st, st}
           A == {x.response}
           B == {x.plain}
<1>1. x \in Passings(S, A, B)
  <2>1. x.st \in S /\ x.response \in A /\ x.plain \in B
    OBVIOUS
  <2> HIDE DEF S, A, B
  <2> QED BY <2>1, WayTaken
<1>2. PICK y : y = Entering(x, n, st)
  OBVIOUS
<1>3. st \in S
  OBVIOUS
<1> HIDE DEF S, A, B
<1>4. /\ y \in Passings(S, A, B) /\ y.phase = x.phase /\ y.entered = n /\ y.st = st
      /\ y.response = x.response /\ y.plain = x.plain
  BY <1>1, <1>2, <1>3, PassingEntered
<1>6. st.principal = p
  BY DEF PassingStates
<1>5. OnItsWay(y)
  BY <1>4, <1>6, WayGoesOn
<1> QED BY <1>2, <1>4, <1>5

(* A response that may be given keeps the invariant. *)
LEMMA RespondsWell ==
  ASSUME NEW app, NEW msg, NEW x, PassingInv(app, msg, x), NEW res, Given(app, msg, res),
         HasHeader(res, "handler") => Bears(app, msg, res, x.entered)
  PROVE  PassingInv(app, msg, Responded(x, "leaving", res))
<1>1. OnItsWay(x)
  BY DEF PassingInv
<1>2. PICK phase \in {"received", "entering", "leaving", "answered"} : phase = "leaving"
  OBVIOUS
<1>3. PICK y : y = Answering(x, phase, res, res)
  OBVIOUS
<1>4. /\ OnItsWay(y) /\ y.phase = phase /\ y.entered = x.entered /\ y.st = x.st
      /\ y.response = res /\ y.plain = res
  BY <1>1, <1>3, RespondedIs
<1>6. Bears(app, msg, res, x.entered)
  BY DEF Bears, Given
<1>5. PassingInv(app, msg, y)
  BY <1>2, <1>4, <1>6, SamePaired DEF PassingInv, Given
<1> QED BY <1>2, <1>3, <1>5 DEF Responded, Answering

(* The invariant about plugins holds when it is asked. *)
LEMMA PluginsStart == ASSUME Ask, Put PROVE PluginsInv
<1> SUFFICES ASSUME Of("plugins") PROVE PluginsInv
  BY DEF PluginsInv
<1> DEFINE app == question.app
           msg == question.req
           res == Reply(0, NoBody, {})
<1>1. answer = Received
  BY Zenon DEF Ask, Begin, Of
<1>2. Given(app, msg, res)
  <2>1. PICK status \in Refusals, text \in TextNames : status = 0 /\ text = "none"
    BY DEF Refusals, TextNames
  <2>2. Denied(app, msg, Reply(status, Body(text), {}))
    BY Blank
  <2> QED BY <2>1, <2>2 DEF NoBody, Denied
<1>3. Apps(app)
  BY PluginQuestion
<1>4. /\ answer.phase = "received" /\ answer.entered = 0 /\ answer.st.principal = None
      /\ answer.response = res /\ answer.plain = res
  BY <1>1 DEF Received
<1>5. OnItsWay(answer)
  <2> DEFINE st == [principal |-> None, id |-> FALSE, minted |-> FALSE]
  <2>1. st \in PassingStates(None)
    BY DEF PassingStates
  <2>2. answer = [phase |-> "received", entered |-> 0, st |-> st, response |-> res, plain |-> res]
    BY <1>1 DEF Received
  <2> HIDE DEF st, res
  <2>3. answer.st = st /\ answer.st.principal = None
    BY <1>4, <2>2
  <2> QED BY <2>1, <2>2, <2>3, <1>4 DEF OnItsWay, Passings
<1>6. Len(app.plugins) \in Nat
  BY <1>3 DEF Apps
<1>7. PassedSoFar(app, msg, 0, answer.st)
  BY DEF PassedSoFar, Behind
<1> HIDE DEF app, msg, res
<1>8. PassingInv(app, msg, answer)
  BY <1>2, <1>4, <1>5, <1>6, <1>7, SamePaired DEF PassingInv, Given
<1> QED BY <1>8 DEF PluginsInv, app, msg

(* The request hooks keep the invariant. *)
LEMMA RequestHooksKeep ==
  ASSUME NEW app, NEW msg, NEW x, PassingInv(app, msg, x), x.phase = "received"
  PROVE  PassingInv(app, msg, RequestHooks(app, msg, x))
<1>4. ASSUME NEW res, Denied(app, msg, res) PROVE PassingInv(app, msg, Responded(x, "leaving", res))
  BY <1>4, RespondsWell DEF Denied
<1>1. CASE BodyTooLarge(app, msg)
  <2>1. PICK status \in Refusals, text \in TextNames : status = 413 /\ text = "Payload Too Large"
    BY DEF Refusals, TextNames
  <2>2. Denied(app, msg, Reply(status, Body(text), {}))
    BY Blank
  <2>3. PICK res : res = Reply(413, Body("Payload Too Large"), {}) /\ Denied(app, msg, res)
    BY <2>1, <2>2
  <2>4. RequestHooks(app, msg, x) = Responded(x, "leaving", res)
    BY <1>1, <2>3 DEF RequestHooks
  <2>5. PassingInv(app, msg, Responded(x, "leaving", res))
    BY <2>3, <1>4, Zenon
  <2> QED BY <2>4, <2>5
<1>2. CASE ~ BodyTooLarge(app, msg) /\ msg.preflight
  <2>1. PICK status \in Refusals, text \in TextNames : status = 204 /\ text = "none"
    BY DEF Refusals, TextNames
  <2>2. PICK hs : hs = CorsHeaders(app.origins, msg.origin)
    OBVIOUS
  <2>3. Harmless(app, msg, hs)
    <3>1. \A v : <<"allow-origin", v>>[1] = "allow-origin" /\ <<"vary", v>>[1] = "vary"
      OBVIOUS
    <3>2. \A h \in hs : h[1] \in {"allow-origin", "vary"}
      BY <2>2, <3>1 DEF CorsHeaders
    <3> QED BY <2>2, <3>2 DEF Harmless
  <2>4. Denied(app, msg, Reply(status, Body(text), hs))
    BY <2>3, HonestReply
  <2>5. PICK res : res = Reply(204, NoBody, CorsHeaders(app.origins, msg.origin)) /\ Denied(app, msg, res)
    BY <2>1, <2>2, <2>4 DEF NoBody
  <2>6. RequestHooks(app, msg, x) = Responded(x, "leaving", res)
    BY <1>2, <2>5 DEF RequestHooks
  <2> QED BY <2>5, <2>6, <1>4
<1>3. CASE ~ BodyTooLarge(app, msg) /\ ~ msg.preflight
  <2> DEFINE y == [x EXCEPT !.phase = "entering"]
  <2>1. RequestHooks(app, msg, x) = y
    BY <1>3 DEF RequestHooks
  <2>2. /\ OnItsWay(y) /\ y.phase = "entering" /\ y.entered = x.entered /\ y.st = x.st
        /\ y.response = x.response /\ y.plain = x.plain
    BY DEF OnItsWay, PassingInv, Passings
  <2> HIDE DEF y
  <2>3. PassingInv(app, msg, y)
    BY <2>2, <1>3 DEF PassingInv
  <2> QED BY <2>1, <2>3
<1> QED BY <1>1, <1>2, <1>3

(* Entering a plugin keeps the invariant. *)
LEMMA EnterNextKeeps ==
  ASSUME NEW app, Apps(app), NEW msg, NEW x, PassingInv(app, msg, x), x.phase = "entering",
         x.entered < Len(app.plugins)
  PROVE  PassingInv(app, msg, EnterNext(app, msg, x))
<1>1. OnItsWay(x) /\ x.entered \in Nat
  BY WayTaken DEF PassingInv
<1>8. PICK n \in Nat : n = x.entered
  BY <1>1
<1>2. PICK st : n = x.entered /\ st = x.st
  BY <1>8
<1>3. /\ n + 1 \in DOMAIN app.plugins /\ PassedSoFar(app, msg, n, st)
      /\ st \in PassingStates(st.principal)
      /\ st.principal # None => Known(app, msg, st.principal)
  <2>1. Len(app.plugins) \in Nat /\ DOMAIN app.plugins = 1..Len(app.plugins)
    BY DEF Apps
  <2>2. n + 1 \in DOMAIN app.plugins
    BY <1>2, <2>1
  <2> QED BY <2>2, <1>1, <1>2, WayTaken DEF PassingInv
<1>4. PICK e : e = EnterPlugin(app, app.plugins[n + 1], msg, st)
  OBVIOUS
<1>5. IF e.short THEN Denied(app, msg, e.response)
      ELSE /\ e.st \in PassingStates(e.st.principal)
           /\ e.st.principal # None => Known(app, msg, e.st.principal)
           /\ PassedSoFar(app, msg, n + 1, e.st)
  BY <1>3, <1>4, WrapperEntered
<1>6. CASE e.short
  <2>1. EnterNext(app, msg, x) = Responded(x, "leaving", e.response)
    BY <1>2, <1>4, <1>6 DEF EnterNext
  <2> QED BY <2>1, <1>5, <1>6, RespondsWell DEF Denied
<1>7. CASE ~ e.short
  <2>2. PICK new : new = e.st
    OBVIOUS
  <2>3. new \in PassingStates(new.principal)
    BY <2>2, <1>5, <1>7
  <2>8. PICK m \in Nat : m = n + 1
    OBVIOUS
  <2>9. PICK y : y = Entering(x, m, new)
    OBVIOUS
  <2>1. EnterNext(app, msg, x) = y
    BY <1>2, <1>4, <1>7, <2>2, <2>8, <2>9 DEF EnterNext, Entering
  <2>4. /\ OnItsWay(y) /\ y.phase = x.phase /\ y.entered = m /\ y.st = new
        /\ y.response = x.response /\ y.plain = x.plain
    <3>1. LET z == Entering(x, m, new) IN
          /\ OnItsWay(z) /\ z.phase = x.phase /\ z.entered = m /\ z.st = new
          /\ z.response = x.response /\ z.plain = x.plain
      BY <1>1, <2>3, EnteredIs
    <3> QED BY <3>1, <2>9
  <2>6. n + 1 <= Len(app.plugins)
    BY <1>2 DEF Apps
  <2>7. PassingInv(app, msg, y)
    BY <2>2, <2>4, <2>6, <2>8, <1>5, <1>7 DEF PassingInv
  <2> QED BY <2>1, <2>7
<1> QED BY <1>6, <1>7

(* The route keeps the invariant. *)
LEMMA CallRouteKeeps ==
  ASSUME NEW app, Apps(app), NEW msg, NEW x, PassingInv(app, msg, x), x.phase = "entering",
         x.entered = Len(app.plugins)
  PROVE  PassingInv(app, msg, Responded(x, "leaving", SettleRequest(app, msg, x.st)))
<1>1. /\ Cleared(app, msg)
      /\ "csrf" \in ToSet(app.plugins) /\ Tokenless(msg) => x.st.minted
  <2>1. PassedSoFar(app, msg, Len(app.plugins), x.st) /\ ~ BodyTooLarge(app, msg)
    BY DEF PassingInv
  <2>2. \A p : Behind(app, Len(app.plugins), p) <=> p \in ToSet(app.plugins)
    BY DEF Apps, Behind, ToSet
  <2> QED BY <2>1, <2>2 DEF PassedSoFar, Cleared
<1>2. PICK st : st = x.st /\ (st.principal # None => Known(app, msg, st.principal))
  BY DEF PassingInv
<1>3. PICK res : /\ res = SettleRequest(app, msg, st) /\ Given(app, msg, res)
                 /\ st.minted => HasHeader(res, "set-cookie")
  BY <1>1, <1>2, RouteSettled
<1>4. Bears(app, msg, res, x.entered)
  <2>1. (x.entered + 1)..Len(app.plugins) = {}
    BY DEF Apps
  <2> QED BY <2>1, <1>1, <1>2, <1>3 DEF Bears
<1> QED BY <1>2, <1>3, <1>4, RespondsWell

(* Leaving a plugin keeps the invariant. *)
LEMMA LeaveLastKeeps ==
  ASSUME NEW app, NEW msg \in PluginRequests, NEW x, PassingInv(app, msg, x), x.phase = "leaving",
         x.entered > 0, app.plugins \in Seq(STRING)
  PROVE  PassingInv(app, msg, LeaveLast(app, msg, x))
<1>1. OnItsWay(x) /\ x.entered \in Nat \ {0}
  BY WayTaken DEF PassingInv
<1>2. PICK plugin : plugin = app.plugins[x.entered]
  OBVIOUS
<1>3. PICK res, plain :
        /\ res = LeavePlugin(plugin, msg, x.response)
        /\ plain = LeavePlugin(plugin, WithoutTag(msg), x.plain)
  OBVIOUS
<1>10. PICK n \in Nat : n = x.entered - 1
  BY <1>1
<1>11. PICK y : y = Leaving(x, n, res, plain)
  OBVIOUS
<1>4. LeaveLast(app, msg, x) = y
  BY <1>2, <1>3, <1>10, <1>11 DEF LeaveLast, Leaving
<1>5. Honest(app, msg, res)
  BY <1>3, LeaveHonest DEF PassingInv
<1>6. Paired(res, plain)
  <2>1. PICK a, b : a = x.response /\ b = x.plain /\ Whole(a) /\ Paired(a, b)
    BY DEF PassingInv, Honest
  <2>2. Paired(LeavePlugin(plugin, msg, a), LeavePlugin(plugin, WithoutTag(msg), b))
    BY <2>1, LeavePaired
  <2> QED BY <2>1, <2>2, <1>3
<1>7. /\ OnItsWay(y) /\ y.phase = x.phase /\ y.entered = n /\ y.st = x.st
      /\ y.response = res /\ y.plain = plain
  BY <1>1, <1>11, LeftIs
<1>8. y.entered <= Len(app.plugins)
  BY <1>1, <1>7, <1>10 DEF PassingInv
<1>12. Bears(app, msg, res, n)
  <2>1. PICK a : a = x.response /\ Whole(a) /\ Bears(app, msg, a, n + 1)
    BY <1>1, <1>10 DEF PassingInv, Honest
  <2>2. \A i \in (n + 1)..Len(app.plugins) : i = n + 1 \/ i \in (n + 2)..Len(app.plugins)
    BY DEF Apps
  <2>3. plugin = app.plugins[n + 1] /\ n + 1 + 1 = n + 2
    BY <1>1, <1>2, <1>10
  <2>4. CASE plugin = "etag" /\ res.status = 304 /\ ~ HasHeader(res, "handler")
    <3>1. \A i \in (n + 1)..Len(app.plugins) : n + 1 \in 1..i
      OBVIOUS
    <3>2. app.plugins[n + 1] = "etag"
      BY <2>3, <2>4
    <3> QED BY <3>1, <3>2, <2>4 DEF Bears
  <2>5. CASE /\ Continues(a, res)
             /\ plugin \in {"requestId", "rateLimit"} => HasHeader(res, HeaderOf(plugin))
    <3>1. Bears(app, msg, res, n + 1)
      BY <2>1, <2>5, BearsOn
    <3> QED BY <3>1, <2>2, <2>3, <2>5 DEF Bears
  <2> QED BY <1>3, <2>1, <2>4, <2>5, LeaveContinues
<1>9. PassingInv(app, msg, y)
  BY <1>5, <1>6, <1>7, <1>8, <1>12 DEF PassingInv
<1> QED BY <1>4, <1>9

(* The response hooks keep the invariant. *)
LEMMA AnsweredKeeps ==
  ASSUME NEW app, NEW msg, NEW x, PassingInv(app, msg, x), x.phase = "leaving", x.entered = 0
  PROVE  PassingInv(app, msg, Answered(app, msg, x))
<1>1. OnItsWay(x)
  BY DEF PassingInv
<1>2. PICK res, plain : res = ResponseHooks(app, msg, x.response) /\ plain = ResponseHooks(app, msg, x.plain)
  OBVIOUS
<1>8. PICK phase \in {"received", "entering", "leaving", "answered"} : phase = "answered"
  OBVIOUS
<1>9. PICK y : y = Answering(x, phase, res, plain)
  OBVIOUS
<1>3. Answered(app, msg, x) = y
  BY <1>2, <1>8, <1>9 DEF Answered, Answering
<1>4. /\ Honest(app, msg, res)
      /\ CorsHeaders(app.origins, msg.origin) \cup SecurityHeaders(app.off) \subseteq res.headers
  BY <1>2, HooksHonest DEF PassingInv
<1>5. Paired(res, plain)
  <2>1. PICK a, b : a = x.response /\ b = x.plain /\ Whole(a) /\ Paired(a, b)
    BY DEF PassingInv, Honest
  <2>2. PICK hs : hs = CorsHeaders(app.origins, msg.origin) \cup SecurityHeaders(app.off)
    OBVIOUS
  <2>3. res = With(a, hs) /\ plain = With(b, hs)
    BY <1>2, <2>1, <2>2 DEF ResponseHooks
  <2>4. /\ Whole(res) /\ res.status = a.status /\ Whole(plain)
        /\ plain.status = b.status /\ plain.body = b.body /\ plain.headers = b.headers \cup hs
    BY <2>1, <2>3, WithHeaders DEF Paired
  <2>5. HasHeader(b, "etag") => HasHeader(plain, "etag")
    BY <2>4 DEF HasHeader
  <2>6. a = b => res = plain
    BY <2>3
  <2> QED BY <2>1, <2>4, <2>5, <2>6 DEF Paired
<1>6. /\ OnItsWay(y) /\ y.phase = phase /\ y.entered = x.entered /\ y.st = x.st
      /\ y.response = res /\ y.plain = plain
  BY <1>1, <1>9, RespondedIs
<1>10. Bears(app, msg, res, 0)
  BY <1>2, HooksHonest, BearsOn DEF PassingInv
<1>7. PassingInv(app, msg, y)
  BY <1>4, <1>5, <1>6, <1>8, <1>10 DEF PassingInv
<1> QED BY <1>3, <1>7

(* Each step keeps the invariant about plugins. *)
LEMMA PluginsStep == ASSUME Put, PluginsInv, Compute PROVE PluginsInv'
<1> SUFFICES ASSUME Of("plugins") PROVE PluginsInv'
  BY Counts DEF PluginsInv, Of, Put
<1>1. /\ question' = question /\ Apps(question.app) /\ question.req \in PluginRequests
      /\ PassingInv(question.app, question.req, answer)
  BY PluginQuestion, Counts DEF PluginsInv, Put
<1>2. PICK app, msg : app = question.app /\ msg = question.req
  OBVIOUS
<1>3. Apps(app) /\ msg \in PluginRequests /\ PassingInv(app, msg, answer)
  BY <1>1, <1>2
<1>4. PassingInv(app, msg, answer')
  <2>1. CASE RunRequestHooks
    BY <2>1, <1>2, <1>3, RequestHooksKeep DEF RunRequestHooks, Passes
  <2>2. CASE EnterWrapper
    BY <2>2, <1>2, <1>3, EnterNextKeeps DEF EnterWrapper, Passes
  <2>3. CASE CallRoute
    BY <2>3, <1>2, <1>3, CallRouteKeeps DEF CallRoute, Passes
  <2>4. CASE LeaveWrapper
    BY <2>4, <1>2, <1>3, LeaveLastKeeps DEF LeaveWrapper, Passes, Apps
  <2>5. CASE RunResponseHooks
    BY <2>5, <1>2, <1>3, AnsweredKeeps DEF RunResponseHooks, Passes
  <2> QED BY <2>1, <2>2, <2>3, <2>4, <2>5, ActionOf
<1> QED BY <1>1, <1>2, <1>4 DEF PluginsInv

(* What the properties say *)
LEMMA OriginsFollow ==
  ASSUME NEW app, Apps(app), NEW msg, NEW o, o # "*",
         <<"allow-origin", o>> \in CorsHeaders(app.origins, msg.origin)
  PROVE  /\ <<"vary", "origin">> \in CorsHeaders(app.origins, msg.origin)
         /\ app.origins.form = "list" => o \in app.origins.are
         /\ app.origins.form = "text" => o = app.origins.is
         /\ app.origins.form \notin {"list", "text"} => app.origins.form = "reflect" /\ o = msg.origin
<1> DEFINE form == app.origins.form
           resolved == ResolveOrigin(app.origins, msg.origin)
<1>1. form \in {"off", "reflect", "text", "list"}
  BY DEF Apps, OriginOptions
<1>2. \A v, w : <<"allow-origin", v>> # <<"vary", w>>
  OBVIOUS
<1>3. /\ resolved.value = o /\ "none" \notin {msg.origin, resolved.value}
      /\ resolved.vary => <<"vary", "origin">> \in CorsHeaders(app.origins, msg.origin)
  BY <1>2 DEF CorsHeaders
<1>4. NoOrigin.value = "none"
  BY DEF NoOrigin
<1>5. CASE form = "off"
  <2>1. resolved = NoOrigin
    BY <1>5, Zenon DEF ResolveOrigin
  <2> QED BY <2>1, <1>3, <1>4
<1>6. CASE form = "reflect"
  <2>1. form # "off"
    BY <1>6
  <2>2. resolved = [value |-> msg.origin, vary |-> TRUE]
    BY <2>1, <1>6, Zenon DEF ResolveOrigin
  <2>3. resolved.value = msg.origin /\ resolved.vary
    BY <2>2
  <2> QED BY <2>3, <1>3, <1>6
<1>7. CASE form = "text"
  <2>1. form # "off" /\ form # "reflect"
    BY <1>7
  <2>2. resolved = [value |-> app.origins.is, vary |-> app.origins.is # "*"]
    BY <2>1, <1>7, Zenon DEF ResolveOrigin
  <2>3. resolved.value = app.origins.is
    BY <2>2
  <2>4. app.origins.is # "*"
    BY <2>3, <1>3
  <2>6. PICK v : v = (app.origins.is # "*")
    OBVIOUS
  <2>7. resolved.vary = v
    BY <2>2, <2>6
  <2>5. resolved.vary
    BY <2>4, <2>6, <2>7
  <2> QED BY <2>3, <2>5, <1>3, <1>7
<1>8. CASE form = "list"
  <2>1. form # "off" /\ form # "reflect" /\ form # "text"
    BY <1>8
  <2>2. resolved = IF msg.origin \in app.origins.are THEN [value |-> msg.origin, vary |-> TRUE]
                   ELSE NoOrigin
    BY <2>1, <1>8, Zenon DEF ResolveOrigin
  <2>3. msg.origin \in app.origins.are
    BY <2>2, <1>3, <1>4
  <2>4. resolved.value = msg.origin /\ resolved.vary
    BY <2>2, <2>3
  <2> QED BY <2>3, <2>4, <1>3, <1>8
<1> QED BY <1>1, <1>5, <1>6, <1>7, <1>8

(* The part of PluginsKeepPromises about the plugins. *)
LEMMA PluginsEnd ==
  ASSUME Put, PluginsInv, Of("plugins")
  PROVE  /\ HandlerIsProtected /\ BodyIsWhatItSays /\ OriginsAreHonest
         /\ answer.phase = "answered" =>
              /\ HeadersReach
              /\ SecurityHeaders(question.app.off) \subseteq answer.response.headers
<1> DEFINE app == question.app
           msg == question.req
           res == answer.response
<1>1. PassingInv(app, msg, answer) /\ Apps(app)
  BY PluginQuestion DEF PluginsInv
<1>2. Honest(app, msg, res) /\ Paired(res, answer.plain)
  BY <1>1 DEF PassingInv
<1>3. HandlerRan \/ res.status = 304 => Cleared(app, msg) /\ Authorized(app, msg)
  BY <1>2 DEF Honest, HandlerRan
<1>4. HandlerIsProtected
  <2>1. HandlerRan /\ Has("csrf") /\ msg.method \notin SafeMethods =>
          msg.cookie # "none" /\ msg.cookie = msg.sent
    BY <1>3 DEF Cleared, Has
  <2>2. (HandlerRan \/ answer.response.status = 304) /\ app.guard # "open" =>
          /\ Has("authentication")
          /\ \E p \in msg.credentials : /\ p.valid /\ p.scheme \in ToSet(app.schemes)
                                        /\ app.guard = "role" => p.roles \cap app.roles # {}
    BY <1>3 DEF Authorized, Has
  <2>3. HandlerRan \/ answer.response.status = 304 =>
          ~ BodyTooLarge(app, msg) /\ (Has("rateLimit") => ~ msg.overLimit)
    BY <1>3 DEF Cleared, Has
  <2> QED BY <2>1, <2>2, <2>3, Zenon DEF HandlerIsProtected
<1>5. BodyIsWhatItSays
  <2>1. res.status = 304 => answer.plain.status = 200 /\ HasHeader(answer.plain, "etag")
    <3>1. res = answer.plain => res.status # 304
      BY <1>2 DEF Paired
    <3> QED BY <3>1, <1>2 DEF Paired
  <2> QED BY <2>1, <1>2, Zenon DEF BodyIsWhatItSays, Honest
<1>6. OriginsAreHonest
  <2> SUFFICES ASSUME NEW o \in {h[2] : h \in answer.response.headers} \ {"*"},
                      <<"allow-origin", o>> \in answer.response.headers
               PROVE  /\ answer.phase = "answered" => <<"vary", "origin">> \in answer.response.headers
                      /\ CASE app.origins.form = "list" -> o \in app.origins.are
                           [] app.origins.form = "text" -> o = app.origins.is
                           [] OTHER -> app.origins.form = "reflect" /\ o = msg.origin
    BY Zenon DEF OriginsAreHonest
  <2>1. <<"allow-origin", o>> \in CorsHeaders(app.origins, msg.origin)
    <3>1. <<"allow-origin", o>>[1] = "allow-origin"
      OBVIOUS
    <3> QED BY <3>1, <1>2 DEF Honest
  <2>2. /\ <<"vary", "origin">> \in CorsHeaders(app.origins, msg.origin)
        /\ app.origins.form = "list" => o \in app.origins.are
        /\ app.origins.form = "text" => o = app.origins.is
        /\ app.origins.form \notin {"list", "text"} => app.origins.form = "reflect" /\ o = msg.origin
    BY <2>1, <1>1, OriginsFollow
  <2>3. answer.phase = "answered" => <<"vary", "origin">> \in answer.response.headers
    BY <2>2, <1>1 DEF PassingInv
  <2>4. app.origins.form = "list" => app.origins.form # "text"
    OBVIOUS
  <2>5. app.origins.form # "list" /\ app.origins.form # "text" =>
          app.origins.form = "reflect" /\ o = msg.origin
    BY <2>2
  <2> QED BY <2>2, <2>3, <2>4, <2>5, Zenon
<1>7. answer.phase = "answered" => SecurityHeaders(question.app.off) \subseteq answer.response.headers
  BY <1>1 DEF PassingInv
<1>8. answer.phase = "answered" => HeadersReach
  <2> SUFFICES ASSUME answer.phase = "answered" PROVE HeadersReach
    OBVIOUS
  <2>1. Bears(app, msg, res, 0) /\ DOMAIN app.plugins = (0 + 1)..Len(app.plugins)
    BY <1>1 DEF PassingInv, Apps
  <2> QED BY <2>1 DEF Bears, HeadersReach, HandlerRan, Has, Tokenless
<1> QED BY <1>4, <1>5, <1>6, <1>7, <1>8

-----------------------------------------------------------------------------
(* Cookies *)

(* A cookie that is set. *)
LEMMA FreshCookie ==
  ASSUME NEW n, NEW v
  PROVE  /\ SerializeCookie(n, v, FALSE).name = n
         /\ SerializeCookie(n, v, FALSE).value = EncodeURIComponent(v)
         /\ ~ SerializeCookie(n, v, FALSE).expired
BY DEF SerializeCookie

(* A cookie that is deleted. *)
LEMMA ExpiredCookie ==
  ASSUME NEW n, NEW v
  PROVE  SerializeCookie(n, v, TRUE).name = n /\ SerializeCookie(n, v, TRUE).expired
BY DEF SerializeCookie

(* What each call writes. *)
LEMMA WrittenFields ==
  ASSUME NEW call
  PROVE  /\ Written(call).name = call.name
         /\ call.do = "set" => ~ Written(call).expired
         /\ call.do # "set" => Written(call).expired
         /\ call.do = "set" => Written(call).value = EncodeURIComponent(call.value)
<1>1. CASE call.do = "set"
  <2>1. Written(call) = SerializeCookie(call.name, call.value, FALSE)
    BY <1>1 DEF Written
  <2>2. Written(call).name = call.name /\ Written(call).value = EncodeURIComponent(call.value)
    BY <2>1 DEF SerializeCookie
  <2>3. ~ Written(call).expired
    BY <2>1, FreshCookie, Zenon
  <2> QED BY <1>1, <2>2, <2>3, Zenon
<1>2. CASE call.do # "set"
  <2>1. Written(call) = SerializeCookie(call.name, "", TRUE)
    BY <1>2 DEF Written
  <2> QED BY <1>2, <2>1, ExpiredCookie, Zenon
<1> QED BY <1>1, <1>2, Zenon

(* The invariant about cookies holds when it is asked. *)
LEMMA CookiesStart == ASSUME Ask PROVE CookiesInv
<1> SUFFICES ASSUME Of("cookies") PROVE CookiesInv
  BY DEF CookiesInv
<1>1. answer = <<>>
  BY Zenon DEF Ask, Begin, Of
<1>2. done = 0
  BY DEF Ask
<1> QED BY <1>1, <1>2, EmptyIsSeq DEF CookiesInv, SentCookies

(* Each step keeps the invariant about cookies. *)
LEMMA CookiesStep == ASSUME Put, CookiesInv, Compute PROVE CookiesInv'
<1> SUFFICES ASSUME Of("cookies") PROVE CookiesInv'
  BY Counts DEF CookiesInv, Of, Put
<1>1. /\ question' = question /\ done' = done + 1 /\ done \in Nat
      /\ answer' = Append(answer, Written(question.calls[done + 1]))
  BY ActionOf DEF CallCookies, Takes, Upcoming, Put, Serialize, Written
<1>2. PICK w : w = Written(question.calls[done + 1])
  OBVIOUS
<1>3. IsSeq(answer) /\ Len(answer) = done /\ \A i \in 1..done : answer[i] = Written(question.calls[i])
  BY DEF CookiesInv, SentCookies
<1>4. Longer(answer, w, answer')
  BY <1>1, <1>2, <1>3, Appending
<1>5. /\ IsSeq(answer') /\ Len(answer') = done + 1 /\ answer'[done + 1] = w
      /\ \A i \in 1..done : answer'[i] = answer[i]
  BY <1>3, <1>4 DEF Longer
<1>6. \A i \in 1..(done + 1) : answer'[i] = Written(question.calls[i])
  BY <1>1, <1>2, <1>3, <1>5
<1> QED BY <1>1, <1>5, <1>6 DEF CookiesInv, SentCookies

(* A finite set is listed whole, and without a repetition. *)
LEMMA SetToSeqLists ==
  ASSUME NEW S, IsFiniteSet(S)
  PROVE  LET n == Cardinality(S)
             s == SetToSeq(S) IN
         /\ n \in Nat /\ s \in [1..n -> S]
         /\ \A x \in S : \E i \in 1..n : s[i] = x
         /\ \A i, j \in 1..n : s[i] = s[j] => i = j
<1> DEFINE n == Cardinality(S)
           s == SetToSeq(S)
<1>1. n \in Nat /\ ExistsBijection(1..n, S)
  BY FS_CardinalityType
<1>2. PICK f : f \in [1..n -> S] /\ IsInjective(f)
  BY <1>1 DEF ExistsBijection, Bijection, Injection
<1>3. s \in [1..n -> S] /\ IsInjective(s)
  BY <1>2 DEF SetToSeq
<1> HIDE DEF s, n
<1>4. s \in Injection(1..n, S)
  BY <1>3 DEF Injection
<1>5. IsFiniteSet(1..n) /\ Cardinality(1..n) = n
  BY <1>1, FS_Interval
<1>6. s \in Surjection(1..n, S)
  BY <1>4, <1>5, FS_Injection DEF n
<1> QED BY <1>1, <1>3, <1>6, Zenon DEF s, n, Surjection, IsInjective

(* What is encoded comes back, and no ";" cuts it. *)
LEMMA RoundTrip ==
  ASSUME NEW v, v \notin {"%25", "%253B"}
  PROVE  DecodeURIComponent(UpToSemicolon(EncodeURIComponent(v))) = v
<1>1. /\ "%" # ";" /\ "%3B" # ";" /\ "%3B" # "%" /\ "%25" # "%3B" /\ "%253B" # "%3B"
      /\ "%253B" # "%25" /\ "%25" # ";" /\ "%253B" # ";" /\ "%" # ""
  OBVIOUS
<1>2. CASE v = ";"
  <2>1. EncodeURIComponent(v) = "%3B"
    BY <1>1, <1>2, Zenon DEF EncodeURIComponent
  <2>2. UpToSemicolon("%3B") = "%3B"
    BY <1>1 DEF UpToSemicolon
  <2>3. DecodeURIComponent("%3B") = ";"
    BY <1>1, Zenon DEF DecodeURIComponent
  <2> QED BY <2>1, <2>2, <2>3, <1>2
<1>3. CASE v = "%"
  <2>1. EncodeURIComponent(v) = "%25"
    BY <1>1, <1>3, Zenon DEF EncodeURIComponent
  <2>2. UpToSemicolon("%25") = "%25"
    BY <1>1 DEF UpToSemicolon
  <2>3. DecodeURIComponent("%25") = "%"
    BY <1>1, Zenon DEF DecodeURIComponent
  <2> QED BY <2>1, <2>2, <2>3, <1>3
<1>4. CASE v = "%3B"
  <2>1. EncodeURIComponent(v) = "%253B"
    BY <1>1, <1>4, Zenon DEF EncodeURIComponent
  <2>2. UpToSemicolon("%253B") = "%253B"
    BY <1>1 DEF UpToSemicolon
  <2>3. DecodeURIComponent("%253B") = "%3B"
    BY <1>1, Zenon DEF DecodeURIComponent
  <2> QED BY <2>1, <2>2, <2>3, <1>4
<1>5. CASE v \notin {";", "%", "%3B"}
  <2>1. v # ";" /\ v # "%" /\ v # "%3B" /\ v # "%25" /\ v # "%253B"
    BY <1>5
  <2>2. EncodeURIComponent(v) = v
    BY <2>1, Zenon DEF EncodeURIComponent
  <2>3. UpToSemicolon(v) = v
    BY <2>1 DEF UpToSemicolon
  <2>4. DecodeURIComponent(v) = v
    BY <2>1, Zenon DEF DecodeURIComponent
  <2> QED BY <2>2, <2>3, <2>4
<1> QED BY <1>2, <1>3, <1>4, <1>5

(* What a browser keeps of the headers, whose names it tells apart. *)
LEMMA JarKeeps ==
  ASSUME NEW s, NEW n \in Nat, DOMAIN s = 1..n
  PROVE  /\ IsFiniteSet(Jar(s))
         /\ \A c \in Jar(s) : \E i \in 1..n : /\ c = s[i] /\ ~ c.expired
                                              /\ \A j \in 1..n : s[j].name = c.name => j <= i
         /\ \A i \in 1..n : (~ s[i].expired /\ \A j \in 1..n : s[j].name = s[i].name => j <= i) =>
              s[i] \in Jar(s)
         /\ \A c, e \in Jar(s) : c.name = e.name => c = e
<1> DEFINE I == {j \in DOMAIN s : LastOf(s, j) /\ ~ s[j].expired}
<1>1. IsFiniteSet(I)
  <2>1. IsFiniteSet(1..n) /\ I \subseteq 1..n
    BY FS_Interval
  <2> QED BY <2>1, FS_Subset
<1>2. Jar(s) = {s[i] : i \in I}
  BY DEF Jar
<1>3. IsFiniteSet(Jar(s))
  <2> DEFINE f == [i \in I |-> s[i]]
  <2>1. f \in Surjection(I, Jar(s))
    BY <1>2 DEF Surjection
  <2> QED BY <2>1, <1>1, FS_Surjection
<1>4. ASSUME NEW c \in Jar(s)
      PROVE  \E i \in 1..n : /\ c = s[i] /\ ~ c.expired
                             /\ \A j \in 1..n : s[j].name = c.name => j <= i
  <2>1. PICK i \in I : c = s[i]
    BY <1>2
  <2> QED BY <2>1 DEF LastOf
<1>5. ASSUME NEW i \in 1..n, ~ s[i].expired, \A j \in 1..n : s[j].name = s[i].name => j <= i
      PROVE  s[i] \in Jar(s)
  <2>1. i \in I
    BY <1>5 DEF LastOf
  <2> QED BY <2>1, <1>2
<1>6. ASSUME NEW c \in Jar(s), NEW e \in Jar(s), c.name = e.name PROVE c = e
  <2>1. PICK i \in 1..n : c = s[i] /\ \A j \in 1..n : s[j].name = c.name => j <= i
    BY <1>4
  <2>2. PICK j \in 1..n : e = s[j] /\ \A k \in 1..n : s[k].name = e.name => k <= j
    BY <1>4
  <2>3. j <= i /\ i <= j
    BY <2>1, <2>2, <1>6
  <2> QED BY <2>1, <2>2, <2>3
<1> QED BY <1>3, <1>4, <1>5, <1>6

(* The pairs of cookies with distinct names read back each by its name. *)
LEMMA PairsRead ==
  ASSUME NEW S, IsFiniteSet(S), \A c, e \in S : c.name = e.name => c = e
  PROVE  ReadFrom(S, ParseCookies(SetToSeq(S)))
<1>0. PICK p : p = SetToSeq(S)
  OBVIOUS
<1>1. PICK n \in Nat : /\ p \in [1..n -> S]
                       /\ \A x \in S : \E k \in 1..n : p[k] = x
                       /\ \A j, k \in 1..n : p[j] = p[k] => j = k
  BY <1>0, SetToSeqLists
<1> DEFINE back == ParseCookies(p)
<1>2. DOMAIN p = 1..n
  BY <1>1
<1>3. {p[i].name : i \in DOMAIN p} = {c.name : c \in S}
  BY <1>1, <1>2
<1>4. DOMAIN back = {c.name : c \in S} \ {""}
  BY <1>3 DEF ParseCookies
<1>5. ASSUME NEW c \in S, c.name # ""
      PROVE  back[c.name] = DecodeURIComponent(UpToSemicolon(c.value))
  <2>1. PICK i \in 1..n : p[i] = c
    BY <1>1
  <2>2. \A j \in 1..n : p[j].name = c.name => j = i
    BY <1>1, <2>1
  <2>3. LastOf(p, i) /\ i \in DOMAIN p
    BY <1>2, <2>1, <2>2 DEF LastOf
  <2>4. Latest(p, c.name) = i
    BY <1>2, <2>1, <2>2, <2>3 DEF Latest
  <2>5. back[c.name] = DecodeURIComponent(UpToSemicolon(p[Latest(p, c.name)].value))
    <3>1. c.name \in {p[k].name : k \in DOMAIN p} \ {""}
      BY <1>3, <1>5
    <3> QED BY <3>1 DEF ParseCookies
  <2> QED BY <2>1, <2>4, <2>5
<1> HIDE DEF back
<1>6. ReadFrom(S, back)
  BY <1>4, <1>5 DEF ReadFrom
<1> QED BY <1>0, <1>6 DEF back

(* What a question about cookies is made of. *)
LEMMA CookieCalls ==
  ASSUME Put, Of("cookies"), NEW i \in Taken, Call(i).do = "set"
  PROVE  Call(i).value \notin {"%25", "%253B"}
<1>1. question.calls \in Seq([do : {"set"}, name : STRING, value : STRING \ {"%25", "%253B"}]
                             \cup [do : {"delete"}, name : STRING])
  BY Zenon DEF Put, Sensible, Of
<1>2. Listed
  BY DEF Listed, Of
<1>3. i \in DOMAIN question.calls
  BY <1>2, ListedCalls
<1>4. Call(i) \in [do : {"set"}, name : STRING, value : STRING \ {"%25", "%253B"}]
                  \cup [do : {"delete"}, name : STRING]
  BY <1>1, <1>3, ElementOf DEF Call
<1> QED BY <1>4

(* The client sends back the value each cookie was last set to, and no deleted cookie. *)
LEMMA CookiesEnd == ASSUME Put, CookiesInv PROVE CookiesRoundTrip
<1> SUFFICES ASSUME Of("cookies") PROVE CookiesRoundTrip
  BY DEF CookiesRoundTrip
<1> DEFINE back == ParseCookies(SetToSeq(Jar(answer)))
           lasting == {i \in Taken : /\ Call(i).do = "set" /\ Call(i).name # ""
                                     /\ \A j \in Taken : Call(j).name = Call(i).name => j <= i}
<1>1. /\ done \in Nat /\ DOMAIN answer = 1..done
      /\ \A i \in 1..done : answer[i] = Written(Call(i))
  BY DEF Put, CookiesInv, SentCookies, IsSeq, Call
<1>2. \A i \in 1..done : /\ answer[i].name = Call(i).name
                         /\ Call(i).do = "set" => ~ answer[i].expired
                         /\ Call(i).do # "set" => answer[i].expired
                         /\ Call(i).do = "set" =>
                              answer[i].value = EncodeURIComponent(Call(i).value)
  <2> SUFFICES ASSUME NEW i \in 1..done
               PROVE  /\ answer[i].name = Call(i).name
                      /\ Call(i).do = "set" => ~ answer[i].expired
                      /\ Call(i).do # "set" => answer[i].expired
                      /\ Call(i).do = "set" =>
                           answer[i].value = EncodeURIComponent(Call(i).value)
    OBVIOUS
  <2> QED BY <1>1, WrittenFields
<1>3. PICK s : s = answer
  OBVIOUS
<1>3a. PICK d \in Nat : d = done
  BY <1>1
<1>4. PICK S : S = Jar(s)
  OBVIOUS
<1>5. DOMAIN s = 1..d
  BY <1>1, <1>3, <1>3a
<1>6. /\ IsFiniteSet(S)
      /\ \A c \in S : \E i \in 1..d : /\ c = s[i] /\ ~ c.expired
                                      /\ \A j \in 1..d : s[j].name = c.name => j <= i
      /\ \A i \in 1..d : (~ s[i].expired /\ \A j \in 1..d : s[j].name = s[i].name => j <= i) =>
           s[i] \in S
      /\ \A c, e \in S : c.name = e.name => c = e
  BY <1>4, <1>5, JarKeeps
<1>7. back = ParseCookies(SetToSeq(S))
  BY <1>3, <1>4
<1>8. /\ DOMAIN back = {c.name : c \in S} \ {""}
      /\ \A c \in S : c.name # "" => back[c.name] = DecodeURIComponent(UpToSemicolon(c.value))
  <2>1. ReadFrom(S, ParseCookies(SetToSeq(S)))
    BY <1>6, PairsRead
  <2> QED BY <1>7, <2>1, Zenon DEF ReadFrom
<1> HIDE DEF back
<1>9. \A i \in lasting : s[i] \in S /\ s[i].name = Call(i).name /\ Call(i).name # ""
                         /\ s[i].value = EncodeURIComponent(Call(i).value)
  BY <1>2, <1>3, <1>3a, <1>6 DEF Taken
<1>10. \A c \in S : c.name # "" => \E i \in lasting : c.name = Call(i).name
  <2>1. ASSUME NEW c \in S, c.name # "" PROVE \E i \in lasting : c.name = Call(i).name
    <3>1. PICK i \in 1..d : c = s[i] /\ ~ c.expired /\ \A j \in 1..d : s[j].name = c.name => j <= i
      BY <1>6
    <3>2. i \in lasting
      BY <3>1, <2>1, <1>2, <1>3, <1>3a DEF Taken
    <3> QED BY <3>1, <3>2, <1>2, <1>3, <1>3a DEF Taken
  <2> QED BY <2>1
<1>11. DOMAIN back = {Call(i).name : i \in lasting}
  <2> HIDE DEF lasting
  <2>1. \A i \in lasting : Call(i).name \in {c.name : c \in S} \ {""}
    BY <1>9
  <2>2. \A x \in {c.name : c \in S} \ {""} : \E i \in lasting : x = Call(i).name
    BY <1>10
  <2> QED BY <1>8, <2>1, <2>2
<1>12. ASSUME NEW i \in lasting PROVE back[Call(i).name] = Call(i).value
  <2>1. back[Call(i).name] = DecodeURIComponent(UpToSemicolon(EncodeURIComponent(Call(i).value)))
    BY <1>8, <1>9
  <2>2. Call(i).value \notin {"%25", "%253B"}
    BY CookieCalls
  <2> QED BY <2>1, <2>2, RoundTrip
<1> QED BY <1>11, <1>12, Zenon DEF CookiesRoundTrip, back

-----------------------------------------------------------------------------
(* Macros *)

(* A concatenation has the elements of both in order. *)
LEMMA Chaining ==
  ASSUME NEW s, NEW t, IsSeq(s), IsSeq(t), NEW u, u = s \o t
  PROVE  Chained(s, t, u)
<1>1. PICK S : s \in Seq(S)
  BY DEF IsSeq
<1>2. PICK T : t \in Seq(T)
  BY DEF IsSeq
<1>3. s \in Seq(S \cup T) /\ t \in Seq(S \cup T)
  BY <1>1, <1>2
<1>4. u \in Seq(S \cup T)
  BY <1>3
<1>5. IsSeq(u)
  BY <1>4 DEF IsSeq
<1>6. Len(s) \in Nat /\ Len(t) \in Nat /\ Len(u) = Len(s) + Len(t)
  BY <1>1, <1>2
<1>7. /\ \A n \in 1..Len(s) : u[n] = s[n]
      /\ \A n \in 1..Len(t) : u[Len(s) + n] = t[n]
  BY <1>1, <1>2
<1> QED BY <1>5, <1>6, <1>7 DEF Chained

(* The domain of a sequence. *)
LEMMA SeqDomain ==
  ASSUME NEW s, IsSeq(s)
  PROVE  Len(s) \in Nat /\ DOMAIN s = 1..Len(s)
BY DEF IsSeq

(* Sums of more numbers are no smaller. *)
LEMMA TotalMonotone ==
  ASSUME NEW J, IsFiniteSet(J), NEW I \in SUBSET J, NEW size, \A i \in J : size[i] \in Nat
  PROVE  /\ Total(size, I) \in Nat /\ Total(size, J) \in Nat
         /\ Total(size, I) <= Total(size, J)
<1>1. IsFiniteSet(UNION {{i} \X (1..size[i]) : i \in J})
  BY UnitsFinite
<1>2. UNION {{i} \X (1..size[i]) : i \in I} \in SUBSET UNION {{i} \X (1..size[i]) : i \in J}
  OBVIOUS
<1>3. PICK A : A = UNION {{i} \X (1..size[i]) : i \in I}
  OBVIOUS
<1>4. PICK B : B = UNION {{i} \X (1..size[i]) : i \in J}
  OBVIOUS
<1>5. IsFiniteSet(B) /\ A \in SUBSET B
  BY <1>1, <1>2, <1>3, <1>4
<1>6. IsFiniteSet(A) /\ Cardinality(A) <= Cardinality(B)
  BY <1>5, FS_Subset
<1>7. Cardinality(A) \in Nat /\ Cardinality(B) \in Nat
  BY <1>5, <1>6, FS_CardinalityType
<1> QED BY <1>3, <1>4, <1>6, <1>7 DEF Total

(* How many elements stand before each part of a row. *)
LEMMA BeforeAll ==
  ASSUME NEW d \in Nat, NEW parts, Lists(parts, d)
  PROVE  /\ \A i \in 1..(d + 1) : Before(parts, i) \in Nat
         /\ \A i \in 1..d : /\ Before(parts, i + 1) = Before(parts, i) + Len(parts[i])
                            /\ Before(parts, i + 1) <= Before(parts, d + 1)
         /\ Before(parts, 1) = 0
<1> DEFINE size == [j \in DOMAIN parts |-> Len(parts[j])]
<1>1. DOMAIN parts = 1..d /\ \A i \in 1..d : size[i] = Len(parts[i]) /\ size[i] \in Nat
  BY SeqDomain DEF Lists
<1>2. \A i : Before(parts, i) = Total(size, 1..(i - 1))
  BY DEF Before
<1> HIDE DEF size
<1>3. ASSUME NEW i \in 1..(d + 1)
      PROVE  Before(parts, i) \in Nat /\ Before(parts, i) <= Before(parts, d + 1)
  <2>1. PICK I, J : I = 1..(i - 1) /\ J = 1..((d + 1) - 1)
    OBVIOUS
  <2>2. IsFiniteSet(J)
    BY <2>1, FS_Interval
  <2>3. I \in SUBSET J /\ \A k \in J : size[k] \in Nat
    BY <1>1, <2>1
  <2>4. Total(size, I) \in Nat /\ Total(size, I) <= Total(size, J)
    BY <2>2, <2>3, TotalMonotone
  <2> QED BY <1>2, <2>1, <2>4
<1>4. ASSUME NEW i \in 1..d
      PROVE  Before(parts, i + 1) = Before(parts, i) + Len(parts[i])
  <2>1. PICK I : I = 1..(i - 1)
    OBVIOUS
  <2>2. IsFiniteSet(I) /\ i \notin I /\ \A k \in I \cup {i} : size[k] \in Nat
    <3>1. i - 1 \in Int /\ 1 \in Int
      OBVIOUS
    <3>2. IsFiniteSet(1..(i - 1))
      BY <3>1, FS_Interval
    <3> QED BY <1>1, <2>1, <3>2
  <2>3. Total(size, I \cup {i}) = Total(size, I) + size[i]
    BY <2>2, TotalAdds
  <2>4. I \cup {i} = 1..((i + 1) - 1)
    BY <2>1
  <2> QED BY <1>1, <1>2, <2>1, <2>3, <2>4
<1>5. Before(parts, 1) = 0
  <2>1. 1..(1 - 1) = {}
    OBVIOUS
  <2> QED BY <1>2, <2>1, TotalEmpty
<1> QED BY <1>3, <1>4, <1>5

(* A part that is added behind the others does not move them. *)
LEMMA BeforeSame ==
  ASSUME NEW d \in Nat, NEW parts, NEW more, NEW e, Lists(parts, d), OneMore(parts, d, e, more)
  PROVE  \A i \in 1..(d + 1) : Before(more, i) = Before(parts, i)
<1> SUFFICES ASSUME NEW i \in 1..(d + 1) PROVE Before(more, i) = Before(parts, i)
  OBVIOUS
<1>1. PICK f : f = [j \in DOMAIN parts |-> Len(parts[j])]
  OBVIOUS
<1>2. PICK g : g = [j \in DOMAIN more |-> Len(more[j])]
  OBVIOUS
<1>3. PICK I : I = 1..(i - 1)
  OBVIOUS
<1>4. \A j \in I : g[j] = f[j]
  BY <1>1, <1>2, <1>3 DEF Lists, OneMore
<1>5. Total(g, I) = Total(f, I)
  BY <1>4, TotalSame
<1> QED BY <1>1, <1>2, <1>3, <1>5 DEF Before

(* A row with one more part. *)
LEMMA JoinedAdds ==
  ASSUME NEW d \in Nat, NEW whole, NEW parts, Joined(whole, parts, d),
         NEW e, IsSeq(e), NEW more, OneMore(parts, d, e, more)
  PROVE  Joined(whole \o e, more, d + 1)
<1>1. PICK u : u = whole \o e
  OBVIOUS
<1>2. Chained(whole, e, u)
  BY <1>1, Chaining DEF Joined
<1>3. Lists(parts, d) /\ IsSeq(whole) /\ Strung(whole, parts)
  BY DEF Joined
<1>4. Lists(more, d + 1)
  BY <1>3 DEF Lists, OneMore
<1>5. Before(more, (d + 1) + 1) = Before(more, d + 1) + Len(e)
  <2>1. d + 1 \in Nat /\ d + 1 \in 1..(d + 1) /\ more[d + 1] = e
    BY DEF OneMore
  <2> QED BY <1>4, <2>1, BeforeAll
<1>6. Before(more, d + 1) = Before(parts, d + 1) /\ Before(parts, d + 1) = Len(whole)
  <2>1. d + 1 \in 1..(d + 1)
    OBVIOUS
  <2>2. Before(more, d + 1) = Before(parts, d + 1)
    BY <1>3, <2>1, BeforeSame
  <2> QED BY <1>3, <2>2 DEF Strung, Lists
<1>7. Len(u) = Before(more, Len(more) + 1)
  BY <1>2, <1>5, <1>6 DEF Chained, OneMore
<1>8. ASSUME NEW i \in DOMAIN more, NEW x \in DOMAIN more[i]
      PROVE  u[Before(more, i) + x] = more[i][x]
  <2>1. CASE i = d + 1
    <3>1. x \in 1..Len(e) /\ more[i] = e
      BY <2>1, <1>8, SeqDomain DEF OneMore
    <3> QED BY <2>1, <3>1, <1>2, <1>6 DEF Chained
  <2>2. CASE i \in 1..d
    <3>1. more[i] = parts[i] /\ Before(more, i) = Before(parts, i)
      <4>1. i \in 1..(d + 1)
        BY <2>2
      <4> QED BY <2>2, <4>1, <1>3, BeforeSame DEF OneMore
    <3>2. x \in 1..Len(parts[i]) /\ i \in DOMAIN parts /\ Len(parts[i]) \in Nat
      <4>1. IsSeq(parts[i]) /\ i \in DOMAIN parts
        BY <1>3, <2>2 DEF Lists
      <4> QED BY <3>1, <4>1, <1>8, SeqDomain
    <3>3. whole[Before(parts, i) + x] = parts[i][x]
      BY <1>3, <3>1, <3>2, <1>8 DEF Strung
    <3>4. /\ Before(parts, i) \in Nat
          /\ Before(parts, i) + Len(parts[i]) <= Before(parts, d + 1)
      <4>1. i \in 1..(d + 1)
        BY <2>2
      <4> QED BY <1>3, <2>2, <4>1, BeforeAll
    <3>5. Before(parts, i) + x \in 1..Len(whole)
      <4>1. PICK b : b = Before(parts, i)
        OBVIOUS
      <4>2. PICK c : c = Len(parts[i])
        OBVIOUS
      <4>3. Len(whole) \in Nat
        BY <1>2 DEF Chained
      <4> QED BY <3>2, <3>4, <4>1, <4>2, <4>3, <1>6
    <3> QED BY <3>1, <3>3, <3>5, <1>2 DEF Chained
  <2>3. i \in 1..(d + 1)
    BY <1>8 DEF OneMore
  <2> QED BY <2>1, <2>2, <2>3
<1>9. Strung(u, more)
  BY <1>7, <1>8 DEF Strung
<1>10. IsSeq(u)
  BY <1>2 DEF Chained
<1> QED BY <1>1, <1>4, <1>9, <1>10 DEF Joined

(* A row without parts. *)
LEMMA JoinedNone ==
  ASSUME NEW parts, DOMAIN parts = {}, Len(parts) = 0
  PROVE  Joined(<<>>, parts, 0)
<1>1. Lists(parts, 0)
  BY DEF Lists
<1>2. Before(parts, 1) = 0
  <2>1. 0 \in Nat
    OBVIOUS
  <2> QED BY <1>1, <2>1, BeforeAll
<1>3. Strung(<<>>, parts)
  BY <1>2 DEF Strung
<1> QED BY <1>1, <1>3, EmptyIsSeq DEF Joined

(* The length of a function on 1..n. *)
LEMMA FunctionLength ==
  ASSUME NEW n \in Nat, NEW f, DOMAIN f = 1..n
  PROVE  Len(f) = n
OBVIOUS

(* The lists of hooks of the macros so far. *)
LEMMA MacroListsAre ==
  ASSUME NEW q, NEW d \in Nat, NEW k
  PROVE  /\ DOMAIN MacroLists(q, d, k) = 1..d /\ Len(MacroLists(q, d, k)) = d
         /\ \A i \in 1..d : MacroLists(q, d, k)[i] = q.registry[q.calls[i]][k]
<1>1. DOMAIN MacroLists(q, d, k) = 1..d
  BY DEF MacroLists
<1> QED BY <1>1, FunctionLength DEF MacroLists

(* The invariant about macros holds when it is asked. *)
LEMMA MacrosStart == ASSUME Ask PROVE MacrosInv
<1> SUFFICES ASSUME Of("macros") PROVE MacrosInv
  BY DEF MacrosInv
<1>1. answer = Unexpanded
  BY Zenon DEF Ask, Begin, Of
<1>2. done = 0
  BY DEF Ask
<1>3. ~ Unexpanded.throws
  BY DEF Unexpanded
<1>4. ASSUME NEW k \in HookKinds PROVE Joined(Unexpanded.hooks[k], MacroLists(question, 0, k), 0)
  <2>1. Unexpanded.hooks[k] = <<>>
    BY DEF Unexpanded, NoHooks
  <2>2. DOMAIN MacroLists(question, 0, k) = {} /\ Len(MacroLists(question, 0, k)) = 0
    <3>1. 0 \in Nat /\ 1..0 = {}
      OBVIOUS
    <3> QED BY <3>1, MacroListsAre
  <2> QED BY <2>1, <2>2, JoinedNone
<1>5. ~ \E i \in 1..0 : question.calls[i] \notin DOMAIN question.registry
  OBVIOUS
<1>6. Expanded(question, 0, Unexpanded)
  BY <1>3, <1>4, <1>5, Zenon DEF Expanded
<1> QED BY <1>1, <1>2, <1>6 DEF MacrosInv

(* A macro appends its hooks, an unknown one throws. *)
LEMMA MacroExpands ==
  ASSUME NEW merged, NEW registry, NEW name
  PROVE  LET next == ExpandMacro(merged, registry, name) IN
         /\ merged.throws \/ name \notin DOMAIN registry => next.throws
         /\ ~ (merged.throws \/ name \notin DOMAIN registry) =>
              /\ ~ next.throws
              /\ \A k \in HookKinds : next.hooks[k] = merged.hooks[k] \o registry[name][k]
<1>1. CASE merged.throws \/ name \notin DOMAIN registry
  BY <1>1 DEF ExpandMacro
<1>2. CASE ~ (merged.throws \/ name \notin DOMAIN registry)
  BY <1>2 DEF ExpandMacro
<1> QED BY <1>1, <1>2

(* One more macro is expanded. *)
LEMMA OneMoreMacro ==
  ASSUME NEW q, NEW d \in Nat, NEW a, Expanded(q, d, a),
         NEW name, name = q.calls[d + 1],
         name \in DOMAIN q.registry => q.registry[name] \in HookLists
  PROVE  Expanded(q, d + 1, ExpandMacro(a, q.registry, name))
<1>1. PICK next : next = ExpandMacro(a, q.registry, name)
  OBVIOUS
<1>2. CASE \E i \in 1..d : q.calls[i] \notin DOMAIN q.registry
  <2>1. a.throws
    BY <1>2, Zenon DEF Expanded
  <2>2. ExpandMacro(a, q.registry, name).throws
    BY <2>1, MacroExpands
  <2>3. \E i \in 1..(d + 1) : q.calls[i] \notin DOMAIN q.registry
    BY <1>2
  <2> QED BY <2>2, <2>3, Zenon DEF Expanded
<1>3. CASE name \notin DOMAIN q.registry
  <2>2. ExpandMacro(a, q.registry, name).throws
    BY <1>3, MacroExpands
  <2>3. \E i \in 1..(d + 1) : q.calls[i] \notin DOMAIN q.registry
    BY <1>3
  <2> QED BY <2>2, <2>3, Zenon DEF Expanded
<1>4. CASE ~ (\E i \in 1..d : q.calls[i] \notin DOMAIN q.registry) /\ name \in DOMAIN q.registry
  <2>1. ~ a.throws /\ \A k \in HookKinds : Joined(a.hooks[k], MacroLists(q, d, k), d)
    BY <1>4, Zenon DEF Expanded
  <2>2. /\ ~ next.throws
        /\ \A k \in HookKinds : next.hooks[k] = a.hooks[k] \o q.registry[name][k]
    BY <1>1, <1>4, <2>1, MacroExpands
  <2>3. ~ \E i \in 1..(d + 1) : q.calls[i] \notin DOMAIN q.registry
    BY <1>4
  <2>4. ASSUME NEW k \in HookKinds PROVE Joined(next.hooks[k], MacroLists(q, d + 1, k), d + 1)
    <3>1. PICK e : e = q.registry[name][k]
      OBVIOUS
    <3>2. IsSeq(e)
      <4>1. q.registry[name] \in HookLists
        BY <1>4
      <4>2. e \in Seq(STRING)
        BY <3>1, <4>1 DEF HookLists
      <4> QED BY <4>2 DEF IsSeq
    <3>3. OneMore(MacroLists(q, d, k), d, e, MacroLists(q, d + 1, k))
      BY <3>1, MacroListsAre DEF OneMore
    <3>4. Joined(a.hooks[k] \o e, MacroLists(q, d + 1, k), d + 1)
      BY <2>1, <3>2, <3>3, JoinedAdds
    <3> QED BY <2>2, <3>1, <3>4
  <2>5. Expanded(q, d + 1, next)
    BY <2>2, <2>3, <2>4, Zenon DEF Expanded
  <2> QED BY <1>1, <2>5
<1> QED BY <1>2, <1>3, <1>4

(* Each step keeps the invariant about macros. *)
LEMMA MacrosStep == ASSUME Put, MacrosInv, Compute PROVE MacrosInv'
<1> SUFFICES ASSUME Of("macros") PROVE MacrosInv'
  BY Counts DEF MacrosInv, Of, Put
<1>1. /\ question' = question /\ done' = done + 1 /\ done \in Nat
      /\ answer' = ExpandMacro(answer, question.registry, question.calls[done + 1])
  BY ActionOf DEF ApplyMacro, Takes, Upcoming, Put
<1>2. \A n \in DOMAIN question.registry : question.registry[n] \in HookLists
  BY Zenon DEF Put, Sensible, Of
<1>3. Expanded(question, done, answer)
  BY DEF MacrosInv
<1>4. Expanded(question, done + 1, answer')
  BY <1>1, <1>2, <1>3, OneMoreMacro
<1> QED BY <1>1, <1>4 DEF MacrosInv

(* The hooks of all macros are there, in order, or an unknown one threw. *)
LEMMA MacrosEnd == ASSUME Put, MacrosInv PROVE MacrosExpand
<1> SUFFICES ASSUME Of("macros") PROVE MacrosExpand
  BY DEF MacrosExpand
<1>1. Expanded(question, done, answer)
  BY DEF MacrosInv
<1>2. CASE \E i \in Taken : Call(i) \notin DOMAIN question.registry
  <2>1. answer.throws
    BY <1>1, <1>2, Zenon DEF Expanded, Taken, Call
  <2> QED BY <1>2, <2>1, Zenon DEF MacrosExpand
<1>3. CASE ~ \E i \in Taken : Call(i) \notin DOMAIN question.registry
  <2>1. ~ answer.throws /\ \A k \in HookKinds :
          Joined(answer.hooks[k], MacroLists(question, done, k), done)
    BY <1>1, <1>3, Zenon DEF Expanded, Taken, Call
  <2>2. \A k \in HookKinds :
          Strung(answer.hooks[k], [i \in Taken |-> question.registry[Call(i)][k]])
    BY <2>1, Zenon DEF Joined, MacroLists, Taken, Call
  <2> QED BY <1>3, <2>1, <2>2, Zenon DEF MacrosExpand
<1> QED BY <1>2, <1>3

-----------------------------------------------------------------------------
(* Decorators *)

(* The invariant about decorators holds when it is asked. *)
LEMMA DecorationsStart == ASSUME Ask PROVE DecorationsInv
<1> SUFFICES ASSUME Of("decorations") PROVE DecorationsInv
  BY DEF DecorationsInv
<1>1. answer = NoBags
  BY Zenon DEF Ask, Begin, Of
<1>2. done = 0
  BY DEF Ask
<1> QED BY <1>1, <1>2 DEF DecorationsInv, Owned, SharedOwner, Pushed, NoBags

(* Whose list a class sees: that of the nearest class above it. *)
LEMMA SeenIs ==
  ASSUME NEW b, NEW anc, IsSeq(anc)
  PROVE  \/ /\ \A n \in DOMAIN anc : anc[n] \notin DOMAIN b.owner
            /\ SeenBy(b, anc) = "none"
         \/ \E k \in DOMAIN anc : /\ anc[k] \in DOMAIN b.owner
                                  /\ \A n \in DOMAIN anc : anc[n] \in DOMAIN b.owner => k <= n
                                  /\ SeenBy(b, anc) = b.owner[anc[k]]
<1> DEFINE I == {i \in 1..Len(anc) : anc[i] \in DOMAIN b.owner}
<1>1. DOMAIN anc = 1..Len(anc) /\ Len(anc) \in Nat
  BY SeqDomain
<1>2. SelectInSeq(anc, LAMBDA c : c \in DOMAIN b.owner) = IF I # {} THEN Min(I) ELSE 0
  BY DEF SelectInSeq
<1>3. CASE I = {}
  <2>1. SeenBy(b, anc) = "none"
    BY <1>2, <1>3 DEF SeenBy
  <2> QED BY <1>1, <1>3, <2>1
<1>4. CASE I # {}
  <2>1. Min(I) \in I /\ \A x \in I : Min(I) <= x
    <3>1. I \in SUBSET Nat
      OBVIOUS
    <3> QED BY <1>4, <3>1, LeastExists
  <2>2. PICK k : k = Min(I)
    OBVIOUS
  <2>3. SelectInSeq(anc, LAMBDA c : c \in DOMAIN b.owner) = k /\ k # 0
    BY <1>2, <1>4, <2>1, <2>2
  <2>4. SeenBy(b, anc) = b.owner[anc[k]]
    BY <2>3 DEF SeenBy
  <2> QED BY <1>1, <2>1, <2>2, <2>4
<1> QED BY <1>3, <1>4

(* The elements of the first sequence precede those of the second. *)
LEMMA BaseFirst ==
  ASSUME NEW s, NEW t, NEW u, Chained(s, t, u), IsSeq(s), IsSeq(t), NEW g \in ToSet(s), NEW h \in ToSet(t)
  PROVE  Precedes(u, g, h)
<1>1. PICK x \in DOMAIN s : s[x] = g
  BY DEF ToSet
<1>2. PICK y \in DOMAIN t : t[y] = h
  BY DEF ToSet
<1>3. /\ x \in 1..Len(s) /\ y \in 1..Len(t) /\ Len(s) \in Nat /\ Len(t) \in Nat
      /\ DOMAIN u = 1..Len(u) /\ Len(u) = Len(s) + Len(t)
  BY SeqDomain DEF Chained
<1>4. u[x] = g /\ u[Len(s) + y] = h
  BY <1>1, <1>2, <1>3 DEF Chained
<1>5. x \in DOMAIN u /\ Len(s) + y \in DOMAIN u /\ x < Len(s) + y
  BY <1>3
<1> QED BY <1>4, <1>5 DEF Precedes

(* A longer list keeps its elements and their order. *)
LEMMA GrownKeeps ==
  ASSUME NEW s, NEW u, Grown(s, u)
  PROVE  /\ ToSet(s) \subseteq ToSet(u)
         /\ \A g, h : Precedes(s, g, h) => Precedes(u, g, h)
<1>1. ToSet(s) \subseteq ToSet(u)
  BY DEF Grown, ToSet
<1>2. ASSUME NEW g, NEW h, Precedes(s, g, h) PROVE Precedes(u, g, h)
  BY <1>2 DEF Grown, Precedes
<1> QED BY <1>1, <1>2

(* A concatenation is longer than its first part. *)
LEMMA ChainedGrows ==
  ASSUME NEW s, NEW t, NEW u, Chained(s, t, u), IsSeq(s), IsSeq(t)
  PROVE  Grown(s, u) /\ ToSet(t) \subseteq ToSet(u)
<1>1. /\ Len(s) \in Nat /\ Len(t) \in Nat /\ DOMAIN s = 1..Len(s) /\ DOMAIN t = 1..Len(t)
      /\ DOMAIN u = 1..Len(u) /\ Len(u) = Len(s) + Len(t)
  BY SeqDomain DEF Chained
<1>2. Grown(s, u)
  BY <1>1 DEF Grown, Chained
<1>3. ASSUME NEW n \in DOMAIN t PROVE t[n] \in ToSet(u)
  <2>1. Len(s) + n \in DOMAIN u /\ u[Len(s) + n] = t[n]
    BY <1>1 DEF Chained
  <2> QED BY <2>1 DEF ToSet
<1> QED BY <1>2, <1>3 DEF ToSet

(* A class is the first of its ancestry. *)
LEMMA AncestryFirst ==
  ASSUME NEW call, SoundCall(call)
  PROVE  /\ 1 \in DOMAIN call.ancestry /\ Len(call.ancestry) \in Nat /\ Len(call.ancestry) > 0
         /\ DOMAIN call.ancestry = 1..Len(call.ancestry)
         /\ call.ancestry[1] \in ToSet(call.ancestry) /\ call.ancestry[1] # "none"
<1>1. PICK T : call.ancestry \in Seq(T)
  BY DEF SoundCall, IsSeq
<1>2. /\ 1 \in DOMAIN call.ancestry /\ Len(call.ancestry) \in Nat /\ Len(call.ancestry) > 0
      /\ DOMAIN call.ancestry = 1..Len(call.ancestry)
  BY <1>1 DEF SoundCall
<1> QED BY <1>2 DEF SoundCall, ToSet

(* All that decorated above a class share the owner it finds first. *)
LEMMA OwnerAbove ==
  ASSUME NEW q, NEW d \in Nat, NEW b, Owned(q, d, b), SharedOwner(q, d, b),
         SoundCalls(q, d + 1), Inherited(q, d + 1), NEW k, FirstOwned(q, d, b, k),
         NEW i \in 1..d, ClassOf(q, i) \in Above(q, d + 1)
  PROVE  b.owner[ClassOf(q, i)] = b.owner[q.calls[d + 1].ancestry[k]]
<1>0. /\ k \in DOMAIN q.calls[d + 1].ancestry
      /\ q.calls[d + 1].ancestry[k] \in DOMAIN b.owner
      /\ \A n \in DOMAIN q.calls[d + 1].ancestry :
           q.calls[d + 1].ancestry[n] \in DOMAIN b.owner => k <= n
  BY DEF FirstOwned
<1>1. PICK anc : anc = q.calls[d + 1].ancestry
  OBVIOUS
<1>2. PICK T : anc \in Seq(T)
  BY <1>1 DEF SoundCalls, SoundCall, IsSeq
<1>3. PICK m \in 1..d : anc[k] = ClassOf(q, m)
  BY <1>0, <1>1 DEF Owned
<1>4. PICK n \in DOMAIN anc : anc[n] = ClassOf(q, i)
  BY <1>1 DEF Above, ToSet
<1>5. k <= n
  BY <1>0, <1>1, <1>4 DEF Owned
<1>6. q.calls[m].ancestry = SubSeq(anc, k, Len(anc))
  <2>1. m \in 1..(d + 1) /\ d + 1 \in 1..(d + 1) /\ k \in DOMAIN q.calls[d + 1].ancestry
    BY <1>0
  <2>2. q.calls[d + 1].ancestry[k] = q.calls[m].ancestry[1]
    BY <1>1, <1>3 DEF ClassOf
  <2> QED BY <1>1, <2>1, <2>2 DEF Inherited
<1>7. ClassOf(q, i) \in Above(q, m)
  <2>0. DOMAIN anc = 1..Len(anc) /\ Len(anc) \in Nat
    BY <1>2
  <2>1. k \in 1..Len(anc) /\ n \in 1..Len(anc) /\ Len(anc) \in Nat
    BY <1>0, <1>1, <1>4, <2>0, Zenon
  <2>2. n - k + 1 \in DOMAIN SubSeq(anc, k, Len(anc)) /\ SubSeq(anc, k, Len(anc))[n - k + 1] = anc[n]
    BY <1>2, <1>5, <2>1
  <2> QED BY <1>4, <1>6, <2>2 DEF Above, ToSet
<1> QED BY <1>1, <1>3, <1>7 DEF SharedOwner

(* A decorator pushes on the list of the class itself, copied from the nearest one above. *)
LEMMA OneDecoration ==
  ASSUME NEW q, NEW d \in Nat, NEW b, Owned(q, d, b), SharedOwner(q, d, b),
         SoundCalls(q, d + 1), Inherited(q, d + 1),
         NEW next, next = Decorate(b, q.calls[d + 1])
  PROVE  \E o : Decorated(q, d, b, o, next)
<1>1. PICK c : c = ClassOf(q, d + 1)
  OBVIOUS
<1>2. PICK anc : anc = q.calls[d + 1].ancestry
  OBVIOUS
<1>3. PICK hooks : hooks = q.calls[d + 1].hooks
  OBVIOUS
<1>4. PICK seen : seen = SeenBy(b, anc)
  OBVIOUS
<1>5. PICK o : o = IF seen = "none" THEN c ELSE seen
  OBVIOUS
<1>6. PICK s : s = ListOf(b, anc)
  OBVIOUS
<1>7. /\ next.owner = [y \in DOMAIN b.owner \cup {c} |-> IF y = c THEN o ELSE b.owner[y]]
      /\ next.lists = [y \in DOMAIN b.lists \cup {o} |-> IF y = o THEN s \o hooks ELSE b.lists[y]]
  BY <1>1, <1>2, <1>3, <1>4, <1>5, <1>6 DEF Decorate, ClassOf
<1>8. /\ IsSeq(anc) /\ IsSeq(hooks) /\ c # "none" /\ 1 \in DOMAIN anc /\ anc[1] = c
      /\ DOMAIN anc = 1..Len(anc) /\ Len(anc) \in Nat
  <2>1. SoundCall(q.calls[d + 1])
    BY DEF SoundCalls
  <2> QED BY <2>1, <1>1, <1>2, <1>3, AncestryFirst DEF SoundCall, ClassOf
<1>9. \A i \in 1..d : c \in Above(q, i) => ClassOf(q, i) = c
  <2> SUFFICES ASSUME NEW i \in 1..d, c \in Above(q, i) PROVE ClassOf(q, i) = c
    OBVIOUS
  <2>1. PICK k \in DOMAIN q.calls[i].ancestry : q.calls[i].ancestry[k] = c
    BY DEF Above, ToSet
  <2>2. k > 1 => d + 1 < i
    <3>1. d + 1 \in 1..(d + 1) /\ i \in 1..(d + 1)
      OBVIOUS
    <3>2. q.calls[i].ancestry[k] = q.calls[d + 1].ancestry[1]
      BY <1>1, <2>1 DEF ClassOf
    <3> QED BY <3>1, <3>2 DEF Inherited
  <2>3. k \in Nat /\ k >= 1
    <3>1. SoundCall(q.calls[i])
      BY DEF SoundCalls
    <3> QED BY <3>1, AncestryFirst
  <2>4. k = 1
    BY <2>2, <2>3
  <2> QED BY <2>1, <2>4 DEF ClassOf
<1>10. /\ DOMAIN b.owner = {ClassOf(q, i) : i \in 1..d} /\ "none" \notin DOMAIN b.owner
       /\ \A i \in 1..d : /\ ClassOf(q, i) \in DOMAIN b.owner
                          /\ b.owner[ClassOf(q, i)] \in DOMAIN b.owner \cap DOMAIN b.lists
                          /\ IsSeq(b.lists[b.owner[ClassOf(q, i)]])
  BY DEF Owned, ListFor
<1>11. ASSUME IsSeq(s), o # "none",
              \A y \in DOMAIN b.owner : /\ y = c => b.owner[y] = o
                                        /\ b.owner[y] = o => s = b.lists[o],
              o = c \/ o \in DOMAIN b.owner,
              \A i \in 1..d : ClassOf(q, i) \in Above(q, d + 1) => b.owner[ClassOf(q, i)] = o
       PROVE  Decorated(q, d, b, o, next)
  <2>1. PICK u : u = s \o hooks
    OBVIOUS
  <2>2. Chained(s, hooks, u) /\ Grown(s, u) /\ IsSeq(u)
    <3>1. IsSeq(s) /\ IsSeq(hooks)
      BY <1>8, <1>11
    <3>2. Chained(s, hooks, u)
      BY <2>1, <3>1, Chaining
    <3>3. Grown(s, u)
      BY <3>1, <3>2, ChainedGrows
    <3>4. IsSeq(u)
      BY <3>2 DEF Chained
    <3> QED BY <3>2, <3>3, <3>4
  <2>3. /\ DOMAIN next.owner = DOMAIN b.owner \cup {c} /\ next.owner[c] = o
        /\ \A y \in DOMAIN b.owner : next.owner[y] = b.owner[y]
    BY <1>7, <1>11
  <2>4. /\ DOMAIN next.lists = DOMAIN b.lists \cup {o} /\ next.lists[o] = u
        /\ \A y \in DOMAIN b.lists : y # o => next.lists[y] = b.lists[y]
    BY <1>7, <2>1
  <2>5. ASSUME NEW i \in 1..d
        PROVE  Grown(ListFor(q, b, i), ListFor(q, next, i)) /\ IsSeq(ListFor(q, next, i))
    <3>1. PICK y : y = b.owner[ClassOf(q, i)]
      OBVIOUS
    <3>2. ListFor(q, b, i) = b.lists[y] /\ ListFor(q, next, i) = next.lists[y]
      BY <1>10, <2>3, <3>1 DEF ListFor
    <3>3. CASE y = o
      <4>1. b.lists[y] = s /\ next.lists[y] = u
        BY <1>10, <1>11, <2>4, <3>1, <3>3
      <4> QED BY <2>2, <3>2, <4>1
    <3>4. CASE y # o
      <4>1. next.lists[y] = b.lists[y] /\ IsSeq(b.lists[y])
        BY <1>10, <2>4, <3>1, <3>4
      <4>2. Grown(b.lists[y], b.lists[y])
        BY DEF Grown
      <4> QED BY <3>2, <4>1, <4>2
    <3> QED BY <3>3, <3>4
  <2>6. \A i \in 1..d : ClassOf(q, i) \in Above(q, d + 1) => s = ListFor(q, b, i)
    BY <1>10, <1>11 DEF ListFor
  <2>7. o \in DOMAIN next.owner \cap DOMAIN next.lists
    BY <1>11, <2>3, <2>4
  <2>8. \E r : /\ IsSeq(r) /\ Chained(r, q.calls[d + 1].hooks, next.lists[o])
               /\ \A i \in 1..d : ClassOf(q, i) \in Above(q, d + 1) => r = ListFor(q, b, i)
    BY <1>3, <1>11, <2>2, <2>4, <2>6
  <2>9. DOMAIN b.lists \subseteq DOMAIN next.lists
    BY <2>4
  <2> QED BY <1>1, <1>9, <1>11, <2>3, <2>5, <2>7, <2>8, <2>9, Zenon DEF Decorated
<1>12. CASE (\A n \in DOMAIN anc : anc[n] \notin DOMAIN b.owner) /\ SeenBy(b, anc) = "none"
  <2>1. o = c /\ s = <<>> /\ c \notin DOMAIN b.owner
    BY <1>4, <1>5, <1>6, <1>8, <1>12 DEF ListOf
  <2>2. IsSeq(s) /\ o # "none"
    BY <1>8, <2>1, EmptyIsSeq
  <2>3. \A y \in DOMAIN b.owner : b.owner[y] # o /\ y # c
    BY <1>10, <2>1
  <2>4. \A i \in 1..d : ClassOf(q, i) \notin Above(q, d + 1)
    BY <1>2, <1>10, <1>12 DEF Above, ToSet
  <2> QED BY <1>11, <2>1, <2>2, <2>3, <2>4
<1>13. CASE \E k \in DOMAIN anc : /\ anc[k] \in DOMAIN b.owner
                                  /\ \A n \in DOMAIN anc : anc[n] \in DOMAIN b.owner => k <= n
                                  /\ SeenBy(b, anc) = b.owner[anc[k]]
  <2>1. PICK k \in DOMAIN anc : /\ anc[k] \in DOMAIN b.owner
                                /\ \A n \in DOMAIN anc : anc[n] \in DOMAIN b.owner => k <= n
                                /\ SeenBy(b, anc) = b.owner[anc[k]]
    BY <1>13
  <2>2. seen \in DOMAIN b.owner /\ seen # "none" /\ seen = b.owner[anc[k]] /\ IsSeq(b.lists[seen])
    BY <1>4, <1>10, <2>1
  <2>3. o = seen /\ s = b.lists[o]
    BY <1>4, <1>5, <1>6, <2>2 DEF ListOf
  <2>4. c \in DOMAIN b.owner => b.owner[c] = o
    <3>1. c \in DOMAIN b.owner => k <= 1
      BY <1>8, <2>1
    <3>a. k \in Nat \ {0}
      BY <1>8, <2>1
    <3>2. c \in DOMAIN b.owner => k = 1
      BY <3>a, <3>1
    <3> QED BY <1>8, <2>2, <2>3, <3>2
  <2>5. \A i \in 1..d : ClassOf(q, i) \in Above(q, d + 1) => b.owner[ClassOf(q, i)] = o
    <3> SUFFICES ASSUME NEW i \in 1..d, ClassOf(q, i) \in Above(q, d + 1)
                 PROVE  b.owner[ClassOf(q, i)] = o
      OBVIOUS
    <3>1. FirstOwned(q, d, b, k)
      BY <1>2, <2>1, Zenon DEF FirstOwned
    <3>2. b.owner[ClassOf(q, i)] = b.owner[q.calls[d + 1].ancestry[k]]
      BY <3>1, OwnerAbove
    <3> QED BY <1>2, <2>2, <2>3, <3>2, Zenon
  <2> QED BY <1>11, <2>2, <2>3, <2>4, <2>5
<1> QED BY <1>8, <1>12, <1>13, SeenIs

(* A decoration keeps what was pushed before. *)
LEMMA DecoratedKeeps ==
  ASSUME NEW q, NEW d \in Nat, NEW b, NEW o, NEW next, Owned(q, d, b), SharedOwner(q, d, b),
         Pushed(q, d, b), SoundCalls(q, d + 1), Decorated(q, d, b, o, next)
  PROVE  Owned(q, d + 1, next) /\ SharedOwner(q, d + 1, next) /\ Pushed(q, d + 1, next)
<1>1. PICK c : c = ClassOf(q, d + 1)
  OBVIOUS
<1>2. PICK hooks : hooks = q.calls[d + 1].hooks
  OBVIOUS
<1>3. PICK s : /\ IsSeq(s) /\ Chained(s, hooks, next.lists[o])
               /\ \A i \in 1..d : ClassOf(q, i) \in Above(q, d + 1) => s = ListFor(q, b, i)
  BY <1>2 DEF Decorated
<1>4. /\ DOMAIN next.owner = DOMAIN b.owner \cup {c} /\ next.owner[c] = o
      /\ o \in DOMAIN next.owner \cap DOMAIN next.lists
      /\ \A y \in DOMAIN b.owner : next.owner[y] = b.owner[y]
      /\ DOMAIN b.lists \subseteq DOMAIN next.lists
  BY <1>1 DEF Decorated
<1>5. \A i \in 1..d : /\ Grown(ListFor(q, b, i), ListFor(q, next, i))
                      /\ IsSeq(ListFor(q, next, i))
                      /\ ClassOf(q, i) \in Above(q, d + 1) => b.owner[ClassOf(q, i)] = o
                      /\ c \in Above(q, i) => ClassOf(q, i) = c
  BY <1>1 DEF Decorated
<1>6. /\ DOMAIN b.owner = {ClassOf(q, i) : i \in 1..d} /\ "none" \notin DOMAIN b.owner
      /\ \A i \in 1..d : /\ ClassOf(q, i) \in DOMAIN b.owner
                         /\ b.owner[ClassOf(q, i)] \in DOMAIN b.owner \cap DOMAIN b.lists
  BY DEF Owned
<1>7. /\ IsSeq(hooks) /\ c # "none" /\ c \in Above(q, d + 1)
  <2>1. SoundCall(q.calls[d + 1])
    BY DEF SoundCalls
  <2> QED BY <2>1, <1>1, <1>2, AncestryFirst DEF SoundCall, ClassOf, Above
<1>8. ListFor(q, next, d + 1) = next.lists[o]
  BY <1>1, <1>4 DEF ListFor
<1>9. \A i \in 1..(d + 1) : i \in 1..d \/ i = d + 1
  OBVIOUS
<1>10. Owned(q, d + 1, next)
  <2>1. DOMAIN next.owner = {ClassOf(q, i) : i \in 1..(d + 1)}
    <3>1. \A i \in 1..d : i \in 1..(d + 1)
      OBVIOUS
    <3>2. d + 1 \in 1..(d + 1)
      OBVIOUS
    <3> QED BY <1>1, <1>4, <1>6, <1>9, <3>1, <3>2
  <2>2. "none" \notin DOMAIN next.owner
    BY <1>4, <1>6, <1>7
  <2>3. ASSUME NEW i \in 1..(d + 1)
        PROVE  /\ next.owner[ClassOf(q, i)] \in DOMAIN next.owner \cap DOMAIN next.lists
               /\ IsSeq(ListFor(q, next, i))
    <3>1. CASE i \in 1..d
      BY <3>1, <1>4, <1>5, <1>6
    <3>2. CASE i = d + 1
      BY <3>2, <1>1, <1>3, <1>4, <1>8 DEF Chained
    <3> QED BY <3>1, <3>2, <1>9
  <2> QED BY <2>1, <2>2, <2>3 DEF Owned
<1>11. SharedOwner(q, d + 1, next)
  <2> SUFFICES ASSUME NEW i \in 1..(d + 1), NEW j \in 1..(d + 1), ClassOf(q, i) \in Above(q, j)
               PROVE  next.owner[ClassOf(q, i)] = next.owner[ClassOf(q, j)]
    BY DEF SharedOwner
  <2>1. CASE i \in 1..d /\ j \in 1..d
    BY <2>1, <1>4, <1>6 DEF SharedOwner
  <2>2. CASE i \in 1..d /\ j = d + 1
    BY <2>2, <1>1, <1>4, <1>5, <1>6
  <2>3. CASE i = d + 1 /\ j \in 1..d
    BY <2>3, <1>1, <1>5
  <2>4. CASE i = d + 1 /\ j = d + 1
    BY <2>4
  <2> QED BY <1>9, <2>1, <2>2, <2>3, <2>4
<1>12. ASSUME NEW i \in 1..(d + 1), NEW g \in ToSet(q.calls[i].hooks)
       PROVE  g \in ToSet(ListFor(q, next, i))
  <2>1. CASE i \in 1..d
    <3>1. g \in ToSet(ListFor(q, b, i))
      BY <2>1, <1>12 DEF Pushed
    <3> QED BY <2>1, <3>1, <1>5, GrownKeeps
  <2>2. CASE i = d + 1
    <3>1. ToSet(hooks) \subseteq ToSet(next.lists[o])
      BY <1>3, <1>7, ChainedGrows
    <3> QED BY <2>2, <3>1, <1>2, <1>8, <1>12
  <2> QED BY <1>9, <2>1, <2>2
<1>13. ASSUME NEW i \in 1..(d + 1), NEW j \in 1..(d + 1), i < j, ClassOf(q, i) \in Above(q, j),
              NEW g \in ToSet(q.calls[i].hooks), NEW h \in ToSet(q.calls[j].hooks)
       PROVE  Precedes(ListFor(q, next, j), g, h)
  <2>1. CASE j \in 1..d
    <3>1. i \in 1..d
      BY <2>1, <1>13
    <3>2. Precedes(ListFor(q, b, j), g, h)
      BY <2>1, <3>1, <1>13 DEF Pushed
    <3> QED BY <2>1, <3>2, <1>5, GrownKeeps
  <2>2. CASE j = d + 1
    <3>1. i \in 1..d
      BY <2>2, <1>13
    <3>2. g \in ToSet(s)
      <4>1. g \in ToSet(ListFor(q, b, i))
        BY <3>1, <1>13 DEF Pushed
      <4> QED BY <2>2, <3>1, <4>1, <1>3, <1>13
    <3>3. h \in ToSet(hooks)
      BY <2>2, <1>2, <1>13
    <3>4. Precedes(next.lists[o], g, h)
      BY <3>2, <3>3, <1>3, <1>7, BaseFirst
    <3> QED BY <2>2, <3>4, <1>8
  <2> QED BY <1>9, <2>1, <2>2
<1>14. Pushed(q, d + 1, next)
  BY <1>12, <1>13 DEF Pushed
<1> QED BY <1>10, <1>11, <1>14

(* What a question about decorators is made of. *)
LEMMA DecorationCalls ==
  ASSUME Put, Of("decorations")
  PROVE  \A n \in 0..Len(question.calls) : SoundCalls(question, n) /\ Inherited(question, n)
<1>1. /\ question.calls \in Seq([ancestry : Seq(STRING \ {"none"}) \ {<<>>}, hooks : Seq(Nat)])
      /\ Lineages(question.calls)
  BY Zenon DEF Put, Sensible, Of
<1>2. Listed
  BY DEF Listed, Of
<1>3. DOMAIN question.calls = 1..Len(question.calls) /\ Len(question.calls) \in Nat
  BY <1>2, ListedCalls
<1>4. ASSUME NEW i \in DOMAIN question.calls PROVE SoundCall(question.calls[i])
  <2>1. question.calls[i] \in [ancestry : Seq(STRING \ {"none"}) \ {<<>>}, hooks : Seq(Nat)]
    BY <1>1, ElementOf
  <2>2. /\ question.calls[i].ancestry \in Seq(STRING \ {"none"})
        /\ question.calls[i].ancestry # <<>> /\ question.calls[i].hooks \in Seq(Nat)
    BY <2>1
  <2>3. "none" \notin ToSet(question.calls[i].ancestry)
    BY <2>2 DEF ToSet
  <2> QED BY <2>2, <2>3 DEF SoundCall, IsSeq
<1>5. ASSUME NEW n \in 0..Len(question.calls)
      PROVE  SoundCalls(question, n) /\ Inherited(question, n)
  <2>1. 1..n \subseteq DOMAIN question.calls
    BY <1>3
  <2>2. SoundCalls(question, n)
    BY <1>4, <2>1 DEF SoundCalls
  <2>3. Inherited(question, n)
    BY <1>1, <2>1, Zenon DEF Lineages, Inherited
  <2> QED BY <2>2, <2>3
<1> QED BY <1>5

(* Each step keeps the invariant about decorators. *)
LEMMA DecorationsStep == ASSUME Put, DecorationsInv, Compute PROVE DecorationsInv'
<1> SUFFICES ASSUME Of("decorations") PROVE DecorationsInv'
  BY Counts DEF DecorationsInv, Of, Put
<1>1. /\ question' = question /\ done' = done + 1 /\ done \in Nat
      /\ done < Len(question.calls)
      /\ answer' = Decorate(answer, question.calls[done + 1])
  BY ActionOf DEF DecorateClass, Takes, Upcoming, Put
<1>2. SoundCalls(question, done + 1) /\ Inherited(question, done + 1)
  <2>1. Listed
    BY DEF Listed, Of
  <2>2. done + 1 \in 0..Len(question.calls)
    BY <1>1, <2>1, ListedCalls
  <2> QED BY <2>2, DecorationCalls
<1>3. /\ Owned(question, done, answer) /\ SharedOwner(question, done, answer)
      /\ Pushed(question, done, answer)
  BY DEF DecorationsInv
<1>4. PICK o : Decorated(question, done, answer, o, answer')
  BY <1>1, <1>2, <1>3, OneDecoration
<1>5. /\ Owned(question, done + 1, answer') /\ SharedOwner(question, done + 1, answer')
      /\ Pushed(question, done + 1, answer')
  BY <1>1, <1>2, <1>3, <1>4, DecoratedKeeps
<1> QED BY <1>1, <1>5 DEF DecorationsInv

(* The guards of a base class come first and none is lost. *)
LEMMA DecorationsEnd == ASSUME Put, DecorationsInv PROVE GuardsInherited
<1> SUFFICES ASSUME Of("decorations") PROVE GuardsInherited
  BY DEF GuardsInherited
<1>1. /\ Owned(question, done, answer) /\ SharedOwner(question, done, answer)
      /\ Pushed(question, done, answer)
  BY DEF DecorationsInv
<1>2. SoundCalls(question, done) /\ done \in Nat
  <2>1. Listed
    BY DEF Listed, Of
  <2>2. done \in 0..Len(question.calls)
    BY <2>1, ListedCalls DEF Put
  <2> QED BY <2>2, DecorationCalls
<1>3. ASSUME NEW j \in 1..done
      PROVE  ListOf(answer, question.calls[j].ancestry) = ListFor(question, answer, j)
  <2>1. SoundCall(question.calls[j])
    BY <1>2 DEF SoundCalls
  <2>2. PICK anc : anc = question.calls[j].ancestry
    OBVIOUS
  <2>3. IsSeq(anc) /\ 1 \in DOMAIN anc /\ DOMAIN anc = 1..Len(anc) /\ anc[1] = ClassOf(question, j)
    BY <2>1, <2>2, AncestryFirst DEF SoundCall, ClassOf
  <2>4. anc[1] \in DOMAIN answer.owner /\ answer.owner[anc[1]] # "none"
    BY <2>3, <1>1 DEF Owned
  <2>5. SeenBy(answer, anc) = answer.owner[anc[1]]
    <3>1. PICK k \in DOMAIN anc : /\ \A n \in DOMAIN anc : anc[n] \in DOMAIN answer.owner => k <= n
                                  /\ SeenBy(answer, anc) = answer.owner[anc[k]]
      BY <2>3, <2>4, SeenIs
    <3>2. k = 1
      BY <2>3, <2>4, <3>1
    <3> QED BY <3>1, <3>2
  <2> QED BY <2>2, <2>3, <2>4, <2>5 DEF ListOf, ListFor
<1>4. ASSUME NEW i \in Taken, NEW j \in Taken,
             Call(i).ancestry[1] \in ToSet(Call(j).ancestry),
             NEW g \in ToSet(Call(i).hooks)
      PROVE  LET seen == ListOf(answer, Call(j).ancestry) IN
             /\ g \in ToSet(seen)
             /\ i < j => \A h \in ToSet(Call(j).hooks) :
                           \E a, b \in DOMAIN seen : a < b /\ seen[a] = g /\ seen[b] = h
  <2>1. i \in 1..done /\ j \in 1..done /\ ClassOf(question, i) \in Above(question, j)
        /\ g \in ToSet(question.calls[i].hooks)
    BY <1>4 DEF Taken, Call, ClassOf, Above
  <2>2. PICK seen : seen = ListOf(answer, Call(j).ancestry)
    OBVIOUS
  <2>3. seen = ListFor(question, answer, j)
    BY <1>3, <2>1, <2>2 DEF Call
  <2>4. ListFor(question, answer, i) = ListFor(question, answer, j)
    BY <1>1, <2>1 DEF SharedOwner, ListFor
  <2>5. g \in ToSet(seen)
    BY <1>1, <2>1, <2>3, <2>4 DEF Pushed
  <2>6. i < j => \A h \in ToSet(Call(j).hooks) : Precedes(seen, g, h)
    BY <1>1, <2>1, <2>3 DEF Pushed, Call
  <2> QED BY <2>2, <2>5, <2>6, Zenon DEF Precedes
<1> QED BY <1>4, Zenon DEF GuardsInherited

-----------------------------------------------------------------------------
(* Routes *)

(* The invariant about routes holds when it is asked. *)
LEMMA RoutesStart == ASSUME Ask PROVE RoutesInv
<1> SUFFICES ASSUME Of("routes") PROVE RoutesInv
  BY DEF RoutesInv
<1>1. answer = [table |-> <<>>, delegates |-> <<>>]
  BY Zenon DEF Ask, Begin, Of
<1>2. done = 0
  BY DEF Ask
<1>3. answer.table = <<>> /\ answer.delegates = <<>>
  BY <1>1
<1>4. answer \in [table : {answer.table}, delegates : {answer.delegates}]
  BY <1>1
<1>5. TableOf(question, 0, <<>>) /\ DelegatesOf(question, 0, <<>>)
  BY EmptyIsSeq DEF TableOf, DelegatesOf
<1> QED BY <1>2, <1>3, <1>4, <1>5 DEF RoutesInv

(* The registrations of a pattern after one more call. *)
LEMMA RegsOnNext ==
  ASSUME NEW q, NEW d \in Nat, NEW p
  PROVE  /\ RegsOn(q, d, p) \subseteq 1..d
         /\ q.calls[d + 1].do = "route" /\ q.calls[d + 1].pattern = p =>
              RegsOn(q, d + 1, p) = RegsOn(q, d, p) \cup {d + 1}
         /\ q.calls[d + 1].do # "route" \/ q.calls[d + 1].pattern # p =>
              RegsOn(q, d + 1, p) = RegsOn(q, d, p)
<1>1. \A i \in 1..(d + 1) : i \in 1..d \/ i = d + 1
  OBVIOUS
<1>2. d + 1 \in 1..(d + 1) /\ \A i \in 1..d : i \in 1..(d + 1)
  OBVIOUS
<1> QED BY <1>1, <1>2 DEF RegsOn

(* A row that one more call is not about. *)
LEMMA RowStays ==
  ASSUME NEW q, NEW d \in Nat, NEW row, RowOf(q, d, row),
         q.calls[d + 1].do # "route" \/ q.calls[d + 1].pattern # row.pattern
  PROVE  RowOf(q, d + 1, row)
<1>1. RegsOn(q, d + 1, row.pattern) = RegsOn(q, d, row.pattern)
  BY RegsOnNext
<1> QED BY <1>1, Zenon DEF RowOf

(* A row that gets one more method, or another handler for one. *)
LEMMA RowGrows ==
  ASSUME NEW q, NEW d \in Nat, NEW row, RowOf(q, d, row),
         NEW r, r = q.calls[d + 1], r.do = "route", r.pattern = row.pattern,
         NEW next, next = [row EXCEPT !.methods = SetMethod(@, r.method, r.handler)]
  PROVE  RowOf(q, d + 1, next) /\ next.pattern = row.pattern
<1>1. PICK methods : methods = SetMethod(row.methods, r.method, r.handler)
  OBVIOUS
<1>2. next \in [pattern : {row.pattern}, methods : {methods}]
  BY <1>1 DEF RowOf
<1>3. next.pattern = row.pattern /\ next.methods = methods
  BY <1>2
<1>4. PICK S : S = RegsOn(q, d, row.pattern)
  OBVIOUS
<1>5. RegsOn(q, d + 1, row.pattern) = S \cup {d + 1} /\ S \subseteq 1..d
  BY <1>4, RegsOnNext
<1>6. /\ DOMAIN row.methods = {q.calls[i].method : i \in S}
      /\ \A i \in S : (\A j \in S : q.calls[j].method = q.calls[i].method => j <= i) =>
           row.methods[q.calls[i].method] = q.calls[i].handler
  BY <1>4 DEF RowOf
<1>7. /\ DOMAIN methods = DOMAIN row.methods \cup {r.method} /\ methods[r.method] = r.handler
      /\ \A x \in DOMAIN row.methods : x # r.method => methods[x] = row.methods[x]
  BY <1>1 DEF SetMethod
<1>8. DOMAIN methods = {q.calls[i].method : i \in S \cup {d + 1}}
  BY <1>6, <1>7
<1>9. ASSUME NEW i \in S \cup {d + 1},
             \A j \in S \cup {d + 1} : q.calls[j].method = q.calls[i].method => j <= i
      PROVE  methods[q.calls[i].method] = q.calls[i].handler
  <2>1. CASE i = d + 1
    BY <2>1, <1>7
  <2>2. CASE i # d + 1
    <3>1. i \in S /\ ~ (d + 1 <= i)
      BY <2>2, <1>5
    <3>2. q.calls[i].method # r.method
      BY <3>1, <1>9
    <3>3. row.methods[q.calls[i].method] = q.calls[i].handler
      BY <3>1, <1>6, <1>9
    <3> QED BY <3>1, <3>2, <3>3, <1>6, <1>7
  <2> QED BY <2>1, <2>2
<1>10. next \in [pattern : {next.pattern}, methods : {next.methods}]
  BY <1>2, <1>3
<1>11. RegsOn(q, d + 1, row.pattern) # {}
  BY <1>5
<1> QED BY <1>3, <1>5, <1>8, <1>9, <1>10, <1>11 DEF RowOf

(* The row of a pattern that is new. *)
LEMMA RowBegins ==
  ASSUME NEW q, NEW d \in Nat, NEW r, r = q.calls[d + 1], r.do = "route",
         RegsOn(q, d, r.pattern) = {},
         NEW row, row = [pattern |-> r.pattern,
                         methods |-> SetMethod(EmptyMethods, r.method, r.handler)]
  PROVE  RowOf(q, d + 1, row) /\ row.pattern = r.pattern
<1>1. PICK methods : methods = SetMethod(EmptyMethods, r.method, r.handler)
  OBVIOUS
<1>2. /\ row \in [pattern : {row.pattern}, methods : {row.methods}]
      /\ row.pattern = r.pattern /\ row.methods = methods
  BY <1>1
<1>3. RegsOn(q, d + 1, r.pattern) = {d + 1}
  BY RegsOnNext
<1>4. DOMAIN methods = {r.method} /\ methods[r.method] = r.handler
  <2>1. DOMAIN EmptyMethods = {}
    BY DEF EmptyMethods
  <2> QED BY <1>1, <2>1 DEF SetMethod
<1> QED BY <1>2, <1>3, <1>4 DEF RowOf

(* A step that takes no route leaves the table right. *)
LEMMA TableStays ==
  ASSUME NEW q, NEW d \in Nat, NEW t, TableOf(q, d, t), q.calls[d + 1].do # "route"
  PROVE  TableOf(q, d + 1, t)
<1>1. \A p : RegsOn(q, d + 1, p) = RegsOn(q, d, p)
  BY RegsOnNext
<1>2. \A n \in DOMAIN t : RowOf(q, d + 1, t[n])
  BY RowStays DEF TableOf
<1>3. \A i \in 1..(d + 1) : i \in 1..d \/ i = d + 1
  OBVIOUS
<1> QED BY <1>1, <1>2, <1>3 DEF TableOf

(* addRoute keeps one row for each pattern, in order. *)
LEMMA OneMoreRoute ==
  ASSUME NEW q, NEW d \in Nat, NEW t, TableOf(q, d, t), NEW r, r = q.calls[d + 1], r.do = "route",
         NEW next, next = AddRoute(t, r)
  PROVE  TableOf(q, d + 1, next)
<1>1. /\ IsSeq(t) /\ \A n \in DOMAIN t : RowOf(q, d, t[n])
      /\ \A n, m \in DOMAIN t : n < m =>
           \E i \in RegsOn(q, d, t[n].pattern) : \A j \in RegsOn(q, d, t[m].pattern) : i < j
      /\ \A i \in 1..d : q.calls[i].do = "route" =>
           \E n \in DOMAIN t : t[n].pattern = q.calls[i].pattern
  BY DEF TableOf
<1>2. Len(t) \in Nat /\ DOMAIN t = 1..Len(t)
  BY <1>1, SeqDomain
<1>3. \A i \in 1..(d + 1) : i \in 1..d \/ i = d + 1
  OBVIOUS
<1>4. \A p : /\ RegsOn(q, d, p) \subseteq 1..d
             /\ RegsOn(q, d, p) \subseteq RegsOn(q, d + 1, p)
             /\ \A j \in RegsOn(q, d + 1, p) : j \in RegsOn(q, d, p) \/ j = d + 1
  BY RegsOnNext
<1>5. ASSUME NEW p1, NEW p2,
             \E i \in RegsOn(q, d, p1) : \A j \in RegsOn(q, d, p2) : i < j
      PROVE  \E i \in RegsOn(q, d + 1, p1) : \A j \in RegsOn(q, d + 1, p2) : i < j
  <2>1. PICK i \in RegsOn(q, d, p1) : \A j \in RegsOn(q, d, p2) : i < j
    BY <1>5
  <2>2. i \in RegsOn(q, d + 1, p1) /\ i < d + 1
    BY <1>4
  <2> QED BY <1>4, <2>1, <2>2
<1>6. CASE \E n \in DOMAIN t : t[n].pattern = r.pattern
  <2>1. next = [n \in DOMAIN t |->
                  IF t[n].pattern = r.pattern
                  THEN [t[n] EXCEPT !.methods = SetMethod(@, r.method, r.handler)]
                  ELSE t[n]]
    BY <1>6 DEF AddRoute
  <2>2. DOMAIN next = DOMAIN t
    BY <2>1
  <2>3. ASSUME NEW n \in DOMAIN t
        PROVE  RowOf(q, d + 1, next[n]) /\ next[n].pattern = t[n].pattern
    <3>1. RowOf(q, d, t[n])
      BY <1>1
    <3>2. CASE t[n].pattern = r.pattern
      <4>1. next[n] = [t[n] EXCEPT !.methods = SetMethod(@, r.method, r.handler)]
        BY <2>1, <3>2
      <4> QED BY <3>1, <3>2, <4>1, RowGrows
    <3>3. CASE t[n].pattern # r.pattern
      <4>1. next[n] = t[n]
        BY <2>1, <3>3
      <4>2. RowOf(q, d + 1, t[n])
        BY <3>1, <3>3, RowStays
      <4> QED BY <4>1, <4>2
    <3> QED BY <3>2, <3>3
  <2>4. IsSeq(next)
    <3>1. next \in [1..Len(t) -> {next[n] : n \in DOMAIN t}]
      BY <1>2, <2>1
    <3>2. next \in Seq({next[n] : n \in DOMAIN t})
      BY <1>2, <3>1
    <3> QED BY <3>2 DEF IsSeq
  <2>5. ASSUME NEW n \in DOMAIN t, NEW m \in DOMAIN t, n < m
        PROVE  \E i \in RegsOn(q, d + 1, next[n].pattern) :
                 \A j \in RegsOn(q, d + 1, next[m].pattern) : i < j
    <3>1. \E i \in RegsOn(q, d, t[n].pattern) : \A j \in RegsOn(q, d, t[m].pattern) : i < j
      BY <1>1, <2>5
    <3>2. next[n].pattern = t[n].pattern /\ next[m].pattern = t[m].pattern
      BY <2>3
    <3>3. \E i \in RegsOn(q, d + 1, t[n].pattern) : \A j \in RegsOn(q, d + 1, t[m].pattern) : i < j
      BY <3>1, <1>5
    <3> QED BY <3>2, <3>3
  <2>6. ASSUME NEW i \in 1..(d + 1), q.calls[i].do = "route"
        PROVE  \E n \in DOMAIN next : next[n].pattern = q.calls[i].pattern
    <3>1. \E n \in DOMAIN t : t[n].pattern = q.calls[i].pattern
      BY <1>1, <1>3, <1>6, <2>6
    <3> QED BY <2>2, <2>3, <3>1
  <2> QED BY <2>2, <2>3, <2>4, <2>5, <2>6 DEF TableOf
<1>7. CASE ~ \E n \in DOMAIN t : t[n].pattern = r.pattern
  <2>1. PICK row : row = [pattern |-> r.pattern,
                          methods |-> SetMethod(EmptyMethods, r.method, r.handler)]
    OBVIOUS
  <2>2. next = Append(t, row)
    BY <1>7, <2>1 DEF AddRoute
  <2>3. Longer(t, row, next)
    BY <1>1, <2>2, Appending
  <2>4. /\ IsSeq(next) /\ DOMAIN next = 1..(Len(t) + 1) /\ next[Len(t) + 1] = row
        /\ \A n \in DOMAIN t : next[n] = t[n] /\ n \in 1..(Len(t) + 1)
    BY <1>2, <2>3, SeqDomain DEF Longer
  <2>5. RegsOn(q, d, r.pattern) = {}
    BY <1>1, <1>7 DEF RegsOn
  <2>6. RowOf(q, d + 1, row) /\ row.pattern = r.pattern
    BY <2>1, <2>5, RowBegins
  <2>7. \A n \in DOMAIN next : n \in DOMAIN t \/ n = Len(t) + 1
    BY <1>2, <2>4
  <2>8. \A n \in DOMAIN t : RowOf(q, d + 1, t[n])
    BY <1>1, <1>7, RowStays
  <2>9. \A n \in DOMAIN next : RowOf(q, d + 1, next[n])
    BY <2>4, <2>6, <2>7, <2>8
  <2>10. ASSUME NEW n \in DOMAIN next, NEW m \in DOMAIN next, n < m
         PROVE  \E i \in RegsOn(q, d + 1, next[n].pattern) :
                  \A j \in RegsOn(q, d + 1, next[m].pattern) : i < j
    <3>1. n \in DOMAIN t /\ next[n] = t[n]
      BY <1>2, <2>4, <2>7, <2>10
    <3>2. CASE m \in DOMAIN t
      <4>1. \E i \in RegsOn(q, d, t[n].pattern) : \A j \in RegsOn(q, d, t[m].pattern) : i < j
        BY <1>1, <2>10, <3>1, <3>2
      <4>2. \E i \in RegsOn(q, d + 1, t[n].pattern) : \A j \in RegsOn(q, d + 1, t[m].pattern) : i < j
        BY <4>1, <1>5
      <4> QED BY <2>4, <3>1, <3>2, <4>2
    <3>3. CASE m = Len(t) + 1
      <4>1. next[m].pattern = r.pattern
        BY <2>4, <2>6, <3>3
      <4>2. PICK i : i \in RegsOn(q, d, t[n].pattern)
        BY <1>1, <3>1 DEF RowOf
      <4>3. \A j \in RegsOn(q, d + 1, r.pattern) : j = d + 1
        BY <1>4, <2>5
      <4>4. i \in RegsOn(q, d + 1, t[n].pattern) /\ i < d + 1
        BY <1>4, <4>2
      <4> QED BY <3>1, <4>1, <4>3, <4>4
    <3> QED BY <2>7, <3>2, <3>3
  <2>11. ASSUME NEW i \in 1..(d + 1), q.calls[i].do = "route"
         PROVE  \E n \in DOMAIN next : next[n].pattern = q.calls[i].pattern
    <3>1. CASE i \in 1..d
      <4>1. PICK n \in DOMAIN t : t[n].pattern = q.calls[i].pattern
        BY <1>1, <2>11, <3>1
      <4> QED BY <2>4, <4>1
    <3>2. CASE i = d + 1
      <4>1. Len(t) + 1 \in DOMAIN next
        BY <1>2, <2>4
      <4> QED BY <2>4, <2>6, <3>2, <4>1
    <3> QED BY <1>3, <3>1, <3>2
  <2> QED BY <2>4, <2>9, <2>10, <2>11 DEF TableOf
<1> QED BY <1>6, <1>7

(* An insertion shifts what is behind it. *)
LEMMA Inserting ==
  ASSUME NEW s, IsSeq(s), NEW k \in 1..Len(s), NEW e, NEW u, u = InsertAt(s, k, e)
  PROVE  Inserted(s, k, e, u)
<1>1. PICK T : s \in Seq(T)
  BY DEF IsSeq
<1>2. PICK S : S = T \cup {e}
  OBVIOUS
<1>3. s \in Seq(S) /\ e \in S /\ Len(s) \in Nat
  BY <1>1, <1>2
<1>4. PICK a : a = SubSeq(s, 1, k - 1)
  OBVIOUS
<1>5. PICK c : c = SubSeq(s, k, Len(s))
  OBVIOUS
<1>6. a \in Seq(S) /\ Len(a) = k - 1 /\ \A n \in 1..(k - 1) : a[n] = s[n]
  BY <1>3, <1>4
<1>7. c \in Seq(S) /\ Len(c) = Len(s) - k + 1 /\ \A n \in 1..(Len(s) - k + 1) : c[n] = s[k + n - 1]
  BY <1>3, <1>5
<1>8. u = (a \o <<e>>) \o c
  BY <1>4, <1>5 DEF InsertAt
<1>9. PICK f : f = a \o <<e>>
  OBVIOUS
<1>10. f \in Seq(S) /\ Len(f) = k /\ f[k] = e /\ \A n \in 1..(k - 1) : f[n] = s[n]
  BY <1>3, <1>6, <1>9
<1>11. u \in Seq(S) /\ Len(u) = Len(s) + 1
  <2>1. u = f \o c
    BY <1>8, <1>9
  <2>2. f \in Seq(S) /\ c \in Seq(S) /\ Len(f) = k /\ Len(c) = Len(s) - k + 1
    BY <1>7, <1>10
  <2>3. f \o c \in Seq(S) /\ Len(f \o c) = Len(f) + Len(c)
    BY <2>2
  <2> QED BY <2>1, <2>2, <2>3, <1>3
<1>12. ASSUME NEW n \in 1..(Len(s) + 1)
       PROVE  /\ n <= k => u[n] = f[n]
              /\ n > k => u[n] = s[n - 1]
  <2>1. u = f \o c
    BY <1>8, <1>9
  <2>2. ASSUME n <= k PROVE u[n] = f[n]
    <3>1. f \in Seq(S) /\ c \in Seq(S) /\ n \in 1..Len(f)
      BY <2>2, <1>3, <1>7, <1>10
    <3>2. (f \o c)[n] = f[n]
      BY <3>1
    <3> QED BY <2>1, <3>2
  <2>3. ASSUME n > k PROVE u[n] = s[n - 1]
    <3>1. u[n] = c[n - k]
      <4>1. /\ f \in Seq(S) /\ c \in Seq(S) /\ Len(f) = k
            /\ n \in (Len(f) + 1)..(Len(f) + Len(c))
        BY <2>3, <1>3, <1>7, <1>10
      <4>2. (f \o c)[n] = c[n - Len(f)]
        BY <4>1
      <4> QED BY <2>1, <4>1, <4>2
    <3>2. n - k \in 1..(Len(s) - k + 1)
      BY <2>3, <1>3
    <3>3. c[n - k] = s[k + (n - k) - 1]
      BY <3>2, <1>7
    <3> QED BY <3>1, <3>3, <1>3
  <2> QED BY <2>2, <2>3
<1>13. \A n \in 1..Len(s) : n < k => u[n] = s[n]
  BY <1>3, <1>10, <1>12
<1>14. u[k] = e
  BY <1>3, <1>10, <1>12
<1>15. ASSUME NEW n \in 1..Len(s), n >= k PROVE u[n + 1] = s[n]
  <2>1. n + 1 \in 1..(Len(s) + 1) /\ n + 1 > k
    BY <1>3, <1>15
  <2>2. u[n + 1] = s[(n + 1) - 1]
    BY <2>1, <1>12
  <2> QED BY <2>2
<1>16. IsSeq(u)
  BY <1>11 DEF IsSeq
<1> QED BY <1>11, <1>13, <1>14, <1>15, <1>16 DEF Inserted

(* A route does not change the delegates. *)
LEMMA DelegatesStay ==
  ASSUME NEW q, NEW d \in Nat, NEW s, DelegatesOf(q, d, s), q.calls[d + 1].do # "delegate"
  PROVE  DelegatesOf(q, d + 1, s)
<1>1. \A i \in 1..(d + 1) : i \in 1..d \/ i = d + 1
  OBVIOUS
<1>2. \A i \in 1..d : i \in 1..(d + 1)
  OBVIOUS
<1> QED BY <1>1, <1>2 DEF DelegatesOf

(* Delegates are compared by the length of their prefixes. *)
LEMMA PrefixLengths ==
  ASSUME NEW p, IsSeq(p)
  PROVE  /\ PrefixLength(p) \in Nat
         /\ \A r : IsSeq(r) /\ PrefixLength(p) >= PrefixLength(r) => Len(r) <= Len(p)
<1>1. ASSUME NEW r, IsSeq(r)
      PROVE  /\ Len(r) \in Nat /\ PrefixLength(r) \in Nat
             /\ Len(r) = 0 => PrefixLength(r) = 1
             /\ Len(r) # 0 => PrefixLength(r) = 2 * Len(r)
  <2>1. Len(r) \in Nat /\ (r = <<>> <=> Len(r) = 0)
    BY <1>1 DEF IsSeq
  <2> QED BY <2>1 DEF PrefixLength
<1>2. Len(p) \in Nat /\ PrefixLength(p) \in Nat
  BY <1>1
<1>3. ASSUME NEW r, IsSeq(r), PrefixLength(p) >= PrefixLength(r) PROVE Len(r) <= Len(p)
  BY <1>1, <1>3
<1> QED BY <1>2, <1>3

(* The length of a prefix is a number. *)
LEMMA PrefixIsNat == ASSUME NEW p, IsSeq(p) PROVE PrefixLength(p) \in Nat
BY PrefixLengths

(* A delegate is inserted in front of the shorter ones. *)
LEMMA OneMoreDelegate ==
  ASSUME NEW q, NEW d \in Nat, NEW s, DelegatesOf(q, d, s),
         NEW e, e = q.calls[d + 1], e.do = "delegate",
         \A i \in 1..(d + 1) : q.calls[i].do = "delegate" => IsSeq(q.calls[i].prefix),
         NEW next, next = AddDelegate(s, e)
  PROVE  DelegatesOf(q, d + 1, next)
<1>1. /\ IsSeq(s)
      /\ \A n \in DOMAIN s : \E i \in 1..d : q.calls[i].do = "delegate" /\ s[n] = q.calls[i]
      /\ \A i \in 1..d : q.calls[i].do = "delegate" => \E n \in DOMAIN s : s[n] = q.calls[i]
      /\ \A n, m \in DOMAIN s : n < m => PrefixLength(s[n].prefix) >= PrefixLength(s[m].prefix)
  BY DEF DelegatesOf
<1>2. PICK len \in Nat : len = Len(s) /\ DOMAIN s = 1..len
  BY <1>1, SeqDomain
<1>3. \A i \in 1..(d + 1) : i \in 1..d \/ i = d + 1
  OBVIOUS
<1>4. (\A i \in 1..d : i \in 1..(d + 1)) /\ d + 1 \in 1..(d + 1)
  OBVIOUS
<1>5. PrefixLength(e.prefix) \in Nat /\ \A n \in 1..len : PrefixLength(s[n].prefix) \in Nat
  <2>1. IsSeq(e.prefix) /\ PrefixLength(e.prefix) \in Nat
    BY <1>4, PrefixIsNat
  <2>2. ASSUME NEW n \in 1..len PROVE PrefixLength(s[n].prefix) \in Nat
    <3>1. PICK i \in 1..d : q.calls[i].do = "delegate" /\ s[n] = q.calls[i]
      BY <1>1, <1>2
    <3>2. IsSeq(s[n].prefix)
      BY <3>1, <1>4, Zenon
    <3> QED BY <3>2, PrefixIsNat
  <2> QED BY <2>1, <2>2
<1>6. PICK S : S = Shorter(s, e)
  OBVIOUS
<1>7. next = IF S = {} THEN Append(s, e) ELSE InsertAt(s, Min(S), e)
  <2>1. SelectInSeq(s, LAMBDA x : PrefixLength(x.prefix) < PrefixLength(e.prefix)) =
          IF S # {} THEN Min(S) ELSE 0
    BY <1>6 DEF SelectInSeq, Shorter
  <2>2. S # {} => Min(S) \in S
    <3>1. S \in SUBSET Nat
      BY <1>6 DEF Shorter
    <3> QED BY <3>1, LeastExists
  <2>3. 0 \notin S
    BY <1>6 DEF Shorter
  <2> QED BY <2>1, <2>2, <2>3 DEF AddDelegate
<1>8. PICK k \in 1..(len + 1) : /\ Inserted(s, k, e, next)
                                /\ \A n \in 1..len : n < k => PrefixLength(s[n].prefix) >= PrefixLength(e.prefix)
                                /\ k <= len => PrefixLength(s[k].prefix) < PrefixLength(e.prefix)
  <2>1. CASE S = {}
    <3>1. Longer(s, e, next)
      BY <1>1, <1>7, <2>1, Appending
    <3>2. Inserted(s, len + 1, e, next)
      BY <1>2, <3>1 DEF Longer, Inserted
    <3>3. \A n \in 1..len : PrefixLength(s[n].prefix) >= PrefixLength(e.prefix)
      BY <1>2, <1>5, <1>6, <2>1 DEF Shorter
    <3> QED BY <3>2, <3>3
  <2>2. CASE S # {}
    <3>1. PICK k : k = Min(S)
      OBVIOUS
    <3>2. k \in S /\ \A x \in S : k <= x
      <4>1. S \in SUBSET Nat
        BY <1>6 DEF Shorter
      <4> QED BY <2>2, <3>1, <4>1, LeastExists
    <3>3. k \in 1..len /\ PrefixLength(s[k].prefix) < PrefixLength(e.prefix)
      BY <1>2, <1>6, <3>2 DEF Shorter
    <3>4. Inserted(s, k, e, next)
      <4>1. next = InsertAt(s, k, e) /\ k \in 1..Len(s)
        BY <1>2, <1>7, <2>2, <3>1, <3>3
      <4> QED BY <1>1, <4>1, Inserting
    <3>5. \A n \in 1..len : n < k => PrefixLength(s[n].prefix) >= PrefixLength(e.prefix)
      <4> SUFFICES ASSUME NEW n \in 1..len, n < k
                   PROVE  PrefixLength(s[n].prefix) >= PrefixLength(e.prefix)
        OBVIOUS
      <4>1. n \notin S
        BY <3>2, <3>3
      <4> QED BY <4>1, <1>2, <1>5, <1>6 DEF Shorter
    <3> QED BY <3>3, <3>4, <3>5
  <2> QED BY <2>1, <2>2
<1>9. /\ IsSeq(next) /\ DOMAIN next = 1..(len + 1)
      /\ \A n \in 1..len : n < k => next[n] = s[n]
      /\ next[k] = e
      /\ \A n \in 1..len : n >= k => next[n + 1] = s[n]
  BY <1>2, <1>8, SeqDomain DEF Inserted
<1>10. ASSUME NEW n \in 1..(len + 1)
       PROVE  \/ n < k /\ n \in 1..len /\ next[n] = s[n]
              \/ n = k /\ next[n] = e
              \/ n > k /\ n - 1 \in 1..len /\ n - 1 >= k /\ next[n] = s[n - 1]
  <2>1. CASE n < k
    BY <2>1, <1>9
  <2>2. CASE n = k
    BY <2>2, <1>9
  <2>3. CASE n > k
    <3>1. n - 1 \in 1..len /\ n - 1 >= k /\ (n - 1) + 1 = n
      BY <2>3, <1>8
    <3>2. next[(n - 1) + 1] = s[n - 1]
      BY <3>1, <1>9
    <3> QED BY <2>3, <3>1, <3>2
  <2> QED BY <2>1, <2>2, <2>3
<1>11. ASSUME NEW n \in DOMAIN next
       PROVE  \E i \in 1..(d + 1) : q.calls[i].do = "delegate" /\ next[n] = q.calls[i]
  <2>1. next[n] = e \/ \E m \in DOMAIN s : next[n] = s[m]
    BY <1>2, <1>9, <1>10
  <2> QED BY <1>1, <1>4, <2>1
<1>12. ASSUME NEW i \in 1..(d + 1), q.calls[i].do = "delegate"
       PROVE  \E n \in DOMAIN next : next[n] = q.calls[i]
  <2>1. CASE i \in 1..d
    <3>1. PICK m \in 1..len : s[m] = q.calls[i]
      BY <1>1, <1>2, <1>12, <2>1
    <3>2. \/ m < k /\ next[m] = s[m] /\ m \in DOMAIN next
          \/ m >= k /\ next[m + 1] = s[m] /\ m + 1 \in DOMAIN next
      BY <1>9
    <3> QED BY <3>1, <3>2
  <2>2. CASE i = d + 1
    BY <2>2, <1>9
  <2> QED BY <1>3, <2>1, <2>2
<1> DEFINE PL(x) == PrefixLength(x.prefix)
<1>13. \A n, m \in 1..len : n <= m => PL(s[n]) >= PL(s[m])
  <2> SUFFICES ASSUME NEW n \in 1..len, NEW m \in 1..len, n <= m PROVE PL(s[n]) >= PL(s[m])
    OBVIOUS
  <2>1. n = m \/ n < m
    OBVIOUS
  <2>2. PL(s[n]) \in Nat
    BY <1>5
  <2>3. n < m => PL(s[n]) >= PL(s[m])
    BY <1>1, <1>2
  <2> HIDE DEF PL
  <2> QED BY <2>1, <2>2, <2>3
<1>14. /\ PL(e) \in Nat /\ \A n \in 1..len : PL(s[n]) \in Nat
       /\ \A n \in 1..len : n < k => PL(s[n]) >= PL(e)
       /\ k <= len => PL(s[k]) < PL(e)
  BY <1>5, <1>8
<1> HIDE DEF PL
<1>15. \A n \in 1..len : n >= k => PL(e) >= PL(s[n])
  <2> SUFFICES ASSUME NEW n \in 1..len, n >= k PROVE PL(e) >= PL(s[n])
    OBVIOUS
  <2>1. k \in 1..len
    BY <1>8
  <2>2. PL(s[k]) >= PL(s[n]) /\ PL(s[k]) < PL(e)
    BY <1>13, <1>14, <2>1
  <2> QED BY <1>14, <2>1, <2>2
<1>16. ASSUME NEW n \in DOMAIN next, NEW m \in DOMAIN next, n < m
       PROVE  PL(next[n]) >= PL(next[m])
  <2>1. n \in 1..(len + 1) /\ m \in 1..(len + 1) /\ k \in 1..(len + 1)
    BY <1>9
  <2>2. CASE n < k /\ n \in 1..len /\ next[n] = s[n]
    <3>1. CASE m < k /\ m \in 1..len /\ next[m] = s[m]
      BY <2>2, <3>1, <1>13, <1>16
    <3>2. CASE m = k /\ next[m] = e
      BY <2>2, <3>2, <1>14
    <3>3. CASE m > k /\ m - 1 \in 1..len /\ m - 1 >= k /\ next[m] = s[m - 1]
      <4>1. n <= m - 1
        BY <2>1, <2>2, <3>3
      <4> QED BY <2>2, <3>3, <4>1, <1>13
    <3> QED BY <2>1, <3>1, <3>2, <3>3, <1>10
  <2>3. CASE n = k /\ next[n] = e
    <3>1. m > k /\ m - 1 \in 1..len /\ m - 1 >= k /\ next[m] = s[m - 1]
      BY <2>1, <2>3, <1>10, <1>16
    <3> QED BY <2>3, <3>1, <1>15
  <2>4. CASE n > k /\ n - 1 \in 1..len /\ n - 1 >= k /\ next[n] = s[n - 1]
    <3>1. m > k /\ m - 1 \in 1..len /\ m - 1 >= k /\ next[m] = s[m - 1]
      BY <2>1, <2>4, <1>10, <1>16
    <3>2. n - 1 <= m - 1
      BY <2>1, <1>16
    <3> QED BY <2>4, <3>1, <3>2, <1>13
  <2> QED BY <2>1, <2>2, <2>3, <2>4, <1>10
<1> QED BY <1>9, <1>11, <1>12, <1>16 DEF DelegatesOf, PL

(* What a question about routes is made of. *)
LEMMA RouteCalls ==
  ASSUME Put, Of("routes")
  PROVE  /\ \A i \in DOMAIN question.calls :
              /\ question.calls[i].do \in {"route", "delegate"}
              /\ question.calls[i].do = "delegate" => IsSeq(question.calls[i].prefix)
              /\ question.calls[i].do = "route" => IsSeq(question.calls[i].pattern)
         /\ \A path \in question.paths : IsSeq(path)
         /\ DOMAIN question.calls = 1..Len(question.calls) /\ Len(question.calls) \in Nat
<1> DEFINE calls == [do : {"route"}, pattern : Seq(STRING), method : STRING, handler : Nat]
                    \cup [do : {"delegate"}, prefix : Seq(STRING), handler : STRING]
<1>1. question.calls \in Seq(calls) /\ question.paths \subseteq Seq(STRING)
  BY Zenon DEF Put, Sensible, Of
<1>2. ASSUME NEW i \in DOMAIN question.calls
      PROVE  /\ question.calls[i].do \in {"route", "delegate"}
             /\ question.calls[i].do = "delegate" => IsSeq(question.calls[i].prefix)
             /\ question.calls[i].do = "route" => IsSeq(question.calls[i].pattern)
  <2>1. question.calls[i] \in calls
    <3> HIDE DEF calls
    <3> QED BY <1>1, ElementOf
  <2>2. /\ question.calls[i].do \in {"route", "delegate"}
        /\ question.calls[i].do = "delegate" => question.calls[i].prefix \in Seq(STRING)
        /\ question.calls[i].do = "route" => question.calls[i].pattern \in Seq(STRING)
    BY <2>1
  <2> QED BY <2>2 DEF IsSeq
<1>3. \A path \in question.paths : IsSeq(path)
  BY <1>1 DEF IsSeq
<1>4. Listed
  BY DEF Listed, Of
<1> QED BY <1>2, <1>3, <1>4, ListedCalls

(* Each step keeps the invariant about routes. *)
LEMMA RoutesStep == ASSUME Put, RoutesInv, Compute PROVE RoutesInv'
<1> SUFFICES ASSUME Of("routes") PROVE RoutesInv'
  BY Counts DEF RoutesInv, Of, Put
<1>1. /\ done \in Nat /\ done <= Len(question.calls)
      /\ answer \in [table : {answer.table}, delegates : {answer.delegates}]
      /\ TableOf(question, done, answer.table)
      /\ DelegatesOf(question, done, answer.delegates)
  BY DEF Put, Listed, RoutesInv, Of
<1>2. PICK e : e = question.calls[done + 1]
  OBVIOUS
<1>3. CASE RegisterRoute
  <2>1. /\ question' = question /\ done' = done + 1 /\ e.do = "route"
        /\ answer' = [answer EXCEPT !.table = AddRoute(@, e)]
    BY <1>2, <1>3 DEF RegisterRoute, Takes, Upcoming
  <2>2. PICK t : t = AddRoute(answer.table, e)
    OBVIOUS
  <2>3. answer' \in [table : {t}, delegates : {answer.delegates}]
    BY <1>1, <2>1, <2>2
  <2>4. answer'.table = t /\ answer'.delegates = answer.delegates
    BY <2>3
  <2>5. TableOf(question, done + 1, t)
    BY <1>1, <1>2, <2>1, <2>2, OneMoreRoute
  <2>6. DelegatesOf(question, done + 1, answer.delegates)
    <3>1. question.calls[done + 1].do # "delegate"
      BY <1>2, <2>1
    <3> QED BY <1>1, <3>1, DelegatesStay
  <2>7. answer' \in [table : {answer'.table}, delegates : {answer'.delegates}]
    BY <2>3, <2>4
  <2> QED BY <2>1, <2>4, <2>5, <2>6, <2>7 DEF RoutesInv
<1>4. CASE RegisterDelegate
  <2>1. /\ question' = question /\ done' = done + 1 /\ e.do = "delegate"
        /\ done < Len(question.calls)
        /\ answer' = [answer EXCEPT !.delegates = AddDelegate(@, e)]
    BY <1>2, <1>4 DEF RegisterDelegate, Takes, Upcoming
  <2>2. PICK s : s = AddDelegate(answer.delegates, e)
    OBVIOUS
  <2>3. answer' \in [table : {answer.table}, delegates : {s}]
    BY <1>1, <2>1, <2>2
  <2>4. answer'.table = answer.table /\ answer'.delegates = s
    BY <2>3
  <2>5. TableOf(question, done + 1, answer.table)
    <3>1. question.calls[done + 1].do # "route"
      BY <1>2, <2>1
    <3> QED BY <1>1, <3>1, TableStays
  <2>6. DelegatesOf(question, done + 1, s)
    <3>1. \A i \in 1..(done + 1) :
            question.calls[i].do = "delegate" => IsSeq(question.calls[i].prefix)
      <4>1. \A i \in 1..(done + 1) : i \in DOMAIN question.calls
        BY <1>1, <2>1, RouteCalls
      <4> QED BY <4>1, RouteCalls
    <3> QED BY <1>1, <1>2, <2>1, <2>2, <3>1, OneMoreDelegate
  <2>7. answer' \in [table : {answer'.table}, delegates : {answer'.delegates}]
    BY <2>3, <2>4
  <2> QED BY <2>1, <2>4, <2>5, <2>6, <2>7 DEF RoutesInv
<1> QED BY <1>3, <1>4, ActionOf

(* The least of a set of numbers, 0 if it is empty. *)
LEMMA FirstIs ==
  ASSUME NEW I, I \subseteq Nat \ {0}, NEW k, k = IF I # {} THEN Min(I) ELSE 0
  PROVE  First(I, k)
<1>1. I \in SUBSET Nat
  OBVIOUS
<1>2. CASE I = {}
  BY <1>2 DEF First
<1>3. CASE I # {}
  BY <1>1, <1>3, LeastExists DEF First
<1> QED BY <1>2, <1>3

(* What is looked up in the tables is the first that matches. *)
LEMMA MatchesAre ==
  ASSUME NEW s, NEW t, NEW p
  PROVE  /\ First(Over(s, p), MatchDelegate(s, p))
         /\ First(Literal(t, p), StaticMatch(t, p))
         /\ First(Dynamic(t, p), DynamicMatch(t, p))
<1>1. MatchDelegate(s, p) = IF Over(s, p) # {} THEN Min(Over(s, p)) ELSE 0
  BY DEF MatchDelegate, SelectInSeq, Over
<1>2. StaticMatch(t, p) = IF Literal(t, p) # {} THEN Min(Literal(t, p)) ELSE 0
  BY DEF StaticMatch, SelectInSeq, Literal
<1>3. DynamicMatch(t, p) = IF Dynamic(t, p) # {} THEN Min(Dynamic(t, p)) ELSE 0
  BY DEF DynamicMatch, SelectInSeq, Dynamic
<1>4. /\ Over(s, p) \subseteq Nat \ {0} /\ Literal(t, p) \subseteq Nat \ {0}
      /\ Dynamic(t, p) \subseteq Nat \ {0}
  BY DEF Over, Literal, Dynamic
<1> QED BY <1>1, <1>2, <1>3, <1>4, FirstIs

(* A literal pattern fits its own path and no other. *)
LEMMA LiteralFits ==
  ASSUME NEW pattern, IsSeq(pattern), NEW p, IsSeq(p), ~ IsDynamic(pattern)
  PROVE  Fitting(pattern, p) <=> pattern = p
<1>1. PICK S : pattern \in Seq(S)
  BY DEF IsSeq
<1>2. PICK T : p \in Seq(T)
  BY DEF IsSeq
<1>3. ASSUME Fitting(pattern, p) PROVE pattern = p
  <2>1. Len(pattern) = Len(p) /\ \A i \in DOMAIN p : pattern[i] = p[i]
    BY <1>1, <1>2, <1>3 DEF Fitting, IsDynamic
  <2>2. pattern \in Seq(S \cup T) /\ p \in Seq(S \cup T)
    BY <1>1, <1>2
  <2> QED BY <2>1, <2>2
<1>4. ASSUME pattern = p PROVE Fitting(pattern, p)
  BY <1>4 DEF Fitting, IsDynamic
<1> QED BY <1>3, <1>4

(* A pattern matches exactly the paths that fit it. *)
LEMMA CompareIs ==
  ASSUME NEW pattern, IsSeq(pattern), NEW p, IsSeq(p)
  PROVE  /\ Compare(pattern, p) = "matches" <=> Fitting(pattern, p)
         /\ Compare(pattern, p) \in {"no", "throws", "matches"}
         /\ Compare(pattern, p) = "throws" => Malformed \in ToSet(p)
<1> DEFINE differs == {i \in DOMAIN p : ~ IsParam(pattern[i]) /\ pattern[i] # p[i]}
           breaks == {i \in DOMAIN p : IsParam(pattern[i]) /\ p[i] = Malformed}
<1>1. Compare(pattern, p) =
        IF Len(pattern) # Len(p) THEN "no"
        ELSE IF \E i \in breaks : \A j \in differs : i < j THEN "throws"
        ELSE IF differs = {} THEN "matches" ELSE "no"
  BY DEF Compare
<1>2. Fitting(pattern, p) <=> Len(pattern) = Len(p) /\ differs = {} /\ breaks = {}
  BY DEF Fitting
<1>3. breaks # {} => Malformed \in ToSet(p)
  BY DEF ToSet
<1> HIDE DEF differs, breaks
<1> QED BY <1>1, <1>2, <1>3

(* The rows have patterns that are registered. *)
LEMMA RowPatterns ==
  ASSUME NEW q, NEW d \in Nat, NEW t, TableOf(q, d, t), Patterns(q, d)
  PROVE  /\ \A n \in DOMAIN t : IsSeq(t[n].pattern) /\ RegsOn(q, d, t[n].pattern) # {}
         /\ DOMAIN t = 1..Len(t) /\ Len(t) \in Nat
<1>1. ASSUME NEW n \in DOMAIN t PROVE IsSeq(t[n].pattern) /\ RegsOn(q, d, t[n].pattern) # {}
  <2>1. RegsOn(q, d, t[n].pattern) # {}
    BY DEF TableOf, RowOf
  <2> QED BY <2>1 DEF RegsOn, Patterns
<1> QED BY <1>1, SeqDomain DEF TableOf

(* A literal row has all registrations that serve its path. *)
LEMMA ServedLiterally ==
  ASSUME NEW q, NEW d \in Nat, NEW t, TableOf(q, d, t), Patterns(q, d), NEW p, IsSeq(p),
         NEW n \in Literal(t, p)
  PROVE  ServesOf(q, d, p) = RegsOn(q, d, t[n].pattern)
<1>1. n \in DOMAIN t /\ ~ IsDynamic(p) /\ t[n].pattern = p /\ RegsOn(q, d, p) # {}
  BY RowPatterns DEF Literal
<1> DEFINE fitting == {i \in 1..d : q.calls[i].do = "route" /\ Fitting(q.calls[i].pattern, p)}
           literal == {i \in fitting : ~ IsDynamic(q.calls[i].pattern)}
<1>2. literal = RegsOn(q, d, p)
  <2>1. ASSUME NEW i \in literal PROVE i \in RegsOn(q, d, p)
    <3>1. /\ i \in 1..d /\ q.calls[i].do = "route" /\ IsSeq(q.calls[i].pattern)
          /\ Fitting(q.calls[i].pattern, p) /\ ~ IsDynamic(q.calls[i].pattern)
      BY DEF Patterns
    <3>2. q.calls[i].pattern = p
      BY <3>1, LiteralFits
    <3> QED BY <3>1, <3>2 DEF RegsOn
  <2>2. ASSUME NEW i \in RegsOn(q, d, p) PROVE i \in literal
    <3>1. Fitting(p, p)
      BY <1>1, LiteralFits
    <3> QED BY <1>1, <3>1 DEF RegsOn
  <2> QED BY <2>1, <2>2
<1>3. ServesOf(q, d, p) = literal
  BY <1>1, <1>2 DEF ServesOf
<1> QED BY <1>1, <1>2, <1>3

(* Without a literal row, what fits a path is a dynamic one. *)
LEMMA NotLiteral ==
  ASSUME NEW q, NEW d \in Nat, NEW t, TableOf(q, d, t), Patterns(q, d), NEW p, IsSeq(p),
         Literal(t, p) = {},
         NEW i \in 1..d, q.calls[i].do = "route", Fitting(q.calls[i].pattern, p)
  PROVE  \E m \in Dynamic(t, p) : /\ t[m].pattern = q.calls[i].pattern
                                  /\ IsDynamic(q.calls[i].pattern)
<1>1. IsSeq(q.calls[i].pattern)
  BY DEF Patterns
<1>2. PICK m \in DOMAIN t : t[m].pattern = q.calls[i].pattern
  BY DEF TableOf
<1>3. m \in 1..Len(t)
  BY RowPatterns
<1>4. IsDynamic(q.calls[i].pattern)
  <2>1. SUFFICES ASSUME ~ IsDynamic(q.calls[i].pattern) PROVE FALSE
    OBVIOUS
  <2>2. q.calls[i].pattern = p
    BY <1>1, <2>1, LiteralFits
  <2>3. m \in Literal(t, p)
    BY <1>2, <1>3, <2>1, <2>2 DEF Literal
  <2> QED BY <2>3
<1>5. Compare(t[m].pattern, p) # "no"
  BY <1>1, <1>2, CompareIs
<1> QED BY <1>2, <1>3, <1>4, <1>5 DEF Dynamic

(* Without a row, nothing serves the path. *)
LEMMA ServedNot ==
  ASSUME NEW q, NEW d \in Nat, NEW t, TableOf(q, d, t), Patterns(q, d), NEW p, IsSeq(p),
         Literal(t, p) = {}, Dynamic(t, p) = {}
  PROVE  ServesOf(q, d, p) = {}
<1>1. {i \in 1..d : q.calls[i].do = "route" /\ Fitting(q.calls[i].pattern, p)} = {}
  BY NotLiteral
<1> QED BY <1>1 DEF ServesOf

(* The first dynamic row has all registrations that serve the path. *)
LEMMA ServedDynamically ==
  ASSUME NEW q, NEW d \in Nat, NEW t, TableOf(q, d, t), Patterns(q, d), NEW p, IsSeq(p),
         Literal(t, p) = {}, NEW n \in Dynamic(t, p), \A m \in Dynamic(t, p) : n <= m,
         Compare(t[n].pattern, p) # "throws"
  PROVE  ServesOf(q, d, p) = RegsOn(q, d, t[n].pattern)
<1> DEFINE fitting == {i \in 1..d : q.calls[i].do = "route" /\ Fitting(q.calls[i].pattern, p)}
           literal == {i \in fitting : ~ IsDynamic(q.calls[i].pattern)}
<1>1. n \in DOMAIN t /\ IsSeq(t[n].pattern) /\ RegsOn(q, d, t[n].pattern) # {}
  BY RowPatterns DEF Dynamic
<1>2. Fitting(t[n].pattern, p)
  BY <1>1, CompareIs DEF Dynamic
<1>3. literal = {}
  BY NotLiteral
<1>4. RegsOn(q, d, t[n].pattern) \subseteq fitting
  BY <1>2 DEF RegsOn
<1>5. ASSUME NEW j \in fitting, \A k \in fitting : j <= k
      PROVE  q.calls[j].pattern = t[n].pattern
  <2>1. PICK m \in Dynamic(t, p) : t[m].pattern = q.calls[j].pattern
    BY NotLiteral
  <2>2. n <= m /\ m \in DOMAIN t /\ m \in Nat /\ n \in Nat
    BY RowPatterns DEF Dynamic
  <2>3. CASE n < m
    <3>1. PICK i \in RegsOn(q, d, t[n].pattern) : \A k \in RegsOn(q, d, t[m].pattern) : i < k
      BY <1>1, <2>2, <2>3 DEF TableOf
    <3>2. j \in RegsOn(q, d, t[m].pattern)
      BY <2>1 DEF RegsOn
    <3>3. i < j /\ j <= i /\ i \in Nat /\ j \in Nat
      BY <3>1, <3>2, <1>4, <1>5
    <3> QED BY <3>3
  <2>4. CASE n = m
    BY <2>1, <2>4
  <2> QED BY <2>2, <2>3, <2>4
<1>6. PICK j \in fitting : \A k \in fitting : j <= k
  <2>1. fitting \in SUBSET Nat /\ fitting # {}
    BY <1>1, <1>4
  <2> HIDE DEF fitting
  <2> QED BY <2>1, LeastExists
<1>7. ServesOf(q, d, p) = {i \in fitting : \A k \in fitting :
          (\A h \in fitting : k <= h) => q.calls[i].pattern = q.calls[k].pattern}
  BY <1>3, Zenon DEF ServesOf
<1>8. ASSUME NEW i \in ServesOf(q, d, p) PROVE i \in RegsOn(q, d, t[n].pattern)
  <2>1. i \in fitting /\ q.calls[i].pattern = q.calls[j].pattern
    BY <1>6, <1>7
  <2>2. q.calls[j].pattern = t[n].pattern
    BY <1>5, <1>6
  <2> QED BY <2>1, <2>2 DEF RegsOn
<1>9. ASSUME NEW i \in RegsOn(q, d, t[n].pattern) PROVE i \in ServesOf(q, d, p)
  <2>1. i \in fitting /\ q.calls[i].pattern = t[n].pattern
    BY <1>4 DEF RegsOn
  <2> HIDE DEF fitting
  <2> QED BY <2>1, <1>5, <1>7
<1> QED BY <1>8, <1>9

(* A path stays a path when it is normalized. *)
LEMMA NormalizedIsSeq ==
  ASSUME NEW raw, IsSeq(raw)
  PROVE  IsSeq(NormalizePath(raw))
<1> DEFINE kept == {i \in DOMAIN raw : raw[i] # ""}
           f == [n \in 1..Cardinality(kept) |-> raw[CHOOSE i \in kept : Rank(i, kept) = n]]
<1>1. Cardinality(kept) \in Nat
  <2>1. Len(raw) \in Nat /\ DOMAIN raw = 1..Len(raw)
    BY SeqDomain
  <2>2. IsFiniteSet(1..Len(raw))
    BY <2>1, FS_Interval
  <2>3. kept \in SUBSET (1..Len(raw))
    BY <2>1
  <2> QED BY <2>2, <2>3, FS_Subset, FS_CardinalityType
<1>2. NormalizePath(raw) = f
  BY DEF NormalizePath
<1>3. DOMAIN f = 1..Cardinality(kept)
  OBVIOUS
<1> HIDE DEF f, kept
<1>4. f \in [1..Cardinality(kept) -> {f[n] : n \in 1..Cardinality(kept)}]
  <2>1. f = [n \in 1..Cardinality(kept) |-> f[n]]
    BY <1>3 DEF f
  <2> QED BY <2>1
<1>5. f \in Seq({f[n] : n \in 1..Cardinality(kept)})
  BY <1>1, <1>4
<1> QED BY <1>2, <1>5 DEF IsSeq

(* dispatch answers by what the tables have. *)
LEMMA DispatchIs ==
  ASSUME NEW s, NEW t, NEW method, NEW raw, NEW p, p = NormalizePath(raw)
  PROVE  Dispatched(s, t, method, p, MatchDelegate(s, p), StaticMatch(t, p), Found(t, p),
                    Dispatch(s, t, method, raw))
<1>1. PICK o : o = MatchDelegate(s, p)
  OBVIOUS
<1>2. PICK lit : lit = StaticMatch(t, p)
  OBVIOUS
<1>3. PICK n : n = Found(t, p)
  OBVIOUS
<1>4. PICK a : a = Dispatch(s, t, method, raw)
  OBVIOUS
<1>5. CASE o # 0
  <2>1. a = [to |-> "delegate", handler |-> s[o].handler,
             sub |-> SubSeq(p, Len(s[o].prefix) + 1, Len(p))]
    BY <1>1, <1>2, <1>3, <1>4, <1>5 DEF Dispatch
  <2>2. Dispatched(s, t, method, p, o, lit, n, a)
    BY <1>5, <2>1 DEF Dispatched
  <2> QED BY <1>1, <1>2, <1>3, <1>4, <2>2
<1>6. CASE o = 0 /\ n = 0
  <2>1. a = [to |-> "404"]
    BY <1>1, <1>2, <1>3, <1>4, <1>6 DEF Dispatch, Found
  <2>2. Dispatched(s, t, method, p, o, lit, n, a)
    BY <1>6, <2>1 DEF Dispatched
  <2> QED BY <1>1, <1>2, <1>3, <1>4, <2>2
<1>7. CASE o = 0 /\ n # 0 /\ lit = 0 /\ Compare(t[n].pattern, p) = "throws"
  <2>1. a = [to |-> "throws"]
    BY <1>1, <1>2, <1>3, <1>4, <1>7 DEF Dispatch, Found
  <2>2. Dispatched(s, t, method, p, o, lit, n, a)
    BY <1>7, <2>1 DEF Dispatched
  <2> QED BY <1>1, <1>2, <1>3, <1>4, <2>2
<1>8. CASE o = 0 /\ n # 0 /\ ~ (lit = 0 /\ Compare(t[n].pattern, p) = "throws")
  <2>1. CASE method \notin DOMAIN t[n].methods
    <3>1. a = [to |-> "405", allow |-> DOMAIN t[n].methods]
      BY <1>1, <1>2, <1>3, <1>4, <1>8, <2>1 DEF Dispatch, Found
    <3>2. Dispatched(s, t, method, p, o, lit, n, a)
      BY <1>8, <2>1, <3>1 DEF Dispatched
    <3> QED BY <1>1, <1>2, <1>3, <1>4, <3>2
  <2>2. CASE method \in DOMAIN t[n].methods
    <3>1. a.to = "handler" /\ a.handler = t[n].methods[method]
      BY <1>1, <1>2, <1>3, <1>4, <1>8, <2>2 DEF Dispatch, Found
    <3>2. Dispatched(s, t, method, p, o, lit, n, a)
      BY <1>8, <2>2, <3>1 DEF Dispatched
    <3> QED BY <1>1, <1>2, <1>3, <1>4, <3>2
  <2> QED BY <2>1, <2>2
<1> QED BY <1>5, <1>6, <1>7, <1>8

(* A row answers by the registrations of its pattern. *)
LEMMA RowServes ==
  ASSUME NEW q, NEW d \in Nat, NEW row, RowOf(q, d, row), NEW method,
         NEW S, S = RegsOn(q, d, row.pattern)
  PROVE  RowAnswers(q, row, method, S)
<1>1. /\ S # {} /\ DOMAIN row.methods = {q.calls[i].method : i \in S}
      /\ \A i \in S : (\A j \in S : q.calls[j].method = q.calls[i].method => j <= i) =>
           row.methods[q.calls[i].method] = q.calls[i].handler
  BY DEF RowOf
<1>2. ASSUME method \in DOMAIN row.methods
      PROVE  \E i \in {k \in S : q.calls[k].method = method} :
                /\ row.methods[method] = q.calls[i].handler
                /\ \A j \in {k \in S : q.calls[k].method = method} : j <= i
  <2>1. PICK able : able = {i \in S : q.calls[i].method = method}
    OBVIOUS
  <2>2. able \in SUBSET (0..d) /\ able # {}
    BY <1>1, <1>2, <2>1 DEF RegsOn
  <2>3. PICK i \in able : \A j \in able : j <= i
    BY <2>2, GreatestExists
  <2>4. i \in S /\ q.calls[i].method = method
    BY <2>1
  <2>5. row.methods[method] = q.calls[i].handler
    BY <1>1, <2>1, <2>3, <2>4
  <2> QED BY <2>1, <2>3, <2>5
<1>3. method \notin DOMAIN row.methods => {i \in S : q.calls[i].method = method} = {}
  BY <1>1
<1> QED BY <1>1, <1>2, <1>3 DEF RowAnswers

(* What it takes for each answer to be right. *)
LEMMA RoutedTo ==
  ASSUME NEW a, NEW method, NEW path
  PROVE  /\ /\ a.to = "delegate"
            /\ \E i \in OverCalls(path) : /\ a.handler = Call(i).handler
                              /\ \A j \in OverCalls(path) : Len(Call(j).prefix) <= Len(Call(i).prefix)
                              /\ Call(i).prefix \o a.sub = path
            => RoutesTo(a, method, path)
         /\ a.to = "throws" /\ OverCalls(path) = {} /\ Malformed \in ToSet(path) =>
              RoutesTo(a, method, path)
         /\ a.to = "404" /\ OverCalls(path) = {} /\ Serving(path) = {} => RoutesTo(a, method, path)
         /\ /\ a.to = "405" /\ OverCalls(path) = {} /\ Serving(path) # {}
            /\ {i \in Serving(path) : Call(i).method = method} = {}
            /\ a.allow = {Call(i).method : i \in Serving(path)}
            => RoutesTo(a, method, path)
         /\ /\ a.to = "handler" /\ OverCalls(path) = {}
            /\ \E i \in {k \in Serving(path) : Call(k).method = method} :
                 /\ a.handler = Call(i).handler
                 /\ \A j \in {k \in Serving(path) : Call(k).method = method} : j <= i
            => RoutesTo(a, method, path)
<1>1. /\ "throws" # "delegate" /\ "404" # "delegate" /\ "405" # "delegate" /\ "handler" # "delegate"
      /\ "404" # "throws" /\ "405" # "throws" /\ "handler" # "throws"
      /\ "405" # "404" /\ "handler" # "404" /\ "handler" # "405"
  OBVIOUS
<1>2. ASSUME a.to = "delegate",
             \E i \in OverCalls(path) : /\ a.handler = Call(i).handler
                              /\ \A j \in OverCalls(path) : Len(Call(j).prefix) <= Len(Call(i).prefix)
                              /\ Call(i).prefix \o a.sub = path
      PROVE  RoutesTo(a, method, path)
  BY <1>1, <1>2, Zenon DEF RoutesTo, OverCalls
<1>3. ASSUME a.to = "throws", OverCalls(path) = {}, Malformed \in ToSet(path)
      PROVE  RoutesTo(a, method, path)
  BY <1>1, <1>3, Zenon DEF RoutesTo, OverCalls
<1>4. ASSUME a.to = "404", OverCalls(path) = {}, Serving(path) = {}
      PROVE  RoutesTo(a, method, path)
  BY <1>1, <1>4, Zenon DEF RoutesTo, OverCalls
<1>5. ASSUME a.to = "405", OverCalls(path) = {}, Serving(path) # {},
             {i \in Serving(path) : Call(i).method = method} = {},
             a.allow = {Call(i).method : i \in Serving(path)}
      PROVE  RoutesTo(a, method, path)
  BY <1>1, <1>5, Zenon DEF RoutesTo, OverCalls
<1>6. ASSUME a.to = "handler", OverCalls(path) = {},
             \E i \in {k \in Serving(path) : Call(k).method = method} :
                 /\ a.handler = Call(i).handler
                 /\ \A j \in {k \in Serving(path) : Call(k).method = method} : j <= i
      PROVE  RoutesTo(a, method, path)
  BY <1>1, <1>6, Zenon DEF RoutesTo, OverCalls
<1> QED BY <1>2, <1>3, <1>4, <1>5, <1>6, Zenon

(* The registrations that serve a path, as the proofs name them. *)
LEMMA ServingIs ==
  ASSUME NEW path
  PROVE  Serving(path) = ServesOf(question, done, path)
<1> DEFINE fitting == {i \in Registrations : Fitting(Call(i).pattern, path)}
           same == {i \in 1..done : question.calls[i].do = "route"
                                    /\ Fitting(question.calls[i].pattern, path)}
<1>1. fitting = same
  BY DEF Registrations, Taken, Call
<1> HIDE DEF same
<1>2. Serving(path) =
        IF {i \in fitting : ~ IsDynamic(Call(i).pattern)} # {}
        THEN {i \in fitting : ~ IsDynamic(Call(i).pattern)}
        ELSE {i \in fitting : \A j \in fitting :
                (\A k \in fitting : j <= k) => Call(i).pattern = Call(j).pattern}
  BY Zenon DEF Serving
<1> HIDE DEF fitting
<1>3. ServesOf(question, done, path) =
        IF {i \in same : ~ IsDynamic(question.calls[i].pattern)} # {}
        THEN {i \in same : ~ IsDynamic(question.calls[i].pattern)}
        ELSE {i \in same : \A j \in same :
                (\A k \in same : j <= k) => question.calls[i].pattern = question.calls[j].pattern}
  BY Zenon DEF ServesOf, same
<1> QED BY <1>1, <1>2, <1>3, Zenon DEF Call

(* A path is the prefix and what is behind it. *)
LEMMA DelegateRoutes ==
  ASSUME NEW path, IsSeq(path), NEW prefix, IsSeq(prefix), IsPrefix(prefix, path)
  PROVE  prefix \o SubSeq(path, Len(prefix) + 1, Len(path)) = path
<1>1. PICK S : path \in Seq(S)
  BY DEF IsSeq
<1>2. PICK T : prefix \in Seq(T)
  BY DEF IsSeq
<1>3. /\ path \in Seq(S \cup T) /\ prefix \in Seq(S \cup T)
      /\ Len(path) \in Nat /\ Len(prefix) \in Nat
  BY <1>1, <1>2
<1>4. Len(prefix) <= Len(path) /\ SubSeq(prefix, 1, Len(prefix)) = SubSeq(path, 1, Len(prefix))
  BY DEF IsPrefix
<1>5. \A n \in 1..Len(prefix) : prefix[n] = path[n]
  <2> SUFFICES ASSUME NEW n \in 1..Len(prefix) PROVE prefix[n] = path[n]
    OBVIOUS
  <2>1. SubSeq(prefix, 1, Len(prefix))[n] = prefix[n]
    BY <1>3
  <2>2. SubSeq(path, 1, Len(prefix))[n] = path[n]
    BY <1>3, <1>4
  <2> QED BY <2>1, <2>2, <1>4
<1>6. PICK c : c = SubSeq(path, Len(prefix) + 1, Len(path))
  OBVIOUS
<1>7. /\ c \in Seq(S \cup T) /\ Len(c) = Len(path) - Len(prefix)
      /\ \A n \in 1..(Len(path) - Len(prefix)) : c[n] = path[Len(prefix) + n]
  BY <1>3, <1>4, <1>6
<1>8. PICK u : u = prefix \o c
  OBVIOUS
<1>9. u \in Seq(S \cup T) /\ Len(u) = Len(path)
  <2>1. u \in Seq(S \cup T) /\ Len(u) = Len(prefix) + Len(c)
    BY <1>3, <1>7, <1>8
  <2> QED BY <2>1, <1>3, <1>7
<1>10. ASSUME NEW n \in 1..Len(path) PROVE u[n] = path[n]
  <2>1. CASE n <= Len(prefix)
    <3>1. n \in 1..Len(prefix)
      BY <2>1, <1>3
    <3>2. u[n] = prefix[n]
      BY <3>1, <1>3, <1>7, <1>8
    <3> QED BY <3>1, <3>2, <1>5
  <2>2. CASE n > Len(prefix)
    <3>1. n - Len(prefix) \in 1..(Len(path) - Len(prefix))
      BY <2>2, <1>3
    <3>2. Chained(prefix, c, u)
      <4>1. IsSeq(c)
        BY <1>7 DEF IsSeq
      <4> QED BY <1>8, <4>1, Chaining
    <3>3. u[Len(prefix) + (n - Len(prefix))] = c[n - Len(prefix)]
      BY <3>1, <3>2, <1>7 DEF Chained
    <3>4. c[n - Len(prefix)] = path[Len(prefix) + (n - Len(prefix))]
      BY <3>1, <1>7
    <3>5. Len(prefix) + (n - Len(prefix)) = n
      BY <1>3
    <3> QED BY <3>3, <3>4, <3>5
  <2> QED BY <1>3, <2>1, <2>2
<1>11. u = path
  BY <1>3, <1>9, <1>10
<1> QED BY <1>6, <1>8, <1>11

(* Every request is routed to the handler it is for. *)
LEMMA RoutesEnd == ASSUME Put, RoutesInv PROVE RoutingAgrees
<1> SUFFICES ASSUME Of("routes"), NEW raw \in question.paths, NEW method \in question.methods
             PROVE  RoutesTo(Dispatch(answer.delegates, answer.table, method, raw),
                             method, NormalizePath(raw))
  BY DEF RoutingAgrees
<1>1. PICK p : p = NormalizePath(raw)
  OBVIOUS
<1>2. PICK a : a = Dispatch(answer.delegates, answer.table, method, raw)
  OBVIOUS
<1>3. PICK s : s = answer.delegates
  OBVIOUS
<1>4. PICK t : t = answer.table
  OBVIOUS
<1>5. done \in Nat /\ TableOf(question, done, t) /\ DelegatesOf(question, done, s)
  BY <1>3, <1>4 DEF RoutesInv, Put
<1>6. /\ Patterns(question, done) /\ IsSeq(p)
      /\ \A i \in 1..done : question.calls[i].do = "delegate" => IsSeq(question.calls[i].prefix)
  <2>1. Listed
    BY DEF Listed, Of
  <2>2. \A i \in 1..done : i \in DOMAIN question.calls
    BY <2>1, RouteCalls DEF Put
  <2>3. IsSeq(raw)
    BY RouteCalls
  <2> QED BY <2>2, <2>3, <1>1, RouteCalls, NormalizedIsSeq DEF Patterns
<1>7. PICK o : o = MatchDelegate(s, p)
  OBVIOUS
<1>8. PICK lit : lit = StaticMatch(t, p)
  OBVIOUS
<1>9. PICK dyn : dyn = DynamicMatch(t, p)
  OBVIOUS
<1>10. PICK n : n = IF lit # 0 THEN lit ELSE dyn
  OBVIOUS
<1>11. First(Over(s, p), o) /\ First(Literal(t, p), lit) /\ First(Dynamic(t, p), dyn)
  BY <1>7, <1>8, <1>9, MatchesAre
<1>12. Dispatched(s, t, method, p, o, lit, n, a)
  <2>1. n = Found(t, p)
    BY <1>8, <1>9, <1>10 DEF Found
  <2>2. Dispatched(s, t, method, p, MatchDelegate(s, p), StaticMatch(t, p), Found(t, p),
                   Dispatch(s, t, method, raw))
    BY <1>1, DispatchIs
  <2> QED BY <2>1, <2>2, <1>2, <1>3, <1>4, <1>7, <1>8
<1>13. Serving(p) = ServesOf(question, done, p)
  BY ServingIs
<1>14. \A x : x \in DOMAIN s <=> x \in 1..Len(s)
  BY <1>5, SeqDomain DEF DelegatesOf
<1>15. \A i : i \in OverCalls(p) <=> /\ i \in 1..done /\ question.calls[i].do = "delegate"
                                      /\ IsPrefix(question.calls[i].prefix, p)
  BY DEF OverCalls, Delegates, Taken, Call
<1>16. CASE o # 0
  <2>1. o \in Over(s, p) /\ \A m \in Over(s, p) : o <= m
    BY <1>11, <1>16 DEF First
  <2>2. PICK i \in 1..done : question.calls[i].do = "delegate" /\ s[o] = question.calls[i]
    BY <2>1, <1>5, <1>14 DEF Over, DelegatesOf
  <2>3. i \in OverCalls(p) /\ IsSeq(question.calls[i].prefix)
    BY <2>1, <2>2, <1>6, <1>15 DEF Over
  <2>4. ASSUME NEW j \in OverCalls(p) PROVE Len(Call(j).prefix) <= Len(Call(i).prefix)
    <3>1. j \in 1..done /\ question.calls[j].do = "delegate" /\ IsSeq(question.calls[j].prefix)
      BY <1>6, <1>15
    <3>2. PICK m \in DOMAIN s : s[m] = question.calls[j]
      BY <3>1, <1>5 DEF DelegatesOf
    <3>3. m \in Over(s, p)
      BY <3>2, <1>14, <1>15 DEF Over
    <3>4. o <= m /\ o \in DOMAIN s /\ o \in Nat /\ m \in Nat
      BY <2>1, <3>2, <3>3, <1>14 DEF Over
    <3>5. PrefixLength(question.calls[i].prefix) >= PrefixLength(question.calls[j].prefix)
      <4>1. CASE o = m
        <5>1. PrefixLength(question.calls[i].prefix) \in Nat
          BY <2>3, PrefixLengths
        <5> QED BY <4>1, <5>1, <2>2, <3>2
      <4>2. CASE o < m
        BY <4>2, <2>2, <3>2, <3>4, <1>5 DEF DelegatesOf
      <4> QED BY <3>4, <4>1, <4>2
    <3> QED BY <2>3, <3>1, <3>5, PrefixLengths DEF Call
  <2>5. Call(i).prefix \o a.sub = p
    <3>1. a.sub = SubSeq(p, Len(question.calls[i].prefix) + 1, Len(p))
      BY <1>12, <1>16, <2>2 DEF Dispatched
    <3>2. IsPrefix(question.calls[i].prefix, p)
      BY <2>3, <1>15
    <3> QED BY <3>1, <3>2, <2>3, <1>6, DelegateRoutes DEF Call
  <2>6. a.to = "delegate" /\ a.handler = Call(i).handler
    BY <1>12, <1>16, <2>2 DEF Dispatched, Call
  <2>7. RoutesTo(a, method, p)
    BY <2>3, <2>4, <2>5, <2>6, RoutedTo
  <2> QED BY <2>7, <1>1, <1>2
<1>17. CASE o = 0
  <2>1. OverCalls(p) = {}
    <3>1. Over(s, p) = {}
      BY <1>11, <1>17 DEF First
    <3>2. ASSUME NEW i \in OverCalls(p) PROVE FALSE
      <4>1. i \in 1..done /\ question.calls[i].do = "delegate" /\ IsPrefix(question.calls[i].prefix, p)
        BY <1>15
      <4>2. PICK m \in DOMAIN s : s[m] = question.calls[i]
        BY <4>1, <1>5 DEF DelegatesOf
      <4>3. m \in Over(s, p)
        BY <4>1, <4>2, <1>14 DEF Over
      <4> QED BY <3>1, <4>3
    <3> QED BY <3>2
  <2>2. CASE n = 0
    <3>1. Literal(t, p) = {} /\ Dynamic(t, p) = {}
      BY <1>10, <1>11, <2>2 DEF First
    <3>2. Serving(p) = {}
      BY <3>1, <1>5, <1>6, <1>13, ServedNot
    <3>3. a.to = "404"
      BY <1>12, <1>17, <2>2 DEF Dispatched
    <3>4. RoutesTo(a, method, p)
      BY <2>1, <3>2, <3>3, RoutedTo
    <3> QED BY <3>4, <1>1, <1>2
  <2>3. CASE n # 0 /\ lit = 0 /\ Compare(t[n].pattern, p) = "throws"
    <3>1. n \in Dynamic(t, p)
      BY <1>10, <1>11, <2>3 DEF First
    <3>2. IsSeq(t[n].pattern)
      BY <3>1, <1>5, <1>6, RowPatterns DEF Dynamic
    <3>3. Malformed \in ToSet(p)
      BY <2>3, <3>2, <1>6, CompareIs
    <3>4. a.to = "throws"
      BY <1>12, <1>17, <2>3 DEF Dispatched
    <3>5. RoutesTo(a, method, p)
      BY <2>1, <3>3, <3>4, RoutedTo
    <3> QED BY <3>5, <1>1, <1>2
  <2>4. CASE n # 0 /\ ~ (lit = 0 /\ Compare(t[n].pattern, p) = "throws")
    <3>1. Serving(p) = RegsOn(question, done, t[n].pattern) /\ n \in 1..Len(t)
      <4>1. CASE lit # 0
        <5>1. n \in Literal(t, p)
          BY <4>1, <1>10, <1>11 DEF First
        <5> QED BY <5>1, <1>5, <1>6, <1>13, ServedLiterally DEF Literal
      <4>2. CASE lit = 0
        <5>1. n \in Dynamic(t, p) /\ \A m \in Dynamic(t, p) : n <= m
          BY <4>2, <2>4, <1>10, <1>11 DEF First
        <5>2. Literal(t, p) = {}
          BY <4>2, <1>11 DEF First
        <5>3. Compare(t[n].pattern, p) # "throws"
          BY <4>2, <2>4
        <5> QED BY <5>1, <5>2, <5>3, <1>5, <1>6, <1>13, ServedDynamically DEF Dynamic
      <4> QED BY <4>1, <4>2
    <3>2. RowOf(question, done, t[n])
      BY <3>1, <1>5, SeqDomain DEF TableOf
    <3>3. PICK S : S = Serving(p)
      OBVIOUS
    <3>4. RowAnswers(question, t[n], method, S)
      BY <3>1, <3>2, <3>3, <1>5, RowServes
    <3>5. CASE method \notin DOMAIN t[n].methods
      <4>1. a.to = "405" /\ a.allow = DOMAIN t[n].methods
        BY <1>12, <1>17, <2>4, <3>5 DEF Dispatched
      <4>2. RoutesTo(a, method, p)
        BY <2>1, <3>3, <3>4, <3>5, <4>1, RoutedTo DEF RowAnswers, Call
      <4> QED BY <4>2, <1>1, <1>2
    <3>6. CASE method \in DOMAIN t[n].methods
      <4>1. a.to = "handler" /\ a.handler = t[n].methods[method]
        BY <1>12, <1>17, <2>4, <3>6 DEF Dispatched
      <4>2. \E i \in {k \in Serving(p) : Call(k).method = method} :
                 /\ a.handler = Call(i).handler
                 /\ \A j \in {k \in Serving(p) : Call(k).method = method} : j <= i
        BY <3>3, <3>4, <3>6, <4>1 DEF RowAnswers, Call
      <4>3. RoutesTo(a, method, p)
        BY <2>1, <4>1, <4>2, RoutedTo
      <4> QED BY <4>3, <1>1, <1>2
    <3> QED BY <3>5, <3>6
  <2> QED BY <2>2, <2>3, <2>4
<1> QED BY <1>16, <1>17

-----------------------------------------------------------------------------
(* Modules *)

(* A path without empty segments is normal. *)
LEMMA NormalIsSame ==
  ASSUME NEW s \in Seq(Segment)
  PROVE  NormalizePath(s) = s
<1>1. PICK n \in Nat : n = Len(s) /\ DOMAIN s = 1..n
  OBVIOUS
<1>2. {i \in DOMAIN s : s[i] # ""} = 1..n
  <2>1. \A i \in 1..n : s[i] \in Segment
    BY <1>1
  <2>2. \A i \in 1..n : s[i] # ""
    BY <2>1 DEF Segment
  <2> QED BY <1>1, <2>2
<1>3. IsFiniteSet(1..n) /\ Cardinality(1..n) = n
  BY FS_Interval
<1>4. ASSUME NEW i \in 1..n PROVE Rank(i, 1..n) = i
  <2>1. {j \in 1..n : j <= i} = 1..i
    OBVIOUS
  <2>2. Cardinality(1..i) = i
    <3>1. i \in Int /\ 1 \in Int /\ 1 <= i
      OBVIOUS
    <3> QED BY <3>1, FS_Interval
  <2> QED BY <2>1, <2>2 DEF Rank
<1>5. ASSUME NEW k \in 1..n PROVE (CHOOSE i \in 1..n : Rank(i, 1..n) = k) = k
  BY <1>4
<1> DEFINE kept == {i \in DOMAIN s : s[i] # ""}
           f == [k \in 1..Cardinality(kept) |-> s[CHOOSE i \in kept : Rank(i, kept) = k]]
<1>6. NormalizePath(s) = f
  BY DEF NormalizePath
<1>7. kept = 1..n /\ Cardinality(kept) = n
  BY <1>2, <1>3
<1>8. DOMAIN f = 1..Cardinality(kept)
  OBVIOUS
<1>9. \A k \in 1..Cardinality(kept) : f[k] = s[CHOOSE i \in kept : Rank(i, kept) = k]
  OBVIOUS
<1>10. f = [k \in DOMAIN f |-> f[k]]
  OBVIOUS
<1> HIDE DEF f, kept
<1>11. \A k \in 1..n : f[k] = s[k]
  <2>1. ASSUME NEW k \in 1..n PROVE (CHOOSE i \in kept : Rank(i, kept) = k) = k
    BY <1>5, <1>7
  <2> QED BY <2>1, <1>7, <1>9
<1>12. s = [k \in DOMAIN s |-> s[k]]
  OBVIOUS
<1>13. DOMAIN f = DOMAIN s /\ \A k \in DOMAIN s : f[k] = s[k]
  BY <1>1, <1>7, <1>8, <1>11
<1>14. [k \in DOMAIN f |-> f[k]] = [k \in DOMAIN s |-> s[k]]
  BY <1>13
<1> QED BY <1>6, <1>10, <1>12, <1>14

(* Three paths in a row. *)
LEMMA Associative ==
  ASSUME NEW S, NEW a \in Seq(S), NEW b \in Seq(S), NEW c \in Seq(S)
  PROVE  a \o (b \o c) = (a \o b) \o c
OBVIOUS

(* What a question about modules is made of. *)
LEMMA ModulesSound == ASSUME Put, Of("modules") PROVE SoundModules(question)
<1>1. /\ \A m \in DOMAIN question.modules :
           /\ question.modules[m] \in Modules(DOMAIN question.modules)
           /\ IsInjective(question.modules[m].nested)
      /\ question.roots \in Seq(DOMAIN question.modules) /\ IsInjective(question.roots)
      /\ {question.controllers, question.discovered} \subseteq Seq(Controllers)
  BY Zenon DEF Put, Sensible, Of
<1>2. ASSUME NEW m \in DOMAIN question.modules
      PROVE  /\ question.modules[m].prefix \in Seq(Segment) /\ question.modules[m].hooks \in HookLists
             /\ question.modules[m].nested \in Seq(DOMAIN question.modules)
             /\ question.modules[m].controllers \in Seq(Controllers)
  BY <1>1 DEF Modules
<1>3. RootControllers(question) \in Seq(Controllers)
  BY <1>1 DEF RootControllers
<1> QED BY <1>1, <1>2, <1>3 DEF SoundModules

(* Where the elements of a concatenation come from. *)
LEMMA ChainedPlaces ==
  ASSUME NEW s, NEW t, NEW u, IsSeq(s), IsSeq(t), Chained(s, t, u)
  PROVE  /\ \A z \in DOMAIN u : \/ z \in DOMAIN s /\ u[z] = s[z]
                                \/ z - Len(s) \in DOMAIN t /\ u[z] = t[z - Len(s)]
         /\ \A x \in DOMAIN s : x \in DOMAIN u /\ u[x] = s[x]
         /\ \A x \in DOMAIN t : Len(s) + x \in DOMAIN u /\ u[Len(s) + x] = t[x]
         /\ Len(s) \in Nat /\ \A z \in DOMAIN u : z \in Nat
<1>1. /\ Len(s) \in Nat /\ Len(t) \in Nat /\ DOMAIN s = 1..Len(s) /\ DOMAIN t = 1..Len(t)
      /\ DOMAIN u = 1..Len(u) /\ Len(u) = Len(s) + Len(t)
  BY SeqDomain DEF Chained
<1>2. ASSUME NEW z \in DOMAIN u
      PROVE  \/ z \in DOMAIN s /\ u[z] = s[z]
             \/ z - Len(s) \in DOMAIN t /\ u[z] = t[z - Len(s)]
  <2>1. CASE z <= Len(s)
    BY <1>1, <2>1 DEF Chained
  <2>2. CASE z > Len(s)
    <3>1. z - Len(s) \in 1..Len(t) /\ Len(s) + (z - Len(s)) = z
      BY <1>1, <2>2
    <3>2. u[Len(s) + (z - Len(s))] = t[z - Len(s)]
      BY <3>1 DEF Chained
    <3> QED BY <1>1, <3>1, <3>2
  <2> QED BY <1>1, <2>1, <2>2
<1> QED BY <1>1, <1>2 DEF Chained

(* The controllers and the modules of a place are different items. *)
LEMMA BothBatches ==
  ASSUME NEW s, NEW t, IsSeq(s), IsSeq(t), Apart(s), Apart(t),
         \A x \in DOMAIN s : \A y \in DOMAIN t : s[x].of # t[y].of,
         NEW u, u = s \o t
  PROVE  Both(s, t, u)
<1>1. Chained(s, t, u)
  BY Chaining
<1>2. /\ \A z \in DOMAIN u : \/ z \in DOMAIN s /\ u[z] = s[z]
                             \/ z - Len(s) \in DOMAIN t /\ u[z] = t[z - Len(s)]
      /\ \A x \in DOMAIN s : x \in DOMAIN u /\ u[x] = s[x]
      /\ \A x \in DOMAIN t : Len(s) + x \in DOMAIN u /\ u[Len(s) + x] = t[x]
      /\ Len(s) \in Nat /\ \A z \in DOMAIN u : z \in Nat
  BY <1>1, ChainedPlaces
<1>3. ASSUME NEW y \in DOMAIN u, NEW z \in DOMAIN u, SameItem(u[y], u[z]) PROVE y = z
  <2>1. u[y].of = u[z].of
    BY <1>3 DEF SameItem
  <2>2. CASE y \in DOMAIN s /\ u[y] = s[y]
    <3>1. z \in DOMAIN s /\ u[z] = s[z]
      BY <2>1, <2>2, <1>2
    <3> QED BY <2>2, <3>1, <1>3 DEF Apart
  <2>3. CASE y - Len(s) \in DOMAIN t /\ u[y] = t[y - Len(s)]
    <3>1. z - Len(s) \in DOMAIN t /\ u[z] = t[z - Len(s)]
      BY <2>1, <2>3, <1>2
    <3>2. y - Len(s) = z - Len(s)
      BY <2>3, <3>1, <1>3 DEF Apart
    <3> QED BY <3>2, <1>2
  <2> QED BY <2>2, <2>3, <1>2
<1>4. IsSeq(u)
  BY <1>1 DEF Chained
<1> QED BY <1>2, <1>3, <1>4 DEF Apart, Both

(* The items of the controllers. *)
LEMMA ControllerBatch ==
  ASSUME NEW controllers, IsSeq(controllers), NEW inherited, NEW via,
         NEW s, s = ControllerItems(controllers, inherited, via)
  PROVE  /\ IsSeq(s) /\ Apart(s) /\ DOMAIN s = DOMAIN controllers
         /\ \A x \in DOMAIN s : /\ s[x].of = "controller" /\ s[x].nth = x
                                /\ s[x].target = controllers[x]
                                /\ s[x].inherited = inherited /\ s[x].via = via
<1>1. DOMAIN controllers = 1..Len(controllers) /\ Len(controllers) \in Nat
  BY SeqDomain
<1>2. /\ DOMAIN s = DOMAIN controllers
      /\ \A x \in DOMAIN s : /\ s[x].of = "controller" /\ s[x].nth = x
                             /\ s[x].target = controllers[x]
                             /\ s[x].inherited = inherited /\ s[x].via = via
  BY DEF ControllerItems
<1>3. IsSeq(s)
  <2>1. s \in [1..Len(controllers) -> {s[x] : x \in DOMAIN s}]
    BY <1>1 DEF ControllerItems
  <2>2. s \in Seq({s[x] : x \in DOMAIN s})
    BY <1>1, <2>1
  <2> QED BY <2>2 DEF IsSeq
<1>4. Apart(s)
  BY <1>2 DEF Apart, SameItem
<1> QED BY <1>2, <1>3, <1>4

(* The items of the nested modules. *)
LEMMA ModuleBatch ==
  ASSUME NEW names, IsSeq(names), IsInjective(names), NEW inherited, NEW via,
         NEW s, s = ModuleItems(names, inherited, via)
  PROVE  /\ IsSeq(s) /\ Apart(s) /\ DOMAIN s = DOMAIN names
         /\ \A x \in DOMAIN s : /\ s[x].of = "module" /\ s[x].name = names[x]
                                /\ s[x].inherited = inherited /\ s[x].via = via
<1>1. DOMAIN names = 1..Len(names) /\ Len(names) \in Nat
  BY SeqDomain
<1>2. /\ DOMAIN s = DOMAIN names
      /\ \A x \in DOMAIN s : /\ s[x].of = "module" /\ s[x].name = names[x]
                             /\ s[x].inherited = inherited /\ s[x].via = via
  BY DEF ModuleItems
<1>3. IsSeq(s)
  <2>1. s \in [1..Len(names) -> {s[x] : x \in DOMAIN s}]
    BY <1>1 DEF ModuleItems
  <2>2. s \in Seq({s[x] : x \in DOMAIN s})
    BY <1>1, <2>1
  <2> QED BY <2>2 DEF IsSeq
<1>4. Apart(s)
  BY <1>2 DEF Apart, SameItem, IsInjective
<1> QED BY <1>2, <1>3, <1>4

(* What a walk inherits on its way. *)
LEMMA PathsJoined ==
  ASSUME NEW a \in Seq(Segment), NEW b \in Seq(Segment)
  PROVE  JoinPaths(a, b) = a \o b /\ a \o b \in Seq(Segment)
<1>1. a \o b \in Seq(Segment)
  OBVIOUS
<1>2. NormalizePath(a \o b) = a \o b
  BY <1>1, NormalIsSame
<1> QED BY <1>1, <1>2 DEF JoinPaths

(* The prefixes on a way. *)
LEMMA OnWay ==
  ASSUME NEW q, NEW S, NEW p \in Seq(S)
  PROVE  /\ DOMAIN PrefixesOn(q, p) = 1..Len(p) /\ Len(PrefixesOn(q, p)) = Len(p)
         /\ \A n \in 1..Len(p) : PrefixesOn(q, p)[n] = q.modules[p[n]].prefix
<1>1. DOMAIN p = 1..Len(p) /\ Len(p) \in Nat
  OBVIOUS
<1>2. DOMAIN PrefixesOn(q, p) = 1..Len(p)
  BY <1>1 DEF PrefixesOn
<1>3. Len(PrefixesOn(q, p)) = Len(p)
  BY <1>1, <1>2, FunctionLength
<1>4. \A n \in 1..Len(p) : PrefixesOn(q, p)[n] = q.modules[p[n]].prefix
  BY <1>1 DEF PrefixesOn
<1> QED BY <1>2, <1>3, <1>4

(* The hooks of a kind on a way. *)
LEMMA HooksOnWay ==
  ASSUME NEW q, NEW p, IsSeq(p), NEW k
  PROVE  /\ DOMAIN HooksOn(q, p, k) = 1..Len(p) /\ Len(HooksOn(q, p, k)) = Len(p)
         /\ \A n \in 1..Len(p) : HooksOn(q, p, k)[n] = q.modules[p[n]].hooks[k]
<1>1. DOMAIN p = 1..Len(p) /\ Len(p) \in Nat
  BY SeqDomain
<1>2. DOMAIN HooksOn(q, p, k) = 1..Len(p)
  BY <1>1 DEF HooksOn
<1>3. Len(HooksOn(q, p, k)) = Len(p)
  BY <1>1, <1>2, FunctionLength
<1>4. \A n \in 1..Len(p) : HooksOn(q, p, k)[n] = q.modules[p[n]].hooks[k]
  BY <1>1 DEF HooksOn
<1> QED BY <1>2, <1>3, <1>4

(* Nothing is inherited at the root. *)
LEMMA RootCarries == ASSUME NEW q PROVE Carries(q, <<>>, RootContext)
<1>1. RootContext.prefix = <<>> /\ \A k \in HookKinds : RootContext.hooks[k] = <<>>
  BY DEF RootContext, NoHooks
<1>2. Len(<<>>) = 0 /\ DOMAIN PrefixesOn(q, <<>>) = {} /\ Len(PrefixesOn(q, <<>>)) = 0
  BY DEF PrefixesOn
<1>3. ASSUME NEW k PROVE DOMAIN HooksOn(q, <<>>, k) = {} /\ Len(HooksOn(q, <<>>, k)) = 0
  BY DEF HooksOn
<1>4. Joined(<<>>, PrefixesOn(q, <<>>), 0)
  BY <1>2, JoinedNone
<1>5. ASSUME NEW k PROVE Joined(<<>>, HooksOn(q, <<>>, k), 0)
  BY <1>3, JoinedNone
<1>6. <<>> \in Seq(Segment)
  OBVIOUS
<1> QED BY <1>1, <1>2, <1>4, <1>5, <1>6 DEF Carries

(* One module deeper, its prefix and hooks are inherited too. *)
LEMMA CarriesDeeper ==
  ASSUME NEW q, SoundModules(q), NEW name \in DOMAIN q.modules,
         NEW v \in Seq(DOMAIN q.modules), NEW inherited, Carries(q, v, inherited)
  PROVE  Carries(q, Append(v, name), Inherit(inherited, q.modules[name]))
<1>1. PICK w : w = Append(v, name)
  OBVIOUS
<1>2. PICK d : d = Len(v)
  OBVIOUS
<1>3. /\ w \in Seq(DOMAIN q.modules) /\ d \in Nat /\ Len(w) = d + 1 /\ w[d + 1] = name
      /\ \A i \in 1..d : w[i] = v[i]
  BY <1>1, <1>2
<1>4. PICK m : m = q.modules[name]
  OBVIOUS
<1>5. m.prefix \in Seq(Segment) /\ m.hooks \in HookLists
  BY <1>4 DEF SoundModules
<1>6. PICK inh : inh = Inherit(inherited, m)
  OBVIOUS
<1>7. /\ inh.prefix = JoinPaths(inherited.prefix, m.prefix)
      /\ \A k \in HookKinds : inh.hooks[k] = inherited.hooks[k] \o m.hooks[k]
  BY <1>6 DEF Inherit
<1>8. inherited.prefix \in Seq(Segment)
  BY DEF Carries
<1>9. inh.prefix = inherited.prefix \o m.prefix /\ inh.prefix \in Seq(Segment)
  <2>1. PICK x : x = m.prefix
    OBVIOUS
  <2>2. PICK y : y = inherited.prefix
    OBVIOUS
  <2>3. JoinPaths(y, x) = y \o x /\ y \o x \in Seq(Segment)
    BY <1>5, <1>8, <2>1, <2>2, PathsJoined
  <2> QED BY <1>7, <2>1, <2>2, <2>3
<1>10. Joined(inherited.prefix, PrefixesOn(q, v), d)
  BY <1>2 DEF Carries
<1>11. OneMore(PrefixesOn(q, v), d, m.prefix, PrefixesOn(q, w))
  <2>1. /\ DOMAIN PrefixesOn(q, w) = 1..Len(w) /\ Len(PrefixesOn(q, w)) = Len(w)
        /\ \A n \in 1..Len(w) : PrefixesOn(q, w)[n] = q.modules[w[n]].prefix
    BY <1>3, OnWay
  <2>2. \A n \in 1..Len(v) : PrefixesOn(q, v)[n] = q.modules[v[n]].prefix
    BY OnWay
  <2>3. d + 1 \in 1..(d + 1) /\ \A n \in 1..d : n \in 1..(d + 1)
    BY <1>3
  <2> QED BY <1>2, <1>3, <1>4, <2>1, <2>2, <2>3 DEF OneMore
<1>12. Joined(inh.prefix, PrefixesOn(q, w), d + 1)
  <2>1. IsSeq(m.prefix)
    BY <1>5 DEF IsSeq
  <2>2. Joined(inherited.prefix \o m.prefix, PrefixesOn(q, w), d + 1)
    BY <1>3, <1>10, <1>11, <2>1, JoinedAdds
  <2> QED BY <1>9, <2>2
<1>13. ASSUME NEW k \in HookKinds PROVE Joined(inh.hooks[k], HooksOn(q, w, k), d + 1)
  <2>0. IsSeq(v) /\ IsSeq(w)
    BY <1>3 DEF IsSeq
  <2>1. Joined(inherited.hooks[k], HooksOn(q, v, k), d)
    BY <1>2 DEF Carries
  <2>2. PICK e : e = m.hooks[k]
    OBVIOUS
  <2>3. IsSeq(e)
    <3>1. e \in Seq(STRING)
      BY <1>5, <2>2 DEF HookLists
    <3> QED BY <3>1 DEF IsSeq
  <2>4. OneMore(HooksOn(q, v, k), d, e, HooksOn(q, w, k))
    <3>1. /\ DOMAIN HooksOn(q, w, k) = 1..Len(w) /\ Len(HooksOn(q, w, k)) = Len(w)
          /\ \A n \in 1..Len(w) : HooksOn(q, w, k)[n] = q.modules[w[n]].hooks[k]
      BY <2>0, HooksOnWay
    <3>2. \A n \in 1..Len(v) : HooksOn(q, v, k)[n] = q.modules[v[n]].hooks[k]
      BY <2>0, HooksOnWay
    <3>3. d + 1 \in 1..(d + 1) /\ \A n \in 1..d : n \in 1..(d + 1)
      BY <1>3
    <3> QED BY <1>2, <1>3, <1>4, <2>2, <3>1, <3>2, <3>3 DEF OneMore
  <2>5. PICK x : x = inherited.hooks[k]
    OBVIOUS
  <2>6. Joined(x \o e, HooksOn(q, w, k), d + 1)
    BY <1>3, <2>1, <2>3, <2>4, <2>5, JoinedAdds
  <2> QED BY <1>7, <2>2, <2>5, <2>6
<1>14. Carries(q, w, inh)
  BY <1>3, <1>9, <1>12, <1>13 DEF Carries
<1> QED BY <1>1, <1>4, <1>6, <1>14

(* An active module that is not above itself is on a way of its own. *)
LEMMA PathDeeper ==
  ASSUME NEW q, SoundModules(q), NEW v \in Seq(DOMAIN q.modules), PathOf(q, v),
         NEW name \in ToSet(NamesAt(q, v)), name \notin ToSet(v),
         ProfileActive(q.modules[name].profiles, ActiveOf(q))
  PROVE  /\ name \in DOMAIN q.modules
         /\ PathOf(q, Append(v, name)) /\ NamesAt(q, Append(v, name)) = q.modules[name].nested
         /\ ControllersOn(q, Append(v, name)) = q.modules[name].controllers
<1>1. PICK w : w = Append(v, name)
  OBVIOUS
<1>2. PICK d : d = Len(v)
  OBVIOUS
<1>3. NamesAt(q, v) \in Seq(DOMAIN q.modules)
  <2>1. CASE v = <<>>
    BY <2>1 DEF NamesAt, SoundModules
  <2>2. CASE v # <<>>
    <3>1. Last(v) \in DOMAIN q.modules
      BY <2>2 DEF Last
    <3>2. q.modules[Last(v)].nested \in Seq(DOMAIN q.modules)
      BY <3>1 DEF SoundModules
    <3> QED BY <2>2, <3>2 DEF NamesAt
  <2> QED BY <2>1, <2>2
<1>4. name \in DOMAIN q.modules
  BY <1>3 DEF ToSet
<1>5. /\ w \in Seq(DOMAIN q.modules) /\ d \in Nat /\ Len(w) = d + 1 /\ w[d + 1] = name
      /\ DOMAIN w = 1..(d + 1) /\ DOMAIN v = 1..d /\ w # <<>>
      /\ \A i \in 1..d : w[i] = v[i]
  BY <1>1, <1>2, <1>4
<1>6. Last(w) = name
  BY <1>5 DEF Last
<1>7. w[1] \in ToSet(q.roots)
  <2>1. CASE v = <<>>
    BY <2>1, <1>2, <1>5 DEF NamesAt
  <2>2. CASE v # <<>>
    <3>1. 1 \in 1..d
      BY <2>2, <1>2, <1>5
    <3> QED BY <2>2, <3>1, <1>5 DEF PathOf
  <2> QED BY <2>1, <2>2
<1>8. \A i \in DOMAIN w : ProfileActive(q.modules[w[i]].profiles, ActiveOf(q))
  <2>1. \A i \in 1..d : ProfileActive(q.modules[v[i]].profiles, ActiveOf(q))
    BY <1>5 DEF PathOf
  <2>2. \A i \in DOMAIN w : i = d + 1 \/ i \in 1..d
    BY <1>5
  <2> QED BY <2>1, <2>2, <1>5
<1>9. ASSUME NEW i \in DOMAIN w, NEW j \in DOMAIN w, w[i] = w[j] PROVE i = j
  <2>1. \A x \in 1..d : v[x] # name
    BY <1>5 DEF ToSet
  <2>2. \A x, y \in 1..d : v[x] = v[y] => x = y
    BY <1>5 DEF PathOf
  <2>3. (i = d + 1 \/ i \in 1..d) /\ (j = d + 1 \/ j \in 1..d)
    BY <1>5
  <2> QED BY <1>5, <1>9, <2>1, <2>2, <2>3
<1>10. ASSUME NEW i \in DOMAIN w, i > 1 PROVE w[i] \in ToSet(q.modules[w[i - 1]].nested)
  <2>1. CASE i = d + 1
    <3>1. v # <<>> /\ d \in 1..d /\ Last(v) = v[d]
      BY <2>1, <1>2, <1>5, <1>10 DEF Last
    <3>2. i - 1 = d
      BY <2>1, <1>5
    <3> QED BY <2>1, <3>1, <3>2, <1>5 DEF NamesAt
  <2>2. CASE i \in 1..d
    <3>1. i - 1 \in 1..d
      BY <2>2, <1>5, <1>10
    <3>2. v[i] \in ToSet(q.modules[v[i - 1]].nested)
      BY <2>2, <1>5, <1>10 DEF PathOf
    <3> QED BY <2>2, <3>1, <3>2, <1>5
  <2> QED BY <2>1, <2>2, <1>5
<1>11. PathOf(q, w)
  BY <1>7, <1>8, <1>9, <1>10 DEF PathOf
<1> QED BY <1>1, <1>4, <1>5, <1>6, <1>11 DEF NamesAt, ControllersOn

(* One item is taken off the walk, and others are put in its place. *)
LEMMA Tails ==
  ASSUME NEW s, IsSeq(s), s # <<>>
  PROVE  /\ IsSeq(Tail(s)) /\ 1 \in DOMAIN s /\ Head(s) = s[1]
         /\ \A x \in DOMAIN Tail(s) : x + 1 \in DOMAIN s /\ x + 1 # 1 /\ Tail(s)[x] = s[x + 1]
         /\ \A x \in DOMAIN s : x # 1 => x - 1 \in DOMAIN Tail(s) /\ Tail(s)[x - 1] = s[x]
<1>1. PICK S : s \in Seq(S)
  BY DEF IsSeq
<1>2. /\ Tail(s) \in Seq(S) /\ 1 \in DOMAIN s /\ Head(s) = s[1]
      /\ DOMAIN s = 1..Len(s) /\ Len(s) \in Nat /\ Len(Tail(s)) = Len(s) - 1
      /\ DOMAIN Tail(s) = 1..(Len(s) - 1)
  BY <1>1
<1>3. \A x \in 1..(Len(s) - 1) : Tail(s)[x] = s[x + 1]
  BY <1>1
<1>4. IsSeq(Tail(s))
  BY <1>2 DEF IsSeq
<1>5. \A x \in DOMAIN Tail(s) : x + 1 \in DOMAIN s /\ x + 1 # 1 /\ Tail(s)[x] = s[x + 1]
  BY <1>2, <1>3
<1>6. ASSUME NEW x \in DOMAIN s, x # 1 PROVE x - 1 \in DOMAIN Tail(s) /\ Tail(s)[x - 1] = s[x]
  <2>1. x - 1 \in 1..(Len(s) - 1) /\ (x - 1) + 1 = x
    BY <1>2, <1>6
  <2>2. Tail(s)[x - 1] = s[(x - 1) + 1]
    BY <1>3, <2>1
  <2> QED BY <1>2, <2>1, <2>2
<1> QED BY <1>2, <1>4, <1>5, <1>6

(* What the walk has left once its head was replaced. *)
LEMMA Following ==
  ASSUME NEW items, IsSeq(items), NEW todo, IsSeq(todo), todo # <<>>
  PROVE  Follows(items, todo, items \o Tail(todo))
<1>1. PICK t : t = Tail(todo)
  OBVIOUS
<1>2. PICK u : u = items \o t
  OBVIOUS
<1>3. /\ IsSeq(t)
      /\ \A x \in DOMAIN t : x + 1 \in DOMAIN todo /\ x + 1 # 1 /\ t[x] = todo[x + 1]
      /\ \A x \in DOMAIN todo : x # 1 => x - 1 \in DOMAIN t /\ t[x - 1] = todo[x]
  BY <1>1, Tails
<1>4. Chained(items, t, u)
  BY <1>2, <1>3, Chaining
<1>5. /\ \A z \in DOMAIN u : \/ z \in DOMAIN items /\ u[z] = items[z]
                             \/ z - Len(items) \in DOMAIN t /\ u[z] = t[z - Len(items)]
      /\ \A x \in DOMAIN items : x \in DOMAIN u /\ u[x] = items[x]
      /\ \A x \in DOMAIN t : Len(items) + x \in DOMAIN u /\ u[Len(items) + x] = t[x]
      /\ Len(items) \in Nat /\ \A z \in DOMAIN u : z \in Nat
  BY <1>3, <1>4, ChainedPlaces
<1>6. ASSUME NEW z \in DOMAIN u
      PROVE  \/ z \in DOMAIN items /\ u[z] = items[z]
             \/ \E x \in DOMAIN todo : /\ x # 1 /\ u[z] = todo[x]
                                       /\ z = Len(items) + (x - 1)
  <2>1. CASE z - Len(items) \in DOMAIN t /\ u[z] = t[z - Len(items)]
    <3>1. PICK x : x = (z - Len(items)) + 1
      OBVIOUS
    <3>2. x \in DOMAIN todo /\ x # 1 /\ u[z] = todo[x]
      BY <2>1, <3>1, <1>3
    <3>3. z = Len(items) + (x - 1)
      BY <3>1, <1>5
    <3> QED BY <3>2, <3>3
  <2> QED BY <2>1, <1>5
<1>7. \A x \in DOMAIN todo : x # 1 => \E y \in DOMAIN u : u[y] = todo[x]
  BY <1>3, <1>5
<1>8. \A z \in DOMAIN items : \E y \in DOMAIN u : u[y] = items[z]
  BY <1>5
<1>9. IsSeq(u)
  BY <1>4 DEF Chained
<1>10. Follows(items, todo, u)
  BY <1>6, <1>7, <1>8, <1>9 DEF Follows
<1> QED BY <1>1, <1>2, <1>10

(* A walk stays complete when its head is split. *)
LEMMA HeadReplaced ==
  ASSUME NEW q, NEW todo, NEW entries, Walked(q, todo, entries), todo # <<>>,
         NEW items, Splits(q, Head(todo), items)
  PROVE  Walked(q, items \o Tail(todo), entries)
<1>1. PICK u : u = items \o Tail(todo)
  OBVIOUS
<1>2. PICK h : h = Head(todo)
  OBVIOUS
<1>3. /\ IsSeq(todo) /\ IsSeq(entries)
      /\ \A x \in DOMAIN todo : Placed(q, todo[x])
      /\ \A i \in DOMAIN entries : /\ Placed(q, entries[i]) /\ entries[i].of = "controller"
                                   /\ ProfileActive(entries[i].target.profiles, ActiveOf(q))
      /\ \A i, j \in DOMAIN entries :
           entries[i].via = entries[j].via /\ entries[i].nth = entries[j].nth => i = j
  BY DEF Walked
<1>4. \A x, y \in DOMAIN todo : \A p \in Seq(DOMAIN q.modules) : \A c :
        Covers(todo[x], p, c) /\ Covers(todo[y], p, c) => x = y
  BY DEF Walked
<1>5. \A x \in DOMAIN todo : \A i \in DOMAIN entries :
        ~ Covers(todo[x], entries[i].via, entries[i].nth)
  BY DEF Walked
<1>6. \A p \in Seq(DOMAIN q.modules) : PathOf(q, p) =>
        \A c \in DOMAIN ControllersOn(q, p) :
          ProfileActive(ControllersOn(q, p)[c].profiles, ActiveOf(q)) =>
            \/ \E i \in DOMAIN entries : entries[i].via = p /\ entries[i].nth = c
            \/ \E x \in DOMAIN todo : Covers(todo[x], p, c)
  BY DEF Walked
<1>7. 1 \in DOMAIN todo /\ h = todo[1]
  BY <1>2, <1>3, Tails
<1>8. IsSeq(items)
  BY DEF Splits
<1>9. Follows(items, todo, u)
  BY <1>1, <1>3, <1>8, Following
<1>10. IsSeq(u)
  BY <1>9 DEF Follows
<1>11. \A z \in DOMAIN u : \/ z \in DOMAIN items /\ u[z] = items[z]
                           \/ \E x \in DOMAIN todo : /\ x # 1 /\ u[z] = todo[x]
                                                     /\ z = Len(items) + (x - 1)
  BY <1>9 DEF Follows
<1>12. \A z \in DOMAIN u : Placed(q, u[z])
  <2>1. \A x \in DOMAIN items : Placed(q, items[x])
    BY DEF Splits
  <2> QED BY <2>1, <1>3, <1>11
<1>13. \A x \in DOMAIN items : \A p \in Seq(DOMAIN q.modules) : \A c :
         Covers(items[x], p, c) => Covers(todo[1], p, c)
  BY <1>2, <1>7 DEF Splits
<1>14. ASSUME NEW y \in DOMAIN u, NEW z \in DOMAIN u, NEW p \in Seq(DOMAIN q.modules), NEW c,
              Covers(u[y], p, c), Covers(u[z], p, c)
       PROVE  y = z
  <2>1. ASSUME NEW a \in DOMAIN u, Covers(u[a], p, c)
        PROVE  \/ a \in DOMAIN items /\ Covers(items[a], p, c) /\ Covers(todo[1], p, c)
               \/ \E x \in DOMAIN todo : x # 1 /\ Covers(todo[x], p, c) /\ a = Len(items) + (x - 1)
    <3>1. CASE a \in DOMAIN items /\ u[a] = items[a]
      BY <2>1, <3>1, <1>13
    <3>2. CASE \E x \in DOMAIN todo : x # 1 /\ u[a] = todo[x] /\ a = Len(items) + (x - 1)
      BY <2>1, <3>2
    <3> QED BY <3>1, <3>2, <1>11
  <2>2. CASE y \in DOMAIN items /\ Covers(items[y], p, c) /\ Covers(todo[1], p, c)
    <3>1. \A x \in DOMAIN todo : x # 1 => ~ Covers(todo[x], p, c)
      BY <2>2, <1>4, <1>7
    <3>2. z \in DOMAIN items /\ Covers(items[z], p, c)
      BY <3>1, <2>1, <1>14
    <3>3. \A x1, y1 \in DOMAIN items : \A p1 \in Seq(DOMAIN q.modules) : \A c1 :
            Covers(items[x1], p1, c1) /\ Covers(items[y1], p1, c1) => x1 = y1
      BY DEF Splits
    <3> QED BY <2>2, <3>2, <3>3
  <2>3. CASE \E x \in DOMAIN todo : x # 1 /\ Covers(todo[x], p, c) /\ y = Len(items) + (x - 1)
    <3>1. PICK x \in DOMAIN todo : x # 1 /\ Covers(todo[x], p, c) /\ y = Len(items) + (x - 1)
      BY <2>3
    <3>2. ~ Covers(todo[1], p, c) /\ \A x1 \in DOMAIN todo : Covers(todo[x1], p, c) => x1 = x
      BY <3>1, <1>4, <1>7
    <3>3. \E x1 \in DOMAIN todo : Covers(todo[x1], p, c) /\ z = Len(items) + (x1 - 1)
      BY <3>2, <2>1, <1>14
    <3> QED BY <3>1, <3>2, <3>3
  <2> QED BY <2>1, <2>2, <2>3, <1>14
<1>15. ASSUME NEW z \in DOMAIN u, NEW i \in DOMAIN entries
       PROVE  ~ Covers(u[z], entries[i].via, entries[i].nth)
  <2>1. entries[i].via \in Seq(DOMAIN q.modules)
    BY <1>3 DEF Placed
  <2>2. ~ Covers(todo[1], entries[i].via, entries[i].nth)
    BY <1>5, <1>7
  <2>3. CASE z \in DOMAIN items /\ u[z] = items[z]
    BY <2>1, <2>2, <2>3, <1>13
  <2>4. CASE \E x \in DOMAIN todo : u[z] = todo[x]
    BY <2>4, <1>5
  <2> QED BY <2>3, <2>4, <1>11
<1>16. ASSUME NEW p \in Seq(DOMAIN q.modules), PathOf(q, p), NEW c \in DOMAIN ControllersOn(q, p),
              ProfileActive(ControllersOn(q, p)[c].profiles, ActiveOf(q))
       PROVE  \/ \E i \in DOMAIN entries : entries[i].via = p /\ entries[i].nth = c
              \/ \E z \in DOMAIN u : Covers(u[z], p, c)
  <2>1. CASE \E i \in DOMAIN entries : entries[i].via = p /\ entries[i].nth = c
    BY <2>1
  <2>2. CASE \E x \in DOMAIN todo : Covers(todo[x], p, c)
    <3>1. PICK x \in DOMAIN todo : Covers(todo[x], p, c)
      BY <2>2
    <3>2. CASE x = 1
      <4>1. Wanted(q, p, c) /\ Covers(h, p, c)
        BY <3>1, <3>2, <1>7, <1>16 DEF Wanted
      <4>2. \E y \in DOMAIN items : Covers(items[y], p, c)
        BY <4>1, <1>2 DEF Splits
      <4>3. \A y \in DOMAIN items : \E z \in DOMAIN u : u[z] = items[y]
        BY <1>9 DEF Follows
      <4> QED BY <4>2, <4>3
    <3>3. CASE x # 1
      <4>1. \E z \in DOMAIN u : u[z] = todo[x]
        BY <3>3, <1>9 DEF Follows
      <4> QED BY <3>1, <4>1
    <3> QED BY <3>2, <3>3
  <2> QED BY <2>1, <2>2, <1>6, <1>16
<1>17. Walked(q, u, entries)
  BY <1>3, <1>10, <1>12, <1>14, <1>15, <1>16 DEF Walked
<1> QED BY <1>1, <1>17

(* The names and controllers of a place. *)
LEMMA KnownAt ==
  ASSUME NEW q, SoundModules(q), NEW w \in Seq(DOMAIN q.modules)
  PROVE  /\ NamesAt(q, w) \in Seq(DOMAIN q.modules) /\ IsInjective(NamesAt(q, w))
         /\ IsSeq(NamesAt(q, w)) /\ IsSeq(ControllersOn(q, w))
         /\ ControllersOn(q, w) \in Seq(Controllers)
<1>1. CASE w = <<>>
  BY <1>1 DEF NamesAt, ControllersOn, SoundModules, IsSeq
<1>2. CASE w # <<>>
  <2>1. Last(w) \in DOMAIN q.modules
    BY <1>2 DEF Last
  <2>2. /\ q.modules[Last(w)].nested \in Seq(DOMAIN q.modules) /\ IsInjective(q.modules[Last(w)].nested)
        /\ q.modules[Last(w)].controllers \in Seq(Controllers)
    BY <2>1 DEF SoundModules
  <2> QED BY <1>2, <2>2 DEF NamesAt, ControllersOn, IsSeq
<1> QED BY <1>1, <1>2

(* The items of a place, the modules or the controllers first. *)
LEMMA PlaceItems ==
  ASSUME NEW q, SoundModules(q), NEW w \in Seq(DOMAIN q.modules), NEW inherited,
         NEW s, s = ControllerItems(ControllersOn(q, w), inherited, w),
         NEW t, t = ModuleItems(NamesAt(q, w), inherited, w)
  PROVE  OfPlace(q, w, inherited, s \o t) /\ OfPlace(q, w, inherited, t \o s)
<1>1. PICK cs : cs = ControllersOn(q, w)
  OBVIOUS
<1>2. PICK names : names = NamesAt(q, w)
  OBVIOUS
<1>3. IsSeq(cs) /\ IsSeq(names) /\ IsInjective(names)
  BY <1>1, <1>2, KnownAt
<1>4. /\ IsSeq(s) /\ Apart(s) /\ DOMAIN s = DOMAIN cs
      /\ \A x \in DOMAIN s : /\ s[x].of = "controller" /\ s[x].nth = x
                             /\ s[x].target = cs[x]
                             /\ s[x].inherited = inherited /\ s[x].via = w
  <2>1. s = ControllerItems(cs, inherited, w)
    BY <1>1
  <2> QED BY <2>1, <1>3, ControllerBatch
<1>5. /\ IsSeq(t) /\ Apart(t) /\ DOMAIN t = DOMAIN names
      /\ \A x \in DOMAIN t : /\ t[x].of = "module" /\ t[x].name = names[x]
                             /\ t[x].inherited = inherited /\ t[x].via = w
  <2>1. t = ModuleItems(names, inherited, w)
    BY <1>2
  <2> QED BY <2>1, <1>3, ModuleBatch
<1>6. /\ \A x \in DOMAIN s : \A y \in DOMAIN t : s[x].of # t[y].of
      /\ \A x \in DOMAIN t : \A y \in DOMAIN s : t[x].of # s[y].of
  BY <1>4, <1>5
<1>7. PICK u1 : u1 = s \o t
  OBVIOUS
<1>8. PICK u2 : u2 = t \o s
  OBVIOUS
<1>9. Both(s, t, u1)
  BY <1>4, <1>5, <1>6, <1>7, BothBatches
<1>10. Both(t, s, u2)
  BY <1>4, <1>5, <1>6, <1>8, BothBatches
<1>11. ASSUME NEW u, IsSeq(u), Apart(u),
              \A z \in DOMAIN u : (\E x \in DOMAIN s : u[z] = s[x]) \/ (\E x \in DOMAIN t : u[z] = t[x]),
              \A x \in DOMAIN s : \E z \in DOMAIN u : u[z] = s[x],
              \A x \in DOMAIN t : \E z \in DOMAIN u : u[z] = t[x]
       PROVE  OfPlace(q, w, inherited, u)
  <2>1. ASSUME NEW z \in DOMAIN u
        PROVE  /\ u[z].via = w /\ u[z].inherited = inherited
               /\ \/ /\ u[z].of = "controller" /\ u[z].nth \in DOMAIN ControllersOn(q, w)
                     /\ u[z].target = ControllersOn(q, w)[u[z].nth]
                  \/ u[z].of = "module" /\ u[z].name \in ToSet(NamesAt(q, w))
    <3>1. CASE \E x \in DOMAIN s : u[z] = s[x]
      BY <3>1, <1>1, <1>4
    <3>2. CASE \E x \in DOMAIN t : u[z] = t[x]
      BY <3>2, <1>2, <1>5 DEF ToSet
    <3> QED BY <3>1, <3>2, <1>11
  <2>2. ASSUME NEW c \in DOMAIN ControllersOn(q, w)
        PROVE  \E z \in DOMAIN u : u[z].of = "controller" /\ u[z].nth = c
    <3>1. c \in DOMAIN s
      BY <1>1, <1>4
    <3> QED BY <3>1, <1>4, <1>11
  <2>3. ASSUME NEW m \in ToSet(NamesAt(q, w))
        PROVE  \E z \in DOMAIN u : u[z].of = "module" /\ u[z].name = m
    <3>1. PICK x \in DOMAIN t : t[x].name = m
      BY <1>2, <1>5 DEF ToSet
    <3> QED BY <3>1, <1>5, <1>11
  <2> QED BY <1>11, <2>1, <2>2, <2>3 DEF OfPlace
<1>12. OfPlace(q, w, inherited, u1)
  BY <1>9, <1>11 DEF Both
<1>13. OfPlace(q, w, inherited, u2)
  BY <1>10, <1>11 DEF Both
<1> QED BY <1>7, <1>8, <1>12, <1>13

(* The items of a place cover all that is beneath it, each a part of its own. *)
LEMMA PlaceCovered ==
  ASSUME NEW q, SoundModules(q), NEW w \in Seq(DOMAIN q.modules), PathOf(q, w),
         NEW inherited, Carries(q, w, inherited), NEW u, OfPlace(q, w, inherited, u)
  PROVE  Batch(q, w, u)
<1>1. \A z \in DOMAIN u :
        /\ u[z].via = w /\ u[z].inherited = inherited
        /\ \/ /\ u[z].of = "controller" /\ u[z].nth \in DOMAIN ControllersOn(q, w)
              /\ u[z].target = ControllersOn(q, w)[u[z].nth]
           \/ u[z].of = "module" /\ u[z].name \in ToSet(NamesAt(q, w))
  BY DEF OfPlace
<1>2. IsSeq(u) /\ Apart(u)
  BY DEF OfPlace
<1>3. ASSUME NEW z \in DOMAIN u PROVE Placed(q, u[z])
  <2>1. PICK item : item = u[z]
    OBVIOUS
  <2>2. /\ item.via = w /\ item.inherited = inherited
        /\ \/ /\ item.of = "controller" /\ item.nth \in DOMAIN ControllersOn(q, w)
              /\ item.target = ControllersOn(q, w)[item.nth]
           \/ item.of = "module" /\ item.name \in ToSet(NamesAt(q, w))
    BY <1>1, <2>1
  <2>3. Placed(q, item)
    BY <2>2 DEF Placed
  <2> QED BY <2>1, <2>3
<1>4. Len(w) \in Nat
  OBVIOUS
<1>5. ASSUME NEW x \in DOMAIN u, NEW p \in Seq(DOMAIN q.modules), NEW c, Covers(u[x], p, c)
      PROVE  /\ Beneath(w, p)
             /\ \/ u[x].of = "controller" /\ p = w /\ u[x].nth = c
                \/ u[x].of = "module" /\ Len(w) < Len(p) /\ u[x].name = p[Len(w) + 1]
  <2>1. u[x].via = w
    BY <1>1
  <2>2. CASE u[x].of = "controller"
    <3>1. p = w /\ u[x].nth = c
      BY <2>1, <2>2, <1>5 DEF Covers
    <3> QED BY <2>2, <3>1, <1>4 DEF Beneath
  <2>3. CASE u[x].of = "module"
    <3>1. Leads(w, u[x].name, p)
      BY <2>1, <2>3, <1>5 DEF Covers
    <3>2. Len(p) \in Nat
      OBVIOUS
    <3> QED BY <2>3, <3>1, <3>2, <1>4 DEF Leads, Beneath
  <2> QED BY <2>2, <2>3, <1>1
<1>6. ASSUME NEW x \in DOMAIN u, NEW y \in DOMAIN u, NEW p \in Seq(DOMAIN q.modules), NEW c,
             Covers(u[x], p, c), Covers(u[y], p, c)
      PROVE  x = y
  <2>1. SameItem(u[x], u[y])
    <3>1. \/ u[x].of = "controller" /\ p = w /\ u[x].nth = c
          \/ u[x].of = "module" /\ Len(w) < Len(p) /\ u[x].name = p[Len(w) + 1]
      BY <1>5, <1>6
    <3>2. \/ u[y].of = "controller" /\ p = w /\ u[y].nth = c
          \/ u[y].of = "module" /\ Len(w) < Len(p) /\ u[y].name = p[Len(w) + 1]
      BY <1>5, <1>6
    <3> QED BY <3>1, <3>2, <1>4 DEF SameItem
  <2> QED BY <2>1, <1>2 DEF Apart
<1>7. ASSUME NEW p \in Seq(DOMAIN q.modules), NEW c, Wanted(q, p, c), Beneath(w, p)
      PROVE  \E x \in DOMAIN u : Covers(u[x], p, c)
  <2>1. Len(p) \in Nat /\ DOMAIN p = 1..Len(p) /\ DOMAIN w = 1..Len(w)
    OBVIOUS
  <2>2. CASE Len(p) = Len(w)
    <3>1. p = w
      BY <2>1, <2>2, <1>7 DEF Beneath
    <3>2. c \in DOMAIN ControllersOn(q, w)
      BY <3>1, <1>7 DEF Wanted
    <3>3. PICK z \in DOMAIN u : u[z].of = "controller" /\ u[z].nth = c
      BY <3>2 DEF OfPlace
    <3>4. u[z].via = w
      BY <1>1
    <3> QED BY <3>1, <3>3, <3>4 DEF Covers
  <2>3. CASE Len(w) < Len(p)
    <3>1. p[Len(w) + 1] \in ToSet(NamesAt(q, w))
      <4>1. CASE w = <<>>
        <5>1. Len(w) = 0 /\ p # <<>>
          BY <4>1, <2>3
        <5>2. p[1] \in ToSet(q.roots)
          BY <5>1, <1>7 DEF Wanted, PathOf
        <5> QED BY <4>1, <5>1, <5>2 DEF NamesAt
      <4>2. CASE w # <<>>
        <5>1. Len(w) \in 1..Len(w) /\ Len(w) + 1 \in DOMAIN p /\ Len(w) + 1 > 1
              /\ (Len(w) + 1) - 1 = Len(w)
          BY <4>2, <2>1, <2>3
        <5>2. p[Len(w) + 1] \in ToSet(q.modules[p[(Len(w) + 1) - 1]].nested)
          BY <5>1, <1>7 DEF Wanted, PathOf
        <5>3. p[Len(w)] = w[Len(w)]
          BY <5>1, <1>7 DEF Beneath
        <5> QED BY <4>2, <5>1, <5>2, <5>3 DEF NamesAt, Last
      <4> QED BY <4>1, <4>2
    <3>2. PICK z \in DOMAIN u : u[z].of = "module" /\ u[z].name = p[Len(w) + 1]
      BY <3>1 DEF OfPlace
    <3>3. u[z].via = w
      BY <1>1
    <3>4. Leads(w, u[z].name, p)
      BY <2>3, <3>2, <1>7 DEF Leads, Beneath
    <3> QED BY <3>2, <3>3, <3>4 DEF Covers
  <2>4. Len(w) <= Len(p)
    BY <1>7 DEF Beneath
  <2>5. Len(p) = Len(w) \/ Len(w) < Len(p)
    <3>1. Len(p) \in Int /\ Len(w) \in Int
      OBVIOUS
    <3>2. \A x \in Int, y \in Int : x <= y => y = x \/ x < y
      OBVIOUS
    <3> QED BY <2>4, <3>1, <3>2
  <2> QED BY <2>2, <2>3, <2>5
<1> QED BY <1>2, <1>3, <1>5, <1>6, <1>7 DEF Batch

(* A call of walkModule splits what the module covers. *)
LEMMA ModuleSplit ==
  ASSUME NEW q, SoundModules(q), NEW h, Placed(q, h), h.of = "module"
  PROVE  Splits(q, h, WalkModule(q.modules, h, ActiveOf(q)))
<1>1. PICK v : v = h.via
  OBVIOUS
<1>2. PICK name : name = h.name
  OBVIOUS
<1>3. /\ v \in Seq(DOMAIN q.modules) /\ PathOf(q, v) /\ Carries(q, v, h.inherited)
      /\ name \in ToSet(NamesAt(q, v))
  BY <1>1, <1>2 DEF Placed
<1>4. PICK items : items = WalkModule(q.modules, h, ActiveOf(q))
  OBVIOUS
<1>5. \A p, c : Covers(h, p, c) <=> Leads(v, name, p)
  BY <1>1, <1>2 DEF Covers
<1>6. CASE name \in ToSet(v) \/ ~ ProfileActive(q.modules[name].profiles, ActiveOf(q))
  <2>1. items = <<>>
    BY <1>1, <1>2, <1>4, <1>6 DEF WalkModule
  <2>2. IsSeq(items) /\ DOMAIN items = {}
    BY <2>1, EmptyIsSeq
  <2>3. ASSUME NEW p \in Seq(DOMAIN q.modules), NEW c, Wanted(q, p, c), Covers(h, p, c)
        PROVE  FALSE
    <3>1. /\ Len(v) < Len(p) /\ \A i \in 1..Len(v) : p[i] = v[i]
          /\ p[Len(v) + 1] = name
      BY <2>3, <1>5 DEF Leads
    <3>2. /\ Len(v) \in Nat /\ Len(p) \in Nat /\ DOMAIN p = 1..Len(p) /\ DOMAIN v = 1..Len(v)
      BY <1>3
    <3>3. Len(v) + 1 \in DOMAIN p /\ \A i \in DOMAIN v : i \in DOMAIN p /\ i # Len(v) + 1
      BY <3>1, <3>2
    <3>4. PathOf(q, p)
      BY <2>3 DEF Wanted
    <3>5. ProfileActive(q.modules[name].profiles, ActiveOf(q))
      BY <3>1, <3>3, <3>4 DEF PathOf
    <3>6. name \notin ToSet(v)
      <4>1. ASSUME NEW i \in DOMAIN v, v[i] = name PROVE FALSE
        <5>1. p[i] = p[Len(v) + 1]
          BY <3>1, <3>2, <4>1
        <5> QED BY <3>3, <3>4, <5>1 DEF PathOf
      <4> QED BY <4>1 DEF ToSet
    <3> QED BY <3>5, <3>6, <1>6
  <2> QED BY <1>4, <2>2, <2>3 DEF Splits
<1>7. CASE name \notin ToSet(v) /\ ProfileActive(q.modules[name].profiles, ActiveOf(q))
  <2>1. PICK w : w = Append(v, name)
    OBVIOUS
  <2>2. PICK m : m = q.modules[name]
    OBVIOUS
  <2>3. PICK inh : inh = Inherit(h.inherited, m)
    BY Zenon
  <2>4. items = ControllerItems(m.controllers, inh, w) \o ModuleItems(m.nested, inh, w)
    BY <1>1, <1>2, <1>4, <1>7, <2>1, <2>2, <2>3, Zenon DEF WalkModule
  <2>5. /\ name \in DOMAIN q.modules /\ PathOf(q, w) /\ NamesAt(q, w) = m.nested
        /\ ControllersOn(q, w) = m.controllers
    BY <1>3, <1>7, <2>1, <2>2, PathDeeper
  <2>6. /\ w \in Seq(DOMAIN q.modules) /\ Len(v) \in Nat /\ Len(w) = Len(v) + 1
        /\ w[Len(v) + 1] = name /\ \A i \in 1..Len(v) : w[i] = v[i]
    BY <1>3, <2>1, <2>5
  <2>7. Carries(q, w, inh)
    <3>1. PICK old : old = h.inherited
      OBVIOUS
    <3>2. Carries(q, Append(v, name), Inherit(old, q.modules[name]))
      BY <1>3, <2>5, <3>1, CarriesDeeper
    <3> QED BY <2>1, <2>2, <2>3, <3>1, <3>2
  <2>8. OfPlace(q, w, inh, items)
    <3>1. PICK s : s = ControllerItems(ControllersOn(q, w), inh, w)
      OBVIOUS
    <3>2. PICK t : t = ModuleItems(NamesAt(q, w), inh, w)
      OBVIOUS
    <3>3. OfPlace(q, w, inh, s \o t)
      BY <2>6, <3>1, <3>2, PlaceItems
    <3> QED BY <2>4, <2>5, <3>1, <3>2, <3>3
  <2>9. Batch(q, w, items)
    BY <2>5, <2>6, <2>7, <2>8, PlaceCovered
  <2>10. ASSUME NEW p \in Seq(DOMAIN q.modules) PROVE Leads(v, name, p) <=> Beneath(w, p)
    <3>1. Len(p) \in Nat
      OBVIOUS
    <3>2. \A i : i \in 1..(Len(v) + 1) <=> (i \in 1..Len(v) \/ i = Len(v) + 1)
      BY <2>6
    <3>3. Len(v) < Len(p) <=> Len(v) + 1 <= Len(p)
      BY <3>1, <2>6
    <3>4. Leads(v, name, p) => Beneath(w, p)
      BY <3>2, <3>3, <2>6 DEF Leads, Beneath
    <3>5. Beneath(w, p) => Leads(v, name, p)
      BY <3>2, <3>3, <2>6 DEF Leads, Beneath
    <3> QED BY <3>4, <3>5
  <2>11. IsSeq(items) /\ \A x \in DOMAIN items : Placed(q, items[x])
    BY <2>9 DEF Batch
  <2>12. \A x, y \in DOMAIN items : \A p \in Seq(DOMAIN q.modules) : \A c :
           Covers(items[x], p, c) /\ Covers(items[y], p, c) => x = y
    BY <2>9 DEF Batch
  <2>13. \A x \in DOMAIN items : \A p \in Seq(DOMAIN q.modules) : \A c :
           Covers(items[x], p, c) => Covers(h, p, c)
    BY <2>9, <2>10, <1>5 DEF Batch
  <2>14. \A p \in Seq(DOMAIN q.modules) : \A c :
           Wanted(q, p, c) /\ Covers(h, p, c) => \E x \in DOMAIN items : Covers(items[x], p, c)
    BY <2>9, <2>10, <1>5 DEF Batch
  <2> QED BY <1>4, <2>11, <2>12, <2>13, <2>14 DEF Splits
<1> QED BY <1>6, <1>7

(* A controller is collected, or is not active. *)
LEMMA ControllerCollected ==
  ASSUME NEW q, NEW todo, NEW entries, Walked(q, todo, entries), todo # <<>>,
         NEW h, h = Head(todo), h.of = "controller",
         ProfileActive(h.target.profiles, ActiveOf(q))
  PROVE  Walked(q, Tail(todo), Append(entries, h))
<1>1. PICK t : t = Tail(todo)
  OBVIOUS
<1>2. PICK es : es = Append(entries, h)
  OBVIOUS
<1>3. /\ IsSeq(todo) /\ IsSeq(entries)
      /\ \A x \in DOMAIN todo : Placed(q, todo[x])
      /\ \A i \in DOMAIN entries : /\ Placed(q, entries[i]) /\ entries[i].of = "controller"
                                   /\ ProfileActive(entries[i].target.profiles, ActiveOf(q))
      /\ \A i, j \in DOMAIN entries :
           entries[i].via = entries[j].via /\ entries[i].nth = entries[j].nth => i = j
  BY DEF Walked
<1>4. \A x, y \in DOMAIN todo : \A p \in Seq(DOMAIN q.modules) : \A c :
        Covers(todo[x], p, c) /\ Covers(todo[y], p, c) => x = y
  BY DEF Walked
<1>5. \A x \in DOMAIN todo : \A i \in DOMAIN entries :
        ~ Covers(todo[x], entries[i].via, entries[i].nth)
  BY DEF Walked
<1>6. \A p \in Seq(DOMAIN q.modules) : PathOf(q, p) =>
        \A c \in DOMAIN ControllersOn(q, p) :
          ProfileActive(ControllersOn(q, p)[c].profiles, ActiveOf(q)) =>
            \/ \E i \in DOMAIN entries : entries[i].via = p /\ entries[i].nth = c
            \/ \E x \in DOMAIN todo : Covers(todo[x], p, c)
  BY DEF Walked
<1>7. /\ IsSeq(t) /\ 1 \in DOMAIN todo /\ h = todo[1]
      /\ \A x \in DOMAIN t : x + 1 \in DOMAIN todo /\ x + 1 # 1 /\ t[x] = todo[x + 1]
      /\ \A x \in DOMAIN todo : x # 1 => x - 1 \in DOMAIN t /\ t[x - 1] = todo[x]
  BY <1>1, <1>3, Tails
<1>8. PICK n : n = Len(entries)
  OBVIOUS
<1>9. /\ IsSeq(es) /\ n \in Nat /\ DOMAIN entries = 1..n /\ DOMAIN es = 1..(n + 1)
      /\ es[n + 1] = h /\ \A i \in 1..n : es[i] = entries[i]
  <2>1. Longer(entries, h, es)
    BY <1>2, <1>3, Appending
  <2>2. IsSeq(es)
    BY <2>1 DEF Longer
  <2> QED BY <1>3, <1>8, <2>1, <2>2, SeqDomain DEF Longer
<1>10. \A i \in DOMAIN es : i = n + 1 \/ (i \in DOMAIN entries /\ es[i] = entries[i])
  BY <1>9
<1>11. Placed(q, h) /\ h.via \in Seq(DOMAIN q.modules) /\ Covers(h, h.via, h.nth)
  BY <1>3, <1>7 DEF Placed, Covers
<1>12. \A i \in DOMAIN es : /\ Placed(q, es[i]) /\ es[i].of = "controller"
                            /\ ProfileActive(es[i].target.profiles, ActiveOf(q))
  BY <1>3, <1>9, <1>10, <1>11
<1>13. \A x \in DOMAIN t : Placed(q, t[x])
  BY <1>3, <1>7
<1>14. ASSUME NEW x \in DOMAIN t, NEW y \in DOMAIN t, NEW p \in Seq(DOMAIN q.modules), NEW c,
              Covers(t[x], p, c), Covers(t[y], p, c)
       PROVE  x = y
  <2>1. x + 1 \in DOMAIN todo /\ y + 1 \in DOMAIN todo /\ t[x] = todo[x + 1] /\ t[y] = todo[y + 1]
    BY <1>7
  <2>2. x + 1 = y + 1
    BY <2>1, <1>4, <1>14
  <2>3. x \in Nat /\ y \in Nat
    BY <1>7, SeqDomain
  <2> QED BY <2>2, <2>3
<1>15. ASSUME NEW x \in DOMAIN t, NEW i \in DOMAIN es
       PROVE  ~ Covers(t[x], es[i].via, es[i].nth)
  <2>1. x + 1 \in DOMAIN todo /\ x + 1 # 1 /\ t[x] = todo[x + 1]
    BY <1>7
  <2>2. ~ Covers(t[x], h.via, h.nth)
    BY <2>1, <1>4, <1>7, <1>11
  <2>3. CASE i = n + 1
    BY <2>2, <2>3, <1>9
  <2>4. CASE i \in DOMAIN entries /\ es[i] = entries[i]
    BY <2>1, <2>4, <1>5
  <2> QED BY <2>3, <2>4, <1>10
<1>16. ASSUME NEW i \in DOMAIN es, NEW j \in DOMAIN es,
              es[i].via = es[j].via, es[i].nth = es[j].nth
       PROVE  i = j
  <2>1. \A k \in DOMAIN entries : ~ (entries[k].via = h.via /\ entries[k].nth = h.nth)
    BY <1>5, <1>7, <1>11
  <2>2. CASE i = n + 1
    BY <2>1, <2>2, <1>9, <1>10, <1>16
  <2>3. CASE j = n + 1
    BY <2>1, <2>3, <1>9, <1>10, <1>16
  <2>4. CASE i \in DOMAIN entries /\ es[i] = entries[i] /\ j \in DOMAIN entries /\ es[j] = entries[j]
    BY <2>4, <1>3, <1>16
  <2> QED BY <2>2, <2>3, <2>4, <1>10
<1>17. ASSUME NEW p \in Seq(DOMAIN q.modules), PathOf(q, p), NEW c \in DOMAIN ControllersOn(q, p),
              ProfileActive(ControllersOn(q, p)[c].profiles, ActiveOf(q))
       PROVE  \/ \E i \in DOMAIN es : es[i].via = p /\ es[i].nth = c
              \/ \E x \in DOMAIN t : Covers(t[x], p, c)
  <2>1. CASE \E i \in DOMAIN entries : entries[i].via = p /\ entries[i].nth = c
    BY <2>1, <1>9
  <2>2. CASE \E x \in DOMAIN todo : Covers(todo[x], p, c)
    <3>1. PICK x \in DOMAIN todo : Covers(todo[x], p, c)
      BY <2>2
    <3>2. CASE x = 1
      <4>1. h.via = p /\ h.nth = c
        BY <3>1, <3>2, <1>7 DEF Covers
      <4>2. n + 1 \in DOMAIN es /\ es[n + 1] = h
        BY <1>9
      <4> QED BY <4>1, <4>2
    <3>3. CASE x # 1
      BY <3>1, <3>3, <1>7
    <3> QED BY <3>2, <3>3
  <2> QED BY <2>1, <2>2, <1>6, <1>17
<1>18. Walked(q, t, es)
  BY <1>7, <1>9, <1>12, <1>13, <1>14, <1>15, <1>16, <1>17 DEF Walked
<1> QED BY <1>1, <1>2, <1>18

(* A controller that is not active is not wanted. *)
LEMMA Dropped ==
  ASSUME NEW q, NEW todo, NEW entries, Walked(q, todo, entries), todo # <<>>,
         NEW h, h = Head(todo), h.of = "controller",
         ~ ProfileActive(h.target.profiles, ActiveOf(q))
  PROVE  Walked(q, Tail(todo), entries)
<1>1. IsSeq(todo) /\ \A x \in DOMAIN todo : Placed(q, todo[x])
  BY DEF Walked
<1>2. IsSeq(Tail(todo)) /\ 1 \in DOMAIN todo /\ Head(todo) = todo[1]
  BY <1>1, Tails
<1>3. Placed(q, h)
  BY <1>1, <1>2
<1>4. ASSUME NEW p \in Seq(DOMAIN q.modules), NEW c, Wanted(q, p, c), Covers(h, p, c)
      PROVE  FALSE
  <2>1. p = h.via /\ c = h.nth
    BY <1>4 DEF Covers
  <2>2. h.target = ControllersOn(q, p)[c]
    BY <1>3, <2>1 DEF Placed
  <2> QED BY <2>2, <1>4 DEF Wanted
<1>5. PICK items : items = <<>>
  OBVIOUS
<1>6. IsSeq(items) /\ DOMAIN items = {}
  BY <1>5, EmptyIsSeq
<1>7. Splits(q, h, items)
  BY <1>4, <1>6 DEF Splits
<1>8. Walked(q, items \o Tail(todo), entries)
  BY <1>7, HeadReplaced
<1>9. items \o Tail(todo) = Tail(todo)
  BY <1>2, <1>5 DEF IsSeq
<1> QED BY <1>8, <1>9

(* The invariant about modules holds when it is asked. *)
LEMMA ModulesStart == ASSUME Put, Ask PROVE ModulesInv
<1> SUFFICES ASSUME Of("modules") PROVE ModulesInv
  BY DEF ModulesInv
<1>1. answer = [todo |-> MountEntries(question), entries |-> <<>>]
  BY Zenon DEF Ask, Begin, Of
<1>2. PICK q : q = question
  OBVIOUS
<1>3. SoundModules(q)
  BY <1>2, ModulesSound
<1>4. PICK s : s = ControllerItems(ControllersOn(q, <<>>), RootContext, <<>>)
  OBVIOUS
<1>5. PICK t : t = ModuleItems(NamesAt(q, <<>>), RootContext, <<>>)
  OBVIOUS
<1>6. PICK u : u = t \o s
  OBVIOUS
<1>7. MountEntries(question) = u
  BY <1>2, <1>4, <1>5, <1>6 DEF MountEntries, NamesAt, ControllersOn
<1>8. PICK w : w = <<>>
  OBVIOUS
<1>9. w \in Seq(DOMAIN q.modules) /\ PathOf(q, w) /\ Carries(q, w, RootContext)
  <2>1. w \in Seq(DOMAIN q.modules) /\ DOMAIN w = {}
    BY <1>8
  <2> QED BY <2>1, <1>8, RootCarries DEF PathOf
<1>10. OfPlace(q, w, RootContext, u)
  BY <1>3, <1>4, <1>5, <1>6, <1>8, <1>9, PlaceItems
<1>11. Batch(q, w, u)
  BY <1>3, <1>9, <1>10, PlaceCovered
<1>12. ASSUME NEW p \in Seq(DOMAIN q.modules) PROVE Beneath(w, p)
  <2>1. Len(w) = 0 /\ Len(p) \in Nat
    BY <1>8
  <2> QED BY <2>1 DEF Beneath
<1>13. IsSeq(u) /\ \A x \in DOMAIN u : Placed(q, u[x])
  BY <1>11 DEF Batch
<1>14. \A x, y \in DOMAIN u : \A p \in Seq(DOMAIN q.modules) : \A c :
         Covers(u[x], p, c) /\ Covers(u[y], p, c) => x = y
  BY <1>11 DEF Batch
<1>15. \A p \in Seq(DOMAIN q.modules) : \A c : Wanted(q, p, c) => \E x \in DOMAIN u : Covers(u[x], p, c)
  BY <1>11, <1>12 DEF Batch
<1>16. IsSeq(w) /\ DOMAIN w = {}
  BY <1>8, EmptyIsSeq
<1>17. Walked(q, u, w)
  BY <1>13, <1>14, <1>15, <1>16 DEF Walked, Wanted
<1>18. answer.todo = u /\ answer.entries = w
  BY <1>1, <1>7, <1>8
<1>19. answer \in [todo : {answer.todo}, entries : {answer.entries}]
  BY <1>1
<1> QED BY <1>2, <1>17, <1>18, <1>19 DEF ModulesInv

(* Each step keeps the invariant about modules. *)
LEMMA ModulesStep == ASSUME Put, ModulesInv, Compute PROVE ModulesInv'
<1> SUFFICES ASSUME Of("modules") PROVE ModulesInv'
  BY Counts DEF ModulesInv, Of, Put
<1>1. EnterModule \/ CollectController
  BY ActionOf
<1>2. question' = question /\ answer.todo # <<>>
  BY <1>1 DEF EnterModule, CollectController, Walks
<1>3. /\ Walked(question, answer.todo, answer.entries)
      /\ answer \in [todo : {answer.todo}, entries : {answer.entries}]
  BY DEF ModulesInv
<1>4. ActiveProfiles = ActiveOf(question)
  BY DEF ActiveProfiles, ActiveOf
<1>5. PICK q : q = question
  OBVIOUS
<1>6. PICK todo : todo = answer.todo
  OBVIOUS
<1>7. PICK entries : entries = answer.entries
  OBVIOUS
<1>8. PICK h : h = Head(todo)
  OBVIOUS
<1>9. Walked(q, todo, entries) /\ todo # <<>>
  BY <1>2, <1>3, <1>5, <1>6, <1>7
<1>10. \E new, more : /\ answer' \in [todo : {new}, entries : {more}]
                      /\ Walked(q, new, more)
  <2>1. CASE EnterModule
    <3>1. PICK items : items = WalkModule(q.modules, h, ActiveOf(q))
      OBVIOUS
    <3>2. h.of = "module"
      BY <2>1, <1>6, <1>8 DEF EnterModule, Walks
    <3>3. answer' = [answer EXCEPT !.todo = items \o Tail(todo)]
      BY <2>1, <3>1, <1>4, <1>5, <1>6, <1>8 DEF EnterModule
    <3>4. PICK new : new = items \o Tail(todo)
      OBVIOUS
    <3>5. answer' \in [todo : {new}, entries : {entries}]
      BY <1>3, <1>6, <1>7, <3>3, <3>4
    <3>6. Placed(q, h)
      <4>1. IsSeq(todo) /\ \A x \in DOMAIN todo : Placed(q, todo[x])
        BY <1>9 DEF Walked
      <4> QED BY <4>1, <1>8, <1>9, Tails
    <3>7. SoundModules(q)
      BY <1>5, ModulesSound
    <3>8. Splits(q, h, items)
      BY <3>1, <3>2, <3>6, <3>7, ModuleSplit
    <3>9. Walked(q, new, entries)
      BY <1>8, <1>9, <3>4, <3>8, HeadReplaced
    <3> QED BY <3>5, <3>9
  <2>2. CASE CollectController
    <3>1. h.of = "controller"
      BY <2>2, <1>6, <1>8 DEF CollectController, Walks
    <3>2. PICK t : t = Tail(todo)
      OBVIOUS
    <3>3. PICK more : more = IF ProfileActive(h.target.profiles, ActiveOf(q))
                             THEN Append(entries, h) ELSE entries
      OBVIOUS
    <3>4. answer' = [todo |-> t, entries |-> more]
      BY <2>2, <3>2, <3>3, <1>4, <1>5, <1>6, <1>7, <1>8 DEF CollectController
    <3>5. Walked(q, t, more)
      <4>1. CASE ProfileActive(h.target.profiles, ActiveOf(q))
        <5>1. more = Append(entries, h)
          BY <3>3, <4>1
        <5>2. Walked(q, Tail(todo), Append(entries, h))
          BY <1>8, <1>9, <3>1, <4>1, ControllerCollected
        <5> QED BY <3>2, <5>1, <5>2
      <4>2. CASE ~ ProfileActive(h.target.profiles, ActiveOf(q))
        <5>1. more = entries
          BY <3>3, <4>2
        <5>2. Walked(q, Tail(todo), entries)
          BY <1>8, <1>9, <3>1, <4>2, Dropped
        <5> QED BY <3>2, <5>1, <5>2
      <4> QED BY <4>1, <4>2
    <3>6. answer' \in [todo : {t}, entries : {more}]
      BY <3>4
    <3> QED BY <3>5, <3>6
  <2> QED BY <1>1, <2>1, <2>2
<1>11. PICK new, more : /\ answer' \in [todo : {new}, entries : {more}]
                        /\ Walked(q, new, more)
  BY <1>10
<1>12. answer'.todo = new /\ answer'.entries = more
  BY <1>11
<1> QED BY <1>2, <1>5, <1>11, <1>12 DEF ModulesInv

(* The hooks of a mounted route: five lists in a row. *)
LEMMA InARow ==
  ASSUME NEW d \in Nat, NEW whole, NEW parts, Joined(whole, parts, d),
         NEW e, IsSeq(e), NEW more, DOMAIN more = 1..(d + 1), more[d + 1] = e,
         \A i \in 1..d : more[i] = parts[i], NEW next, next = whole \o e, NEW n, n = d + 1
  PROVE  Joined(next, more, n)
<1>1. d + 1 \in Nat
  OBVIOUS
<1>2. Len(more) = d + 1
  BY <1>1, FunctionLength
<1>3. OneMore(parts, d, e, more)
  BY <1>2 DEF OneMore
<1>4. Joined(whole \o e, more, d + 1)
  BY <1>3, JoinedAdds
<1> QED BY <1>4

(* Five lists in a row. *)
LEMMA FiveInARow ==
  ASSUME NEW a, NEW b, NEW c, NEW d, NEW e, IsSeq(a), IsSeq(b), IsSeq(c), IsSeq(d), IsSeq(e)
  PROVE  Strung(a \o b \o c \o d \o e, <<a, b, c, d, e>>)
<1>1. PICK p0, p1, p2, p3, p4, p5 :
        /\ p0 = <<>> /\ p1 = <<a>> /\ p2 = <<a, b>> /\ p3 = <<a, b, c>> /\ p4 = <<a, b, c, d>>
        /\ p5 = <<a, b, c, d, e>>
  OBVIOUS
<1>2. /\ DOMAIN p0 = {} /\ Len(p0) = 0
      /\ DOMAIN p1 = 1..1 /\ p1[1] = a
      /\ DOMAIN p2 = 1..2 /\ p2[1] = a /\ p2[2] = b
      /\ DOMAIN p3 = 1..3 /\ p3[1] = a /\ p3[2] = b /\ p3[3] = c
      /\ DOMAIN p4 = 1..4 /\ p4[1] = a /\ p4[2] = b /\ p4[3] = c /\ p4[4] = d
      /\ DOMAIN p5 = 1..5 /\ p5[1] = a /\ p5[2] = b /\ p5[3] = c /\ p5[4] = d /\ p5[5] = e
  BY <1>1
<1>3. PICK n0, n1, n2, n3, n4, n5 : n0 = 0 /\ n1 = 1 /\ n2 = 2 /\ n3 = 3 /\ n4 = 4 /\ n5 = 5
  OBVIOUS
<1>4. /\ n0 \in Nat /\ n1 \in Nat /\ n2 \in Nat /\ n3 \in Nat /\ n4 \in Nat
      /\ n1 = n0 + 1 /\ n2 = n1 + 1 /\ n3 = n2 + 1 /\ n4 = n3 + 1 /\ n5 = n4 + 1
  BY <1>3
<1>5. PICK w0, w1, w2, w3, w4, w5 :
        /\ w0 = <<>> /\ w1 = w0 \o a /\ w2 = w1 \o b /\ w3 = w2 \o c /\ w4 = w3 \o d
        /\ w5 = w4 \o e
  OBVIOUS
<1>6. w1 = a
  BY <1>5 DEF IsSeq
<1>7. Joined(w0, p0, n0)
  BY <1>2, <1>3, <1>5, JoinedNone
<1>8. Joined(w1, p1, n1)
  <2>1. DOMAIN p1 = 1..(n0 + 1) /\ p1[n0 + 1] = a /\ \A i \in 1..n0 : p1[i] = p0[i]
    BY <1>2, <1>3
  <2> QED BY <2>1, <1>4, <1>5, <1>7, InARow
<1>9. Joined(w2, p2, n2)
  <2>1. DOMAIN p2 = 1..(n1 + 1) /\ p2[n1 + 1] = b
    BY <1>2, <1>3
  <2>2. \A i \in 1..n1 : p2[i] = p1[i]
    <3>1. \A i \in 1..n1 : i = 1
      BY <1>3
    <3> QED BY <3>1, <1>2
  <2> QED BY <2>1, <2>2, <1>4, <1>5, <1>8, InARow
<1>10. Joined(w3, p3, n3)
  <2>1. DOMAIN p3 = 1..(n2 + 1) /\ p3[n2 + 1] = c
    BY <1>2, <1>3
  <2>2. \A i \in 1..n2 : p3[i] = p2[i]
    <3>1. \A i \in 1..n2 : i = 1 \/ i = 2
      BY <1>3
    <3> QED BY <3>1, <1>2
  <2> QED BY <2>1, <2>2, <1>4, <1>5, <1>9, InARow
<1>11. Joined(w4, p4, n4)
  <2>1. DOMAIN p4 = 1..(n3 + 1) /\ p4[n3 + 1] = d
    BY <1>2, <1>3
  <2>2. \A i \in 1..n3 : p4[i] = p3[i]
    <3>1. \A i \in 1..n3 : i = 1 \/ i = 2 \/ i = 3
      BY <1>3
    <3> QED BY <3>1, <1>2
  <2> QED BY <2>1, <2>2, <1>4, <1>5, <1>10, InARow
<1>12. Joined(w5, p5, n5)
  <2>1. DOMAIN p5 = 1..(n4 + 1) /\ p5[n4 + 1] = e
    BY <1>2, <1>3
  <2>2. \A i \in 1..n4 : p5[i] = p4[i]
    <3>1. \A i \in 1..n4 : i = 1 \/ i = 2 \/ i = 3 \/ i = 4
      BY <1>3
    <3> QED BY <3>1, <1>2
  <2> QED BY <2>1, <2>2, <1>4, <1>5, <1>11, InARow
<1>13. Strung(w5, p5)
  BY <1>12 DEF Joined
<1>14. w5 = a \o b \o c \o d \o e
  BY <1>5, <1>6
<1> QED BY <1>1, <1>13, <1>14

(* What mount() makes of a route of a collected controller. *)
LEMMA MountIs ==
  ASSUME NEW e, NEW r \in DOMAIN e.target.routes
  PROVE  /\ Mount(e)[r].pattern
              = JoinPaths(e.inherited.prefix, e.target.base \o e.target.routes[r].path)
         /\ \A k \in HookKinds :
              Mount(e)[r].hooks[k] = HooksOf(k, e.inherited.hooks, e.target.hooks, e.target.macros,
                                             e.target.routes[r].hooks, e.target.routes[r].macros)
BY DEF Mount

(* A mounted route has the prefix and all hooks, in the order of mount(). *)
LEMMA MountedInherits ==
  ASSUME NEW q, NEW e, Carries(q, e.via, e.inherited), e.target \in Controllers,
         NEW r \in DOMAIN e.target.routes, NEW mounted, mounted = Mount(e)[r]
  PROVE  LET c == e.target
             route == c.routes[r] IN
         /\ mounted.pattern = e.inherited.prefix \o c.base \o route.path
         /\ \A k \in HookKinds \ {"catchError"} :
              Strung(mounted.hooks[k], <<e.inherited.hooks[k], c.hooks[k], c.macros[k],
                                         route.hooks[k], route.macros[k]>>)
         /\ LET k == "catchError" IN
            Strung(mounted.hooks[k], <<route.hooks[k], route.macros[k], c.hooks[k], c.macros[k],
                                       e.inherited.hooks[k]>>)
<1>1. PICK c : c = e.target
  OBVIOUS
<1>2. PICK route : route = c.routes[r]
  OBVIOUS
<1>3. PICK prefix : prefix = e.inherited.prefix
  OBVIOUS
<1>4. PICK inh : inh = e.inherited.hooks
  OBVIOUS
<1>5. PICK base : base = c.base
  OBVIOUS
<1>6. PICK path : path = route.path
  OBVIOUS
<1>7. /\ mounted.pattern = JoinPaths(prefix, base \o path)
      /\ \A k \in HookKinds :
           mounted.hooks[k] = HooksOf(k, inh, c.hooks, c.macros, route.hooks, route.macros)
  BY <1>1, <1>2, <1>3, <1>4, <1>5, <1>6, MountIs
<1>8. /\ base \in Seq(Segment) /\ c.hooks \in HookLists /\ c.macros \in HookLists
      /\ c.routes \in Seq([path : Seq(Segment), method : STRING, hooks : HookLists, macros : HookLists])
  BY <1>1, <1>5 DEF Controllers
<1>9. route \in [path : Seq(Segment), method : STRING, hooks : HookLists, macros : HookLists]
  BY <1>1, <1>2, <1>8, ElementOf
<1>10. path \in Seq(Segment) /\ route.hooks \in HookLists /\ route.macros \in HookLists
  BY <1>6, <1>9
<1>11. prefix \in Seq(Segment)
  BY <1>3 DEF Carries
<1>12. mounted.pattern = (prefix \o base) \o path
  <2>1. base \o path \in Seq(Segment)
    BY <1>8, <1>10
  <2>2. PICK below : below = base \o path
    OBVIOUS
  <2>3. JoinPaths(prefix, below) = prefix \o below
    BY <1>11, <2>1, <2>2, PathsJoined
  <2>4. prefix \o (base \o path) = (prefix \o base) \o path
    BY <1>8, <1>10, <1>11, Associative
  <2> QED BY <1>7, <2>2, <2>3, <2>4
<1>13. ASSUME NEW k \in HookKinds
       PROVE  /\ IsSeq(inh[k]) /\ IsSeq(c.hooks[k]) /\ IsSeq(c.macros[k])
              /\ IsSeq(route.hooks[k]) /\ IsSeq(route.macros[k])
  <2>1. IsSeq(inh[k])
    BY <1>4 DEF Carries, Joined
  <2>2. \A l \in HookLists : IsSeq(l[k])
    BY DEF HookLists, IsSeq
  <2> QED BY <2>1, <2>2, <1>8, <1>10
<1>14. ASSUME NEW k \in HookKinds, k # "catchError"
       PROVE  Strung(mounted.hooks[k], <<inh[k], c.hooks[k], c.macros[k], route.hooks[k], route.macros[k]>>)
  <2>1. mounted.hooks[k] = inh[k] \o c.hooks[k] \o c.macros[k] \o route.hooks[k] \o route.macros[k]
    BY <1>7, <1>14 DEF HooksOf
  <2>2. PICK h1, h2, h3, h4, h5 : /\ h1 = inh[k] /\ h2 = c.hooks[k] /\ h3 = c.macros[k]
                                  /\ h4 = route.hooks[k] /\ h5 = route.macros[k]
    OBVIOUS
  <2>3. Strung(h1 \o h2 \o h3 \o h4 \o h5, <<h1, h2, h3, h4, h5>>)
    BY <1>13, <2>2, FiveInARow
  <2> QED BY <2>1, <2>2, <2>3
<1>15. ASSUME NEW k \in HookKinds, k = "catchError"
       PROVE  Strung(mounted.hooks[k], <<route.hooks[k], route.macros[k], c.hooks[k], c.macros[k], inh[k]>>)
  <2>1. mounted.hooks[k] = route.hooks[k] \o route.macros[k] \o c.hooks[k] \o c.macros[k] \o inh[k]
    BY <1>7, <1>15 DEF HooksOf
  <2>2. PICK h1, h2, h3, h4, h5 : /\ h1 = route.hooks[k] /\ h2 = route.macros[k] /\ h3 = c.hooks[k]
                                  /\ h4 = c.macros[k] /\ h5 = inh[k]
    OBVIOUS
  <2>3. Strung(h1 \o h2 \o h3 \o h4 \o h5, <<h1, h2, h3, h4, h5>>)
    BY <1>13, <2>2, FiveInARow
  <2> QED BY <2>1, <2>2, <2>3
<1>16. "catchError" \in HookKinds
  BY DEF HookKinds
<1> QED BY <1>1, <1>2, <1>3, <1>4, <1>5, <1>6, <1>12, <1>14, <1>15, <1>16

(* Each active controller is collected once for each way to it, with all it inherits. *)
LEMMA ModulesEnd == ASSUME Put, ModulesInv PROVE ModulesInherit
<1> SUFFICES ASSUME Of("modules") PROVE ModulesInherit
  BY DEF ModulesInherit
<1>1. PICK q : q = question
  OBVIOUS
<1>2. SoundModules(q) /\ Walked(q, answer.todo, answer.entries)
  BY <1>1, ModulesSound DEF ModulesInv
<1>3. \A p : IsModulePath(p) <=> PathOf(q, p)
  BY <1>1 DEF IsModulePath, PathOf, ActiveProfiles, ActiveOf
<1>4. \A p : ControllersAt(p) = ControllersOn(q, p)
  BY <1>1 DEF ControllersAt, ControllersOn
<1>5. ActiveProfiles = ActiveOf(q)
  BY <1>1 DEF ActiveProfiles, ActiveOf
<1>6. PICK entries : entries = answer.entries
  OBVIOUS
<1>7. \A i \in DOMAIN entries : /\ Placed(q, entries[i]) /\ entries[i].of = "controller"
                                /\ ProfileActive(entries[i].target.profiles, ActiveOf(q))
  BY <1>2, <1>6 DEF Walked
<1>8. \A i, j \in DOMAIN entries :
        entries[i].via = entries[j].via /\ entries[i].nth = entries[j].nth => i = j
  BY <1>2, <1>6 DEF Walked
<1>9. ASSUME NEW i \in DOMAIN entries, NEW e, e = entries[i]
      PROVE  /\ IsModulePath(e.via) /\ e.nth \in DOMAIN ControllersAt(e.via)
             /\ e.target = ControllersAt(e.via)[e.nth]
             /\ ProfileActive(e.target.profiles, ActiveProfiles)
             /\ InheritsAll(e)
  <2>1. Placed(q, e) /\ e.of = "controller" /\ ProfileActive(e.target.profiles, ActiveOf(q))
    BY <1>7, <1>9
  <2>2. /\ e.via \in Seq(DOMAIN q.modules) /\ PathOf(q, e.via) /\ Carries(q, e.via, e.inherited)
        /\ e.nth \in DOMAIN ControllersOn(q, e.via) /\ e.target = ControllersOn(q, e.via)[e.nth]
    BY <2>1 DEF Placed
  <2>3. e.target \in Controllers
    <3>1. PICK via : via = e.via
      OBVIOUS
    <3>2. PICK cs : cs = ControllersOn(q, via)
      OBVIOUS
    <3>3. cs \in Seq(Controllers)
      BY <1>2, <2>2, <3>1, <3>2, KnownAt
    <3>4. e.nth \in DOMAIN cs /\ e.target = cs[e.nth]
      BY <2>2, <3>1, <3>2
    <3> QED BY <3>3, <3>4, ElementOf
  <2>4. Strung(e.inherited.prefix, [n \in DOMAIN e.via |-> question.modules[e.via[n]].prefix])
    BY <1>1, <2>2 DEF Carries, Joined, PrefixesOn
  <2>5. \A k \in HookKinds :
          Strung(e.inherited.hooks[k], [n \in DOMAIN e.via |-> question.modules[e.via[n]].hooks[k]])
    BY <1>1, <2>2 DEF Carries, Joined, HooksOn
  <2>6. ASSUME NEW r \in DOMAIN e.target.routes
        PROVE  LET c == e.target
                   route == c.routes[r]
                   mounted == Mount(e)[r] IN
               /\ mounted.pattern = e.inherited.prefix \o c.base \o route.path
               /\ \A k \in HookKinds \ {"catchError"} :
                    Strung(mounted.hooks[k], <<e.inherited.hooks[k], c.hooks[k], c.macros[k],
                                               route.hooks[k], route.macros[k]>>)
               /\ LET k == "catchError" IN
                  Strung(mounted.hooks[k], <<route.hooks[k], route.macros[k], c.hooks[k], c.macros[k],
                                             e.inherited.hooks[k]>>)
    BY <2>2, <2>3, MountedInherits, Zenon
  <2>7. InheritsAll(e)
    BY <2>4, <2>5, <2>6, Zenon DEF InheritsAll
  <2> QED BY <1>3, <1>4, <1>5, <2>1, <2>2, <2>7
<1>10. ASSUME answer.todo = <<>>, NEW p \in ModulePaths, NEW c \in DOMAIN ControllersAt(p),
              ProfileActive(ControllersAt(p)[c].profiles, ActiveProfiles)
       PROVE  \E i \in DOMAIN entries : entries[i].via = p /\ entries[i].nth = c
  <2>1. PathOf(q, p) /\ p \in Seq(DOMAIN q.modules)
    <3>1. IsModulePath(p)
      BY <1>10, Zenon DEF ModulePaths
    <3>2. \E n \in 0..Cardinality(DOMAIN question.modules) : p \in [1..n -> DOMAIN question.modules]
      BY <1>10 DEF ModulePaths
    <3>3. p \in Seq(DOMAIN question.modules)
      BY <3>2
    <3> QED BY <1>1, <1>3, <3>1, <3>3
  <2>2. c \in DOMAIN ControllersOn(q, p) /\ ProfileActive(ControllersOn(q, p)[c].profiles, ActiveOf(q))
    BY <1>4, <1>5, <1>10
  <2>3. ~ \E x \in DOMAIN answer.todo : Covers(answer.todo[x], p, c)
    BY <1>10
  <2> QED BY <1>2, <1>6, <2>1, <2>2, <2>3 DEF Walked
<1> QED BY <1>6, <1>8, <1>9, <1>10 DEF ModulesInherit

-----------------------------------------------------------------------------
(* The theorems about what is computed *)

(* All of it holds when a question is asked. *)
LEMMA AnswerStart == ASSUME Put, Ask PROVE AnswerInv
<1>1. StaticInv /\ BagInv /\ Base32Inv
  BY StaticStart, BagStart, Base32Start
<1>2. HitsInv /\ MailsInv /\ RecordsInv /\ UploadInv /\ SettingsInv /\ MetricsInv
  BY HitsStart, MailsStart, RecordsStart, UploadStart, SettingsStart, MetricsStart
<1>3. PluginsInv /\ CookiesInv
  BY PluginsStart, CookiesStart
<1>4. MacrosInv /\ DecorationsInv /\ RoutesInv /\ ModulesInv
  BY MacrosStart, DecorationsStart, RoutesStart, ModulesStart
<1> QED BY <1>1, <1>2, <1>3, <1>4 DEF AnswerInv

(* Each step keeps all of it. *)
LEMMA AnswerStep == ASSUME Put, AnswerInv, Compute PROVE AnswerInv'
<1>1. (StaticInv /\ BagInv /\ Base32Inv)'
  BY StaticStep, BagStep, Base32Step DEF AnswerInv
<1>2. (HitsInv /\ MailsInv /\ RecordsInv /\ UploadInv /\ SettingsInv /\ MetricsInv)'
  BY HitsStep, MailsStep, RecordsStep, UploadStep, SettingsStep, MetricsStep DEF AnswerInv
<1>3. (PluginsInv /\ CookiesInv)'
  BY PluginsStep, CookiesStep DEF AnswerInv
<1>4. (MacrosInv /\ DecorationsInv /\ RoutesInv /\ ModulesInv)'
  BY MacrosStep, DecorationsStep, RoutesStep, ModulesStep DEF AnswerInv
<1> QED BY <1>1, <1>2, <1>3, <1>4 DEF AnswerInv

(* It is about the state only. *)
LEMMA AnswerStays == ASSUME AnswerInv, UNCHANGED computation PROVE AnswerInv'
<1>1. question' = question /\ done' = done /\ answer' = answer
  BY DEF computation
<1>2. (StaticInv /\ BagInv /\ Base32Inv)'
  <2>1. StaticInv'
    BY <1>1 DEF AnswerInv, StaticInv, Static
  <2>2. BagInv'
    BY <1>1 DEF AnswerInv, BagInv, Of, Marks, Taken, Call
  <2>3. Base32Inv'
    BY <1>1 DEF AnswerInv, Base32Inv, Of
  <2> QED BY <2>1, <2>2, <2>3
<1>3. (HitsInv /\ MailsInv /\ RecordsInv /\ UploadInv /\ SettingsInv /\ MetricsInv)'
  <2>1. HitsInv' /\ UploadInv' /\ SettingsInv' /\ MetricsInv'
    BY <1>1 DEF AnswerInv, HitsInv, UploadInv, SettingsInv, MetricsInv, Of
  <2>2. MailsInv'
    BY <1>1 DEF AnswerInv, MailsInv, Of
  <2>3. RecordsInv'
    BY <1>1 DEF AnswerInv, RecordsInv, Of
  <2> QED BY <2>1, <2>2, <2>3
<1>4. (PluginsInv /\ CookiesInv)'
  BY <1>1 DEF AnswerInv, PluginsInv, CookiesInv, Of
<1>5. (MacrosInv /\ DecorationsInv /\ RoutesInv /\ ModulesInv)'
  BY <1>1 DEF AnswerInv, MacrosInv, DecorationsInv, RoutesInv, ModulesInv, Of
<1> QED BY <1>2, <1>3, <1>4, <1>5 DEF AnswerInv

(* The invariant that the theorems about what is computed rest on. *)
THEOREM AnswersInductive == Computing => [](Put /\ AnswerInv)
<1>1. Put /\ Ask => AnswerInv
  BY AnswerStart
<1>2. Put /\ AnswerInv /\ [Compute]_computation => AnswerInv'
  <2> SUFFICES ASSUME Put, AnswerInv, [Compute]_computation PROVE AnswerInv'
    OBVIOUS
  <2> QED BY AnswerStep, AnswerStays
<1> QED BY <1>1, <1>2, PutAlways, PTL DEF Computing

(* The hooks of classes, modules, macros and routes that the decorators and *)
(* createApp put together reach the routes they are for, each controller is *)
(* mounted once per way to it, and a request is routed to the right handler *)
(* (addRoute, matchDynamic, walkModule, mount), for every application.      *)
THEOREM RequestsAreRouted == Computing => []RoutesAgree
<1>1. Put /\ AnswerInv => RoutesAgree
  <2> SUFFICES ASSUME Put, AnswerInv PROVE RoutesAgree
    OBVIOUS
  <2>1. RoutesInv /\ DecorationsInv /\ MacrosInv /\ ModulesInv
    BY DEF AnswerInv
  <2>2. RoutingAgrees /\ GuardsInherited
    BY <2>1, RoutesEnd, DecorationsEnd
  <2>3. MacrosExpand /\ ModulesInherit
    BY <2>1, MacrosEnd, ModulesEnd
  <2> QED BY <2>2, <2>3 DEF RoutesAgree
<1> QED BY <1>1, AnswersInductive, PTL

(* In every order of the plugins the handler runs only for a request that    *)
(* body limit, rate limit, CSRF and authentication with its guard let pass;  *)
(* an answer is what its headers say, and request id, limit and CSRF cookie  *)
(* are lost in no way but by a 304 of an etag outside them; cookies come     *)
(* back as they were set, errors tell nothing, and readiness is that of      *)
(* every check (app.ts, and the plugins it mounts).                          *)
THEOREM PluginsAreSound == Computing => []PluginsKeepPromises
<1>1. Put /\ AnswerInv => PluginsKeepPromises
  <2> SUFFICES ASSUME Put, AnswerInv PROVE PluginsKeepPromises
    OBVIOUS
  <2>1. PluginsInv /\ CookiesInv /\ StaticInv
    BY DEF AnswerInv
  <2>2. Of("plugins") =>
          /\ HandlerIsProtected /\ BodyIsWhatItSays /\ OriginsAreHonest
          /\ answer.phase = "answered" =>
               /\ HeadersReach
               /\ SecurityHeaders(question.app.off) \subseteq answer.response.headers
    BY <2>1, PluginsEnd
  <2>3. CookiesRoundTrip /\ ErrorsStayOpaque /\ ReadyIsHonest
    BY <2>1, CookiesEnd, ErrorEnd, ProbeEnd
  <2> QED BY <2>2, <2>3 DEF PluginsKeepPromises
<1> QED BY <1>1, AnswersInductive, PTL

(* Settings bind as they are named, every mail and log record that is due is *)
(* written, the rate and upload limits hold exactly, histogram buckets are   *)
(* cumulative, and pages cover every item once.                              *)
THEOREM LimitsAlwaysHold == Computing => []LimitsHold
<1>1. Put /\ AnswerInv => LimitsHold
  <2> SUFFICES ASSUME Put, AnswerInv PROVE LimitsHold
    OBVIOUS
  <2>1. /\ StaticInv /\ HitsInv /\ MailsInv /\ RecordsInv /\ UploadInv /\ SettingsInv
        /\ MetricsInv
    BY DEF AnswerInv
  <2>2. SettingsBind /\ MailsSent /\ RecordsWritten
    BY <2>1, SettingsEnd, MailsEnd, RecordsEnd
  <2>3. RateIsFair /\ UploadsKeepLimits /\ BucketsAreCumulative /\ PagesPartition
    BY <2>1, HitsEnd, UploadEnd, MetricsEnd, PagesEnd
  <2> QED BY <2>2, <2>3 DEF LimitsHold
<1> QED BY <1>1, AnswersInductive, PTL

(* A base32 secret is read back as it was written, a code is accepted for     *)
(* exactly the steps of its window, a password for what it was hashed of, an  *)
(* elevation lasts as long as it was given, and a code is exchanged with the  *)
(* verifier its challenge was made of.                                        *)
THEOREM SignInsAreSound == Computing => []SignInIsSound
<1>1. Put /\ AnswerInv => SignInIsSound
  <2> SUFFICES ASSUME Put, AnswerInv PROVE SignInIsSound
    OBVIOUS
  <2>1. StaticInv /\ BagInv /\ Base32Inv
    BY DEF AnswerInv
  <2>2. CodesVerify
    BY <2>1, Base32End, PasswordEnd, TotpEnd DEF CodesVerify
  <2>3. ElevationIsRecent /\ ExchangeMatches
    BY <2>1, BagEnd, OauthEnd
  <2> QED BY <2>2, <2>3 DEF SignInIsSound
<1> QED BY <1>1, AnswersInductive, PTL
=============================================================================
