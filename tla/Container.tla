------------------------------ MODULE Container ------------------------------
(***************************************************************************)
(* The dependency-injection container of src/di.ts while createApp builds  *)
(* the application with it, and afterwards while requests resolve beans.   *)
(*                                                                         *)
(* A resolution is synchronous but re-entrant: a constructor, a            *)
(* @postConstruct hook, a post-processor or a factory may resolve further  *)
(* tokens, so the JavaScript call stack is a variable, and which token the *)
(* running code asks for next, and whether it throws, is left open.  Only  *)
(* what runs between two resolutions (a hook's promise, init(), requests)  *)
(* needs the stack to be empty.                                            *)
(***************************************************************************)
EXTENDS Naturals, Sequences, FiniteSets

CONSTANTS
  Classes,    \* the classes the container may construct
  Bindings,   \* <<class, scope>>: what a token resolves to
  Factories,  \* providers with useFactory, in singleton scope
  Requests,   \* the requests served once the application is ready
  MaxBuilds   \* bound: constructions begun, for TLC

Scopes == {"singleton", "transient", "request"}

ASSUME ConstantsAssumption ==
  /\ Bindings \subseteq Classes \X Scopes
  /\ Classes \cap Factories = {}
  /\ "none" \notin Requests
  /\ MaxBuilds \in Nat

(* Where one instance per class is kept: the container or a request. *)
Holders == Requests \cup {"none"}

(* A construction in progress.  "held" is one for a request's scopeCache. *)
Frame == [of       : Classes \cup Factories,
          as       : {"singleton", "transient", "held", "factory"},
          phase    : {"new", "hooks", "process"},
          previous : BOOLEAN]

VARIABLES
  cached,       \* classSingletons: nothing, the raw instance, the finished one
  factories,    \* factorySingletons: the factories whose value is kept
  resolving,    \* the classes under construction
  active,       \* this container is the one inject() reads
  stack,        \* the calls of construct() and fromProvider() in progress
  request,      \* the request whose AsyncLocalStorage state the code runs in
  held,         \* the scopeCache of each request
  made,         \* history: instances made, for each holder and class
  disposables,  \* singletons to dispose of, in the order they were tracked
  uses,         \* history: <<c, d>>, c was given the finished singleton d
  builds,       \* constructions begun
  hook,         \* the promise of each singleton's async @postConstruct
  initPromises, \* hooks init() has not taken yet
  awaited,      \* hooks the current Promise.all of init() waits for
  atBoot,       \* history: hooks begun before the application was ready
  boot          \* createApp: mounting, in init(), settled

table == <<cached, factories, held, made>>
loading == <<hook, initPromises, awaited, atBoot, boot>>
context == <<resolving, active, stack, request>>
vars == <<table, loading, context, disposables, uses, builds>>

Top == stack[Len(stack)]
Below == stack[Len(stack) - 1]
Running == stack # <<>>

Init ==
  /\ cached = [c \in Classes |-> "none"]
  /\ factories = {}
  /\ resolving = {}
  /\ active = FALSE
  /\ stack = <<>>
  /\ request = "none"
  /\ held = [r \in Requests |-> {}]
  /\ made = [h \in Holders |-> [c \in Classes |-> 0]]
  /\ disposables = <<>>
  /\ uses = {}
  /\ builds = 0
  /\ hook = [c \in Classes |-> "none"]
  /\ initPromises = {}
  /\ awaited = {}
  /\ atBoot = {}
  /\ boot = "mounting"

(* Who may ask the container for something: createApp while it mounts, a   *)
(* hook that goes on after its await, a request or a timer afterwards, or  *)
(* the code of the construction in progress, which inject() serves as long *)
(* as a container is active.                                               *)
Asks(r) ==
  \/ Running /\ active /\ r = request
  \/ /\ ~ Running
     /\ \/ boot = "mounting" /\ r = "none"
        \/ \E h \in Classes : hook[h] = "running" /\ boot = "init" /\ r = "none"
        \/ boot = "ready" /\ r \in Holders

(* construct() and fromProvider(): the finally will put `previous` back. *)
Push(of, as, r) ==
  /\ builds < MaxBuilds
  /\ builds' = builds + 1
  /\ stack' = Append(stack, [of |-> of, as |-> as, phase |-> "new",
                             previous |-> active])
  /\ active' = TRUE
  /\ request' = r
  /\ UNCHANGED <<table, loading, disposables, uses>>

(* Mutant of Pop: `active = null` in the finally. *)
PopClearsContext ==
  /\ stack' = SubSeq(stack, 1, Len(stack) - 1)
  /\ active' = FALSE
  /\ request' = IF Len(stack) = 1 THEN "none" ELSE request
(* The finally of construct() and fromProvider(). *)
Pop ==
  /\ stack' = SubSeq(stack, 1, Len(stack) - 1)
  /\ active' = Top.previous
  /\ request' = IF Len(stack) = 1 THEN "none" ELSE request

(* Mutant of the next definition: no check for a cycle. *)
MayConstructAny(c) == c \in Classes
(* A class that is being constructed is a circular dependency: an error,   *)
(* which the code that asked may catch or pass on (Throw).                 *)
MayConstruct(c) == c \notin resolving

Construct(c, as, r) ==
  /\ MayConstruct(c)
  /\ resolving' = resolving \cup {c}
  /\ Push(c, as, r)

(* The finished singleton d reaches the constructor or hook of frame f. *)
Given(f, d) ==
  IF f.as = "singleton" /\ f.phase \in {"new", "hooks"} THEN {<<f.of, d>>} ELSE {}

(* resolve() and resolveAll() of a token bound to a class.  A request-scoped *)
(* one is a proxy and constructs nothing yet (Touch).                        *)
Resolve(b, r) ==
  /\ Asks(r)
  /\ \/ /\ b[2] = "singleton" /\ cached[b[1]] # "none"
        /\ Running
        /\ uses' = uses \cup (IF cached[b[1]] = "done" THEN Given(Top, b[1]) ELSE {})
        /\ UNCHANGED <<table, loading, context, disposables, builds>>
     \/ /\ b[2] = "singleton" /\ cached[b[1]] = "none"
        /\ Construct(b[1], "singleton", r)
     \/ /\ b[2] = "transient"
        /\ Construct(b[1], "transient", r)

(* Any use of a request-scoped proxy: currentRequestInstance. *)
Touch(b, r) ==
  /\ Asks(r)
  /\ b[2] = "request"
  /\ \/ r = "none" /\ Construct(b[1], "transient", r)
     \/ r # "none" /\ b[1] \notin held[r] /\ Construct(b[1], "held", r)

(* A useFactory provider whose value is not kept yet; no cycle check. *)
CallFactory(f, r) ==
  /\ Asks(r)
  /\ f \notin factories
  /\ Push(f, "factory", r)
  /\ UNCHANGED resolving

(* `new token()` returned: the raw instance is cached before its lifecycle *)
(* runs, so that re-entrant resolutions find it.                           *)
Constructed ==
  /\ Running /\ Top.as # "factory" /\ Top.phase = "new"
  /\ stack' = [stack EXCEPT ![Len(stack)].phase = "hooks"]
  /\ IF Top.as = "singleton"
     THEN /\ cached' = [cached EXCEPT ![Top.of] = "raw"]
          /\ made' = [made EXCEPT !["none"][Top.of] = @ + 1]
     ELSE UNCHANGED <<cached, made>>
  /\ UNCHANGED <<factories, held, loading, resolving, active, request,
                 disposables, uses, builds>>

(* A @postConstruct hook of a singleton returns a promise. *)
AsyncHook ==
  /\ Running /\ Top.as = "singleton" /\ Top.phase = "hooks"
  /\ hook[Top.of] = "none"
  /\ hook' = [hook EXCEPT ![Top.of] = "running"]
  /\ initPromises' = initPromises \cup {Top.of}
  /\ atBoot' = IF boot = "ready" THEN atBoot ELSE atBoot \cup {Top.of}
  /\ UNCHANGED <<table, context, awaited, boot, disposables, uses, builds>>

(* Mutant of EndHooks: tracked at the front of the list. *)
EndHooksUnshift ==
  /\ Running /\ Top.phase = "hooks"
  /\ stack' = [stack EXCEPT ![Len(stack)].phase = "process"]
  /\ disposables' = IF Top.as = "singleton" THEN <<Top.of>> \o disposables
                    ELSE disposables
  /\ UNCHANGED <<table, loading, resolving, active, request, uses, builds>>
(* The hooks have run: @preDestroy methods of a singleton are tracked. *)
EndHooks ==
  /\ Running /\ Top.phase = "hooks"
  /\ stack' = [stack EXCEPT ![Len(stack)].phase = "process"]
  /\ disposables' = IF Top.as = "singleton" THEN Append(disposables, Top.of)
                    ELSE disposables
  /\ UNCHANGED <<table, loading, resolving, active, request, uses, builds>>

(* The post-processors have run: their result replaces the raw instance in *)
(* the cache (or is kept in the request) and is handed to the caller.      *)
Finish ==
  /\ Running /\ Top.phase = "process"
  /\ Pop
  /\ resolving' = resolving \ {Top.of}
  /\ cached' = IF Top.as = "singleton" THEN [cached EXCEPT ![Top.of] = "done"]
               ELSE cached
  /\ uses' = IF Top.as = "singleton" /\ Len(stack) > 1
             THEN uses \cup Given(Below, Top.of) ELSE uses
  /\ IF Top.as = "held"
     THEN /\ held' = [held EXCEPT ![request] = @ \cup {Top.of}]
          /\ made' = [made EXCEPT ![request][Top.of] = @ + 1]
     ELSE UNCHANGED <<held, made>>
  /\ UNCHANGED <<factories, loading, disposables, builds>>

FactoryReturns ==
  /\ Running /\ Top.as = "factory"
  /\ Pop
  /\ factories' = factories \cup {Top.of}
  /\ UNCHANGED <<cached, held, made, loading, resolving, disposables, uses, builds>>

(* A constructor, hook, post-processor or factory throws: the finally puts *)
(* the context back, what was cached stays.  The code below may catch it;  *)
(* nobody does while createApp mounts.                                     *)
Throw ==
  /\ Running
  /\ Pop
  /\ resolving' = resolving \ {Top.of}
  /\ boot' = IF Len(stack) = 1 /\ boot = "mounting" THEN "failed" ELSE boot
  /\ UNCHANGED <<table, hook, initPromises, awaited, atBoot, disposables, uses, builds>>

(* An async hook ends, between two resolutions. *)
HookEnds(c, how) ==
  /\ ~ Running
  /\ hook[c] = "running"
  /\ hook' = [hook EXCEPT ![c] = how]
  /\ UNCHANGED <<table, initPromises, awaited, atBoot, boot, context,
                 disposables, uses, builds>>

(* createApp has mounted everything and calls init(). *)
StartInit ==
  /\ boot = "mounting" /\ ~ Running
  /\ boot' = "init"
  /\ UNCHANGED <<table, hook, initPromises, awaited, atBoot, context,
                 disposables, uses, builds>>

(* Mutant of InitRound: one Promise.all, no loop. *)
InitOnce ==
  /\ boot = "init" /\ ~ Running
  /\ \A c \in awaited : hook[c] = "settled"
  /\ IF initPromises # {} /\ awaited = {}
     THEN awaited' = initPromises /\ initPromises' = {} /\ boot' = boot
     ELSE boot' = "ready" /\ UNCHANGED <<awaited, initPromises>>
  /\ UNCHANGED <<table, hook, atBoot, context, disposables, uses, builds>>
(* init() loops: hooks that begin while it waits make one more round. *)
InitRound ==
  /\ boot = "init" /\ ~ Running
  /\ \A c \in awaited : hook[c] = "settled"
  /\ IF initPromises # {}
     THEN awaited' = initPromises /\ initPromises' = {} /\ boot' = boot
     ELSE boot' = "ready" /\ UNCHANGED <<awaited, initPromises>>
  /\ UNCHANGED <<table, hook, atBoot, context, disposables, uses, builds>>

(* Mutant of InitFails: init() keeps waiting for the other hooks. *)
InitFailsLast ==
  /\ boot = "init" /\ ~ Running
  /\ awaited # {} /\ \A c \in awaited : hook[c] = "rejected"
  /\ boot' = "failed"
  /\ UNCHANGED <<table, hook, initPromises, awaited, atBoot, context,
                 disposables, uses, builds>>
(* Promise.all rejects, and so does createApp. *)
InitFails ==
  /\ boot = "init" /\ ~ Running
  /\ \E c \in awaited : hook[c] = "rejected"
  /\ boot' = "failed"
  /\ UNCHANGED <<table, hook, initPromises, awaited, atBoot, context,
                 disposables, uses, builds>>

Ask ==
  \E r \in Holders :
    \/ \E b \in Bindings : Resolve(b, r) \/ Touch(b, r)
    \/ \E f \in Factories : CallFactory(f, r)

(* One step of the construction in progress that is sure to end it. *)
Return == Constructed \/ EndHooks \/ Finish \/ FactoryReturns \/ Throw

HookStep == \E c \in Classes : HookEnds(c, "settled") \/ HookEnds(c, "rejected")

InitStep == StartInit \/ InitRound \/ InitFails

Next == Ask \/ Return \/ AsyncHook \/ HookStep \/ InitStep

Spec == Init /\ [][Next]_vars

(* JavaScript runs a call to its end; the promises of hooks settle (an     *)
(* assumption: init() has no timeout); the event loop resumes init().      *)
FairSpec == Spec /\ WF_vars(Return) /\ WF_vars(HookStep) /\ WF_vars(InitStep)

-----------------------------------------------------------------------------
IsClassFrame(i) == stack[i].as # "factory"

TypeOK ==
  /\ cached \in [Classes -> {"none", "raw", "done"}]
  /\ factories \subseteq Factories
  /\ resolving \subseteq Classes
  /\ active \in BOOLEAN
  /\ stack \in Seq(Frame)
  /\ request \in Holders
  /\ held \in [Requests -> SUBSET Classes]
  /\ made \in [Holders -> [Classes -> Nat]]
  /\ disposables \in Seq(Classes)
  /\ uses \subseteq Classes \X Classes
  /\ builds \in Nat
  /\ hook \in [Classes -> {"none", "running", "settled", "rejected"}]
  /\ initPromises \subseteq Classes
  /\ awaited \subseteq Classes
  /\ atBoot \subseteq Classes
  /\ boot \in {"mounting", "init", "ready", "failed"}

(* However constructors, hooks, post-processors and factories call back    *)
(* into the container, and whichever of them throw, there is never a       *)
(* second instance of a singleton, nor of a request-scoped class within    *)
(* one request.                                                            *)
OneInstance == \A h \in Holders, c \in Classes : made[h][c] <= 1

(* The module-level `active` container and the set `resolving` describe    *)
(* the calls in progress and nothing else: after any unwinding, inject()   *)
(* outside a construction is an error again and no class is left behind    *)
(* as "being constructed", which would make it unresolvable for good.      *)
ContextMatchesStack ==
  /\ active = Running
  /\ resolving = {stack[i].of : i \in {j \in 1..Len(stack) : IsClassFrame(j)}}
  /\ \A i, j \in 1..Len(stack) :
       IsClassFrame(i) /\ IsClassFrame(j) /\ stack[i].of = stack[j].of => i = j

(* A singleton that was handed the finished singleton d while it was built *)
(* is tracked after d, so dispose(), which goes backwards, destroys it     *)
(* while d still works.                                                    *)
DependenciesFirst ==
  \A i \in 1..Len(disposables) : \A d \in Classes :
    <<disposables[i], d>> \in uses =>
      \E j \in 1..(i - 1) : disposables[j] = d

(* createApp resolves only when every async @postConstruct hook that began *)
(* before has settled, those begun by other hooks while init() waited too. *)
ReadyMeansInitialized ==
  boot = "ready" => \A c \in atBoot : hook[c] = "settled"

(* createApp settles, if every hook's promise does. *)
BootSettles == <>(boot \in {"ready", "failed"})
=============================================================================
