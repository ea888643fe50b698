---------------------------- MODULE Computations ----------------------------
(***************************************************************************)
(* What the sequential parts of the framework compute: a question is put   *)
(* (registrations and the requests to route, a chain of plugins and a      *)
(* request, an upload, the hits of a client, ...), and the machine answers *)
(* it in the steps of the code: one action per registration, per plugin    *)
(* entered or left, per part, entry, call or character, so that an         *)
(* invariant speaks of everything that was given so far.  The invariants   *)
(* compare what the code keeps with definitions that know nothing of how   *)
(* it was computed.                                                        *)
(***************************************************************************)
EXTENDS Routing, Plugins, SignIn, Inputs, Metrics, Pagination, TLC

CONSTANT Questions   \* for each kind of question, those that are put

VARIABLES
  question,   \* the question: its kind and its data, `calls` if it has a list
  done,       \* how many of its calls were taken
  answer      \* what the code keeps
computation == <<question, done, answer>>

-----------------------------------------------------------------------------
(* The questions that make sense. *)

Segment == STRING \ {""}
HookLists == [HookKinds -> Seq(STRING)]
Controllers ==
  [profiles : SUBSET STRING, base : Seq(Segment), hooks : HookLists, macros : HookLists,
   routes : Seq([path : Seq(Segment), method : STRING, hooks : HookLists, macros : HookLists])]
Modules(names) ==
  [prefix : Seq(Segment), hooks : HookLists, nested : Seq(names), profiles : SUBSET STRING,
   controllers : Seq(Controllers)]

(* A class has one parent, and is decorated after it. *)
Lineages(calls) ==
  \A i, j \in DOMAIN calls : \A n \in DOMAIN calls[j].ancestry :
    calls[j].ancestry[n] = calls[i].ancestry[1] =>
      /\ calls[i].ancestry = SubSeq(calls[j].ancestry, n, Len(calls[j].ancestry))
      /\ n > 1 => i < j

(* What a tag may be of. *)
Bodies == [of : {"none", "page"}, gzip : BOOLEAN]
OriginOptions ==
  [form : {"off", "reflect"}] \cup [form : {"text"}, is : STRING]
  \cup [form : {"list"}, are : SUBSET STRING]
PluginRequests ==
  [method : STRING, preflight : BOOLEAN, length : Nat \cup {None}, cookie : STRING,
   sent : STRING, accepts : SUBSET STRING, ifNoneMatch : Bodies \cup {None},
   credentials : SUBSET [scheme : STRING, valid : BOOLEAN, roles : SUBSET STRING],
   origin : STRING, overLimit : BOOLEAN]

IsList(s) == s \in Seq(ToSet(s))

(* A metric is created before it is used, and used as what it is. *)
MetricCall(c, kind) ==
  \/ c.do = "create" /\ IsList(c.labelNames) /\ IsList(c.buckets)
  \/ /\ c.do \in CASE kind = "histogram" -> {"observe"} [] kind = "counter" -> {"inc"}
                    [] kind = "gauge" -> {"set", "inc", "dec"}
     /\ c.value \in IF kind = "gauge" THEN Nat ELSE Int

Increasing(times) == \A i, j \in DOMAIN times : i < j => times[i] <= times[j]

Sensible(q) ==
  CASE q.kind = "routes" ->
         /\ q.calls \in Seq([do : {"route"}, pattern : Seq(STRING), method : STRING, handler : Nat]
                            \cup [do : {"delegate"}, prefix : Seq(STRING), handler : STRING])
         /\ q.paths \subseteq Seq(STRING)
    [] q.kind = "decorations" ->
         /\ q.calls \in Seq([ancestry : Seq(STRING \ {"none"}) \ {<<>>}, hooks : Seq(Nat)])
         /\ Lineages(q.calls)
    [] q.kind = "macros" ->
         q.calls \in Seq(STRING) /\ \A n \in DOMAIN q.registry : q.registry[n] \in HookLists
    [] q.kind = "modules" ->
         /\ \A m \in DOMAIN q.modules : /\ q.modules[m] \in Modules(DOMAIN q.modules)
                                        /\ IsInjective(q.modules[m].nested)
         /\ q.roots \in Seq(DOMAIN q.modules) /\ IsInjective(q.roots)
         /\ {q.controllers, q.discovered} \subseteq Seq(Controllers)
    [] q.kind = "plugins" ->
         /\ {q.app.plugins, q.app.schemes} \subseteq Seq(STRING)
         /\ q.app.guard \in {"open", "authenticated", "role"}
         /\ q.app.origins \in OriginOptions /\ q.req \in PluginRequests
    [] q.kind = "cookies" ->
         \* "%25" and "%253B" stand for what "%" and "%3B" are escaped to.
         q.calls \in Seq([do : {"set"}, name : STRING, value : STRING \ {"%25", "%253B"}]
                         \cup [do : {"delete"}, name : STRING])
    [] q.kind = "settings" ->
         IsList(q.calls) /\ \A i \in DOMAIN q.calls : LET key == q.calls[i].key IN
           /\ Len(key.words) > 0 /\ key.words \in Seq(STRING)
           /\ key.underscores \in [DOMAIN key.words -> Nat]
           /\ \A n \in 2..Len(key.words) : key.underscores[n] > 0 \/ key.words[n] \in Numerals
    [] q.kind = "mails" -> IsList(q.calls)
    [] q.kind = "records" -> q.calls \in Seq(DOMAIN Levels)
    [] q.kind = "hits" -> /\ q.calls \in Seq(Nat) /\ Increasing(q.calls)
                          /\ q.windowMs \in Nat \ {0} /\ q.limit \in Nat
    [] q.kind = "upload" ->
         /\ q.calls \in Seq([kind : {"field"}] \cup [kind : {"file"}, name : STRING, size : Nat,
                                                type : Seq(STRING)])
         /\ {q.options.maxFiles, q.options.maxTotalSize, q.options.maxFileSize} \subseteq Nat \cup {None}
    [] q.kind = "metrics" ->
         /\ IsList(q.calls) /\ q.calls # <<>> /\ q.calls[1].do = "create"
         /\ q.calls[1].kind \in {"histogram", "counter", "gauge"}
         /\ \A i \in DOMAIN q.calls : MetricCall(q.calls[i], q.calls[1].kind)
    [] q.kind = "pages" ->
         /\ {q.page, q.limit} \subseteq Int \cup {None} /\ q.maxLimit \in Nat \ {0} /\ q.total \in Nat
    [] q.kind = "base32" -> q.calls \in Seq(0..255)
    [] q.kind = "totp" ->
         {q.made, q.used, q.window} \subseteq Nat /\ q.period \in Nat \ {0}
    [] q.kind = "bag" ->
         /\ q.calls \in Seq([do : {"elevate", "clear", "impersonate", "stop"}, at : Nat])
         /\ {q.now, q.within} \subseteq Nat
    [] q.kind = "error" -> q.err.kind \in {"response", "http", "other"}
    [] q.kind = "password" -> None # HashOf(q.then, q.password)
    [] q.kind = "oauth" -> "none" \notin {q.options.verifier, q.grant.verifier}
    [] OTHER -> q.kind = "probe"

ASSUME NoneAssumption == None \notin Int /\ None \notin Bodies
ASSUME QuestionsAssumption ==
  \A k \in DOMAIN Questions : \A q \in Questions[k] : q.kind = k /\ Sensible(q)

-----------------------------------------------------------------------------
(* Questions that one step answers *)

Answer(q) ==
  CASE q.kind = "error" -> Rendered(q.err, q.problems)
    [] q.kind = "probe" -> Ready(q.checks)
    [] q.kind = "pages" -> [page |-> PageNumber(q.page), limit |-> PageLimit(q.limit, 2, q.maxLimit),
                            pages |-> TotalPages(q.total, PageLimit(q.limit, 2, q.maxLimit))]
    [] q.kind = "totp" -> Verify(q.key, Code(q.key, q.made, q.period), q.used, q.period, q.window)
    [] q.kind = "password" -> [ok |-> VerifyPassword(q.typed, HashOf(q.then, q.password)),
                               rehash |-> NeedsRehash(q.now, HashOf(q.then, q.password))]
    [] q.kind = "oauth" -> [url |-> AuthorizationUrl(q.options),
                            token |-> TokenAnswer(q.granted, q.json),
                            request |-> TokenRequest(q.config, q.grant)]

AnswerAtOnce ==
  /\ question.kind \in {"error", "probe", "pages", "totp", "password", "oauth"}
  /\ done = 0 /\ done' = 1
  /\ answer' = Answer(question)
  /\ UNCHANGED question

-----------------------------------------------------------------------------
(* Questions with a list of calls, each taken by one step *)

Upcoming == question.calls[done + 1]
Takes(kind) ==
  /\ question.kind = kind /\ done < Len(question.calls)
  /\ done' = done + 1
  /\ UNCHANGED question

RegisterRoute ==
  /\ Takes("routes") /\ Upcoming.do = "route"
  /\ answer' = [answer EXCEPT !.table = AddRoute(@, Upcoming)]
RegisterDelegate ==
  /\ Takes("routes") /\ Upcoming.do = "delegate"
  /\ answer' = [answer EXCEPT !.delegates = AddDelegate(@, Upcoming)]

DecorateClass == Takes("decorations") /\ answer' = Decorate(answer, Upcoming)

ApplyMacro == Takes("macros") /\ answer' = ExpandMacro(answer, question.registry, Upcoming)

CallCookies == Takes("cookies") /\ answer' = Serialize(answer, Upcoming)

CollectEntry == Takes("settings") /\ answer' = Collect(answer, Upcoming, question.prefix)

Send == Takes("mails") /\ answer' = SendMail(answer, Upcoming, question.from).sent

Write ==
  Takes("records") /\ answer' = WriteLog(answer, Upcoming, EnvLevel(question.min), question.id)

(* `admitted` is history: the hits that were. *)
HitLimiter ==
  LET w == Hit(answer.window, Upcoming, question.windowMs) IN
  /\ Takes("hits")
  /\ answer' = [window |-> w,
                admitted |-> answer.admitted \cup IF Admits(w, question.limit) THEN {done + 1} ELSE {}]

ReadPart == Takes("upload") /\ answer' = ParsePart(answer, Upcoming, question.options)

CreateMetric ==
  /\ Takes("metrics") /\ Upcoming.do = "create"
  /\ answer' = Register(answer, "m", NewMetric(Upcoming.kind, Upcoming.labelNames, Upcoming.buckets))
UseMetric ==
  /\ Takes("metrics") /\ Upcoming.do # "create"
  /\ answer' = [answer EXCEPT !["m"] = Apply(@, Upcoming)]

OperateOnBag == Takes("bag") /\ answer' = AfterOperation(answer, Upcoming)

(* The characters base32Encode writes are read by base32Decode at once. *)
EncodeByte ==
  /\ Takes("base32") /\ answer.enc.bits < 5
  /\ answer' = [answer EXCEPT !.enc = TakeByte(@, Upcoming)]
PassChar ==
  /\ question.kind = "base32" /\ answer.enc.bits >= 5
  /\ answer' = [enc |-> [answer.enc EXCEPT !.bits = @ - 5],
                dec |-> TakeChar(answer.dec, CharOf(answer.enc))]
  /\ UNCHANGED <<question, done>>
PassLastChar ==
  /\ question.kind = "base32" /\ done = Len(question.calls) /\ answer.enc.bits \in 1..4
  /\ answer' = [enc |-> [answer.enc EXCEPT !.bits = 0],
                dec |-> TakeChar(answer.dec, Padded(answer.enc))]
  /\ UNCHANGED <<question, done>>

-----------------------------------------------------------------------------
(* createApp's walk over the modules: answer.todo is what is left of it. *)

ActiveProfiles == EnvProfiles(question.listed, question.nodeEnv)
Walks(of) ==
  /\ question.kind = "modules" /\ answer.todo # <<>> /\ Head(answer.todo).of = of
  /\ UNCHANGED <<question, done>>

EnterModule ==
  /\ Walks("module")
  /\ answer' = [answer EXCEPT !.todo =
                  WalkModule(question.modules, Head(@), ActiveProfiles) \o Tail(@)]
CollectController ==
  LET c == Head(answer.todo) IN
  /\ Walks("controller")
  /\ answer' = [todo |-> Tail(answer.todo),
                entries |-> IF ProfileActive(c.target.profiles, ActiveProfiles)
                            THEN Append(answer.entries, c) ELSE answer.entries]

-----------------------------------------------------------------------------
(* A request through the plugins *)

Passes(phase) ==
  question.kind = "plugins" /\ answer.phase = phase /\ UNCHANGED <<question, done>>

RunRequestHooks ==
  Passes("received") /\ answer' = RequestHooks(question.app, question.req, answer)
EnterWrapper ==
  /\ Passes("entering") /\ answer.entered < Len(question.app.plugins)
  /\ answer' = EnterNext(question.app, question.req, answer)
CallRoute ==
  /\ Passes("entering") /\ answer.entered = Len(question.app.plugins)
  /\ answer' = Responded(answer, "leaving", SettleRequest(question.app, question.req, answer.st))
LeaveWrapper ==
  /\ Passes("leaving") /\ answer.entered > 0
  /\ answer' = LeaveLast(question.app, question.req, answer)
RunResponseHooks ==
  /\ Passes("leaving") /\ answer.entered = 0
  /\ answer' = Answered(question.app, question.req, answer)

-----------------------------------------------------------------------------
(* What the code starts with. *)
Begin(q) ==
  CASE q.kind = "routes" -> [table |-> <<>>, delegates |-> <<>>]
    [] q.kind = "decorations" -> NoBags
    [] q.kind = "macros" -> Unexpanded
    [] q.kind = "modules" -> [todo |-> MountEntries(q), entries |-> <<>>]
    [] q.kind = "plugins" -> Received
    [] q.kind \in {"cookies", "mails", "records", "settings", "metrics"} -> <<>>
    [] q.kind = "hits" -> [window |-> NoWindow, admitted |-> {}]
    [] q.kind = "upload" -> ParseStart
    [] q.kind = "bag" -> NewBag
    [] q.kind = "base32" -> [enc |-> Empty, dec |-> [bits |-> 0, value |-> 0, out |-> <<>>]]
    [] OTHER -> None

Ask ==
  /\ \E k \in DOMAIN Questions : question \in Questions[k]
  /\ done = 0
  /\ answer = Begin(question)

Compute ==
  \/ AnswerAtOnce
  \/ RegisterRoute \/ RegisterDelegate \/ DecorateClass \/ ApplyMacro
  \/ EnterModule \/ CollectController
  \/ RunRequestHooks \/ EnterWrapper \/ CallRoute \/ LeaveWrapper \/ RunResponseHooks
  \/ CallCookies \/ CollectEntry \/ Send \/ Write \/ HitLimiter \/ ReadPart
  \/ CreateMetric \/ UseMetric
  \/ OperateOnBag \/ EncodeByte \/ PassChar \/ PassLastChar

Computing == Ask /\ [][Compute]_computation

(* A question of a kind, and the numbers of its calls that were taken. *)
Of(kind) == question.kind = kind
Taken == 1..done
Call(i) == question.calls[i]

-----------------------------------------------------------------------------
(* Routing, decorators and modules *)

Fitting(pattern, path) ==
  /\ Len(pattern) = Len(path)
  /\ \A i \in DOMAIN path : \/ ~ IsParam(pattern[i]) /\ pattern[i] = path[i]
                            \/ IsParam(pattern[i]) /\ path[i] # Malformed

Registrations == {i \in Taken : Call(i).do = "route"}
Delegates == {i \in Taken : Call(i).do = "delegate"}

(* The registrations that may serve a path: those of its own pattern, if it *)
(* is registered literally, else of the fitting pattern registered first.   *)
Serving(path) ==
  LET fitting == {i \in Registrations : Fitting(Call(i).pattern, path)}
      literal == {i \in fitting : ~ IsDynamic(Call(i).pattern)} IN
  IF literal # {} THEN literal
  ELSE {i \in fitting : \A j \in fitting :
          (\A k \in fitting : j <= k) => Call(i).pattern = Call(j).pattern}

(* A request reaches the longest delegate over it, else the latest handler *)
(* registered for its method on the pattern that serves its path; 405      *)
(* names the methods that pattern has, 404 means that no pattern fits, and *)
(* only a path that does not decode throws.                                *)
RoutesTo(a, method, path) ==
  LET over == {i \in Delegates : IsPrefix(Call(i).prefix, path)}
      serving == Serving(path)
      able == {i \in serving : Call(i).method = method} IN
  CASE a.to = "delegate" ->
         \E i \in over : /\ a.handler = Call(i).handler
                         /\ \A j \in over : Len(Call(j).prefix) <= Len(Call(i).prefix)
                         /\ Call(i).prefix \o a.sub = path
    [] a.to = "throws" -> over = {} /\ Malformed \in ToSet(path)
    [] a.to = "404" -> over = {} /\ serving = {}
    [] a.to = "405" -> over = {} /\ serving # {} /\ able = {}
                       /\ a.allow = {Call(i).method : i \in serving}
    [] a.to = "handler" ->
         /\ over = {}
         /\ \E i \in able : a.handler = Call(i).handler /\ \A j \in able : j <= i

RoutingAgrees ==
  Of("routes") =>
    \A path \in question.paths, method \in question.methods :
      DocsHook(question.docs, path) = "pass" =>
        RoutesTo(Dispatch(answer.delegates, answer.table, method, path),
                 method, NormalizePath(path))

(* No guard is lost on the way from the class it decorates to a class that *)
(* inherits it, and those of the base class come first.                    *)
GuardsInherited ==
  Of("decorations") =>
    \A i, j \in Taken : Call(i).ancestry[1] \in ToSet(Call(j).ancestry) =>
      LET seen == ListOf(answer, Call(j).ancestry) IN
      \A g \in ToSet(Call(i).hooks) :
        /\ g \in ToSet(seen)
        /\ i < j => \A h \in ToSet(Call(j).hooks) :
                      \E a, b \in DOMAIN seen : a < b /\ seen[a] = g /\ seen[b] = h

(* The hooks of several macros on one target are all there, in the order   *)
(* of application, unless a name is unknown, which throws.                 *)
MacrosExpand ==
  Of("macros") =>
    IF \E i \in Taken : Call(i) \notin DOMAIN question.registry THEN answer.throws
    ELSE /\ ~ answer.throws
         /\ \A k \in HookKinds :
              Strung(answer.hooks[k], [i \in Taken |-> question.registry[Call(i)][k]])

(* The modules on a way from a root down, all active, none twice. *)
IsModulePath(p) ==
  LET active(m) == ProfileActive(question.modules[m].profiles, ActiveProfiles) IN
  /\ p # <<>> => p[1] \in ToSet(question.roots)
  /\ \A i \in DOMAIN p : active(p[i])
  /\ \A i, j \in DOMAIN p : p[i] = p[j] => i = j
  /\ \A i \in DOMAIN p : i > 1 => p[i] \in ToSet(question.modules[p[i - 1]].nested)
ModulePaths ==
  {p \in UNION {[1..n -> DOMAIN question.modules] : n \in 0..Cardinality(DOMAIN question.modules)} :
     IsModulePath(p)}
ControllersAt(p) ==
  IF p = <<>> THEN RootControllers(question) ELSE question.modules[Last(p)].controllers

(* A collected controller carries the prefix and the hooks of all modules  *)
(* on its way, outermost first, and mount() puts the hooks of the class    *)
(* and of the route behind them, but its error handlers before them.       *)
InheritsAll(e) ==
  /\ Strung(e.inherited.prefix, [n \in DOMAIN e.via |-> question.modules[e.via[n]].prefix])
  /\ \A k \in HookKinds :
       Strung(e.inherited.hooks[k], [n \in DOMAIN e.via |-> question.modules[e.via[n]].hooks[k]])
  /\ \A r \in DOMAIN e.target.routes :
       LET c == e.target
           route == c.routes[r]
           mounted == Mount(e)[r] IN
       /\ mounted.pattern = e.inherited.prefix \o c.base \o route.path
       /\ \A k \in HookKinds \ {"catchError"} :
            Strung(mounted.hooks[k], <<e.inherited.hooks[k], c.hooks[k], c.macros[k],
                                       route.hooks[k], route.macros[k]>>)
       /\ LET k == "catchError" IN
          Strung(mounted.hooks[k], <<route.hooks[k], route.macros[k], c.hooks[k], c.macros[k],
                                     e.inherited.hooks[k]>>)

(* Each active controller is collected exactly once per way through the    *)
(* modules that leads to it, whatever cycles and diamonds they form, and   *)
(* nothing else is.                                                        *)
ModulesInherit ==
  Of("modules") =>
    /\ \A i \in DOMAIN answer.entries :
         LET e == answer.entries[i] IN
         /\ IsModulePath(e.via) /\ e.nth \in DOMAIN ControllersAt(e.via)
         /\ e.target = ControllersAt(e.via)[e.nth]
         /\ ProfileActive(e.target.profiles, ActiveProfiles)
         /\ InheritsAll(e)
         /\ \A j \in DOMAIN answer.entries :
              answer.entries[j].via = e.via /\ answer.entries[j].nth = e.nth => i = j
    /\ answer.todo = <<>> =>
         \A p \in ModulePaths : \A c \in DOMAIN ControllersAt(p) :
           ProfileActive(ControllersAt(p)[c].profiles, ActiveProfiles) =>
             \E i \in DOMAIN answer.entries :
               answer.entries[i].via = p /\ answer.entries[i].nth = c

(* A request reaches the handler it is for, behind all of its guards. *)
RoutesAgree == RoutingAgrees /\ GuardsInherited /\ MacrosExpand /\ ModulesInherit

-----------------------------------------------------------------------------
(* Plugins *)

Has(plugin) == plugin \in ToSet(question.app.plugins)
HandlerRan == HasHeader(answer.response, "handler")

(* In every order of the plugins, no request that is too large or over the *)
(* limit is answered by the handler, or confirmed as unchanged (304); an   *)
(* unsafe one only with the token of its cookie, and a guarded handler     *)
(* answers only a principal that holds a role.                             *)
HandlerIsProtected ==
  LET app == question.app
      req == question.req IN
  /\ HandlerRan \/ answer.response.status = 304 =>
       ~ BodyTooLarge(app, req) /\ (Has("rateLimit") => ~ req.overLimit)
  /\ HandlerRan /\ Has("csrf") /\ req.method \notin SafeMethods =>
       req.cookie # "none" /\ req.cookie = req.sent
  /\ (HandlerRan \/ answer.response.status = 304) /\ app.guard # "open" =>
       /\ Has("authentication")
       /\ \E p \in req.credentials : /\ p.valid /\ p.scheme \in ToSet(app.schemes)
                                     /\ app.guard = "role" => p.roles \cap app.roles # {}

(* What a wrapper adds to the response of the handler reaches the client,  *)
(* and so does the csrf cookie; only a 304 of an etag() outside it comes   *)
(* without.                                                                *)
HeaderOf(plugin) == IF plugin = "requestId" THEN "x-request-id" ELSE "x-ratelimit"
HeadersReach ==
  LET plugins == question.app.plugins
      req == question.req
      res == answer.response IN
  /\ HandlerRan \/ res.status = 304 =>
       \A i \in DOMAIN plugins : plugins[i] \in {"requestId", "rateLimit"} =>
         \/ HasHeader(res, HeaderOf(plugins[i]))
         \/ res.status = 304 /\ \E j \in 1..i : plugins[j] = "etag"
  /\ HandlerRan /\ Has("csrf") /\ req.method \in SafeMethods /\ req.cookie = "none" =>
       HasHeader(res, "set-cookie")

(* request-id.ts: "every response carries `x-request-id`", of which this is *)
(* about the requests that were given an id.                                *)
IdIsEchoed ==
  Of("plugins") /\ answer.phase = "answered" /\ answer.st.id =>
    HasHeader(answer.response, "x-request-id")

(* rate-limit.ts: "Every response carries `X-RateLimit-Limit`", of which    *)
(* this is about the requests that it let through to the handler.           *)
LimitIsTold ==
  Of("plugins") /\ answer.phase = "answered" =>
    (Has("rateLimit") /\ (HandlerRan \/ answer.response.status = 304) =>
       HasHeader(answer.response, "x-ratelimit"))

(* A body is compressed at most once, for clients that accept it, and says *)
(* so; 304 answers only a request that would otherwise get a 200 with a    *)
(* tag.                                                                    *)
BodyIsWhatItSays ==
  LET res == answer.response IN
  /\ res.body.gzip <=> HasHeader(res, "content-encoding")
  /\ HasHeader(res, "content-encoding") => "gzip" \in question.req.accepts
  /\ res.status = 304 => answer.plain.status = 200 /\ HasHeader(answer.plain, "etag")

(* A shared cache is told of every origin an answer is made for, and no    *)
(* origin is allowed that was not configured.                              *)
OriginsAreHonest ==
  LET origins == question.app.origins IN
  \A o \in {h[2] : h \in answer.response.headers} \ {"*"} :
    <<"allow-origin", o>> \in answer.response.headers =>
      /\ answer.phase = "answered" => <<"vary", "origin">> \in answer.response.headers
      /\ CASE origins.form = "list" -> o \in origins.are
           [] origins.form = "text" -> o = origins.is
           [] OTHER -> origins.form = "reflect" /\ o = question.req.origin

(* What a browser sends back after Set-Cookie is what was set last. *)
CookiesRoundTrip ==
  Of("cookies") =>
    LET back == ParseCookies(SetToSeq(Jar(answer)))
        lasting == {i \in Taken : /\ Call(i).do = "set" /\ Call(i).name # ""
                                  /\ \A j \in Taken : Call(j).name = Call(i).name => j <= i} IN
    /\ DOMAIN back = {Call(i).name : i \in lasting}
    /\ \A i \in lasting : back[Call(i).name] = Call(i).value

(* The answer to an error that is no HttpError does not depend on its      *)
(* message; an HttpError and a thrown Response keep their status.          *)
ErrorsStayOpaque ==
  Of("error") /\ done = 1 =>
    IF question.err.kind = "other"
    THEN /\ answer.status = 500
         /\ \A other \in Questions["error"] :
              other.err.kind = "other" /\ other.problems = question.problems =>
                Answer(other) = answer
    ELSE answer.status = question.err.status

(* An instance is ready exactly when no check of it fails or throws. *)
ReadyIsHonest ==
  Of("probe") /\ done = 1 =>
    (answer = 200 <=> \A i \in DOMAIN question.checks : question.checks[i] = "up")

(* In whatever order the plugins are registered, the handler is behind all *)
(* of them, and what they add reaches the client unless an etag() outside  *)
(* them answers 304; see IdIsEchoed and LimitIsTold for that.              *)
PluginsKeepPromises ==
  /\ Of("plugins") =>
       /\ HandlerIsProtected /\ BodyIsWhatItSays /\ OriginsAreHonest
       /\ answer.phase = "answered" =>
            /\ HeadersReach
            /\ SecurityHeaders(question.app.off) \subseteq answer.response.headers
  /\ CookiesRoundTrip
  /\ ErrorsStayOpaque
  /\ ReadyIsHonest

-----------------------------------------------------------------------------
(* Inputs and limits *)

(* Every setting under the prefix reaches the bound object, the later of   *)
(* two of one name wins, and a missing required one stops the start.       *)
SettingsBind ==
  Of("settings") =>
    LET all == question.prefix = ""
        mine == {i \in Taken : all \/ Under(Call(i).key, question.prefix)}
        name(i) == LET key == Call(i).key IN
                   IF all
                   THEN [words |-> key.words,
                         capital |-> {n \in DOMAIN key.words :
                                        key.underscores[n] > 0 /\ key.words[n] \notin Numerals}]
                   ELSE [words |-> Tail(key.words),
                         capital |-> {n \in DOMAIN Tail(key.words) :
                                        /\ key.underscores[n + 1] > IF n = 1 THEN 1 ELSE 0
                                        /\ key.words[n + 1] \notin Numerals}]
        given == {name(i) : i \in mine}
        bean == BindProperties(answer, question.required, FALSE) IN
    /\ bean.throws <=> ~ (question.required \subseteq given)
    /\ ~ bean.throws =>
         /\ DOMAIN bean.bound = given
         /\ \A i \in mine : (\A j \in mine : name(j) = name(i) => j <= i) =>
              bean.bound[name(i)] = Call(i).value

(* Every mail that is complete is handed to the transport once, in order,  *)
(* and no other is.                                                        *)
MailsSent ==
  Of("mails") =>
    LET sender(m) == IF m.from = None THEN question.from ELSE m.from
        complete(m) == /\ m.to \notin {None, <<>>} /\ sender(m) \notin {None, ""}
                       /\ m.subject # "" /\ (m.text \/ m.html)
        due == {i \in Taken : complete(Call(i))} IN
    /\ Len(answer) = Cardinality(due)
    /\ \A i \in due : LET mail == answer[Rank(i, due)] IN
         mail.to = Call(i).to /\ mail.from = sender(Call(i))

(* No record at or above the minimal level is dropped, and each carries    *)
(* the id of the request it was written for.  A LOG_LEVEL that names what   *)
(* every object inherits is no level, and drops nothing.                   *)
RecordsWritten ==
  Of("records") =>
    LET min == EnvLevel(question.min)
        loud == {i \in Taken : min \in DOMAIN Levels => Levels[Call(i)] >= Levels[min]} IN
    /\ Len(answer) = Cardinality(loud)
    /\ \A i \in loud : answer[Rank(i, loud)] = [level |-> Call(i), requestId |-> question.id]

(* Of the hits of a client, at most twice the limit are admitted within any *)
(* span of a window's length, and a hit is refused only if the limit was    *)
(* admitted within the window's length before it.                           *)
RateIsFair ==
  Of("hits") =>
    LET admitted(S) == Cardinality({i \in answer.admitted : i \in S}) IN
    \A i \in Taken :
      /\ admitted({j \in Taken : Call(i) <= Call(j) /\ Call(j) < Call(i) + question.windowMs})
           <= 2 * question.limit
      /\ i \notin answer.admitted =>
           admitted({j \in 1..i : Call(i) - question.windowMs < Call(j)}) >= question.limit

(* An upload is accepted exactly when all its files together keep every    *)
(* limit and none has the name of what every object inherits, and then all *)
(* of them are there, in order.                                            *)
UploadsKeepLimits ==
  Of("upload") =>
    LET o == question.options
        files == {i \in Taken : Call(i).kind = "file"}
        keeps == /\ Defined(o.maxFiles) => Cardinality(files) <= o.maxFiles
                 /\ Defined(o.maxTotalSize) =>
                      Total([i \in files |-> Call(i).size], files) <= o.maxTotalSize
                 /\ \A i \in files :
                      /\ Defined(o.maxFileSize) => Call(i).size <= o.maxFileSize
                      /\ Defined(o.allowedTypes) => TypeAllowed(Call(i).type, o.allowedTypes)
                      /\ Call(i).name \notin ObjectNames IN
    /\ answer.status = 200 <=> keeps
    /\ answer.status = 200 =>
         /\ Len(answer.files) = Cardinality(files)
         /\ \A i \in files : answer.files[Rank(i, files)] = Call(i)

(* The lines of a histogram are cumulative: each counts the observations    *)
(* up to its bound, the last one all; a counter is the sum of what was      *)
(* added, a gauge what was set last and what was added since; the first     *)
(* metric of a name stays, and no series is lost.                           *)
BucketsAreCumulative ==
  Of("metrics") /\ done > 0 =>
    LET metric == answer["m"]
        used == {i \in Taken : Call(i).do # "create" /\ (metric.kind = "counter" => Call(i).value >= 0)}
        series(i) == Pick(Call(1).labelNames, Call(i).labels)
        values == [i \in used |-> Call(i).value] IN
    /\ metric.kind = Call(1).kind /\ metric.labelNames = Call(1).labelNames
    /\ DOMAIN metric.series = {series(i) : i \in used}
    /\ \A k \in DOMAIN metric.series :
         LET mine == {i \in used : series(i) = k}
             since == {i \in mine : \A j \in mine : Call(j).do = "set" => j <= i}
             of(what) == {i \in since : Call(i).do = what} IN
         IF metric.kind = "histogram"
         THEN \A b \in 1..(Len(metric.buckets) + 1) :
                BucketLines(metric, k)[b] =
                  Cardinality({i \in mine : b > Len(metric.buckets)
                                            \/ Call(i).value <= metric.buckets[b]})
         ELSE metric.series[k].value =
                Total(values, of("set")) + Total(values, of("inc")) - Total(values, of("dec"))

(* Every item of a result is on exactly one of its pages, whatever page     *)
(* and limit a client asks for.                                             *)
PagesPartition ==
  Of("pages") /\ done = 1 =>
    /\ answer.page >= 1 /\ answer.limit \in 1..question.maxLimit
    /\ \A i \in 0..(question.total - 1) :
         Cardinality({p \in 1..answer.pages : OnPage(i, p, answer.limit)}) = 1

(* Nothing the application is given gets lost, and no limit is exceeded. *)
LimitsHold ==
  /\ SettingsBind
  /\ MailsSent
  /\ RecordsWritten
  /\ RateIsFair
  /\ UploadsKeepLimits
  /\ BucketsAreCumulative
  /\ PagesPartition

-----------------------------------------------------------------------------
(* Signing in *)

(* A secret survives its base32 form, though the accumulator overflows its *)
(* word; a code is valid in the period it was made for and in `window`     *)
(* periods around it, so for at least window * period after it was made.   *)
CodesVerify ==
  /\ Of("base32") =>
       /\ IsPrefix(answer.dec.out, question.calls)
       /\ done = Len(question.calls) /\ answer.enc.bits = 0 => answer.dec.out = question.calls
  /\ Of("totp") /\ done = 1 =>
       LET q == question
           apart == Counter(q.used, q.period) - Counter(q.made, q.period) IN
       IF Counter(q.used, q.period) < q.window THEN answer = "throws"
       ELSE /\ answer = "valid" <=> (-q.window <= apart /\ apart <= q.window)
            /\ q.used \in q.made..(q.made + q.window * q.period) => answer = "valid"
  /\ Of("password") /\ done = 1 =>
       /\ answer.ok <=> question.typed = question.password
       /\ answer.rehash <=> Algorithm(question.then) # Algorithm(question.now)

(* A session is elevated exactly when it was re-authenticated recently and *)
(* that was not undone since, whatever impersonation did meanwhile.        *)
ElevationIsRecent ==
  Of("bag") =>
    LET marks == {i \in Taken : Call(i).do \in {"elevate", "clear"}} IN
    RequireStepUp(answer, question.now, question.within) <=>
      \E i \in marks : /\ Call(i).do = "elevate" /\ \A j \in marks : j <= i
                       /\ question.now - Call(i).at <= question.within

(* The verifier kept by the client is the one whose challenge the server   *)
(* got, unless the caller overrides it; a secret goes out in one place     *)
(* exactly; a refused request gives no token.                              *)
ExchangeMatches ==
  Of("oauth") /\ done = 1 =>
    LET q == question IN
    /\ "code_challenge" \notin DOMAIN q.options.params =>
         (ServerAccepts(answer.url, answer.request) <=>
            q.grant.type = "code" /\ q.grant.verifier = q.options.verifier)
    /\ answer.request.authorization = "none" \/ answer.request.client_secret = "none"
    /\ ~ q.granted => "accessToken" \notin DOMAIN answer.token
    /\ q.config.secret # "none" => q.config.secret \in {answer.request.authorization,
                                                        answer.request.client_secret}

(* Whoever signs in is who the code, the mark or the grant says. *)
SignInIsSound == CodesVerify /\ ElevationIsRecent /\ ExchangeMatches
=============================================================================
