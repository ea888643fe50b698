------------------------------- MODULE Plugins -------------------------------
(***************************************************************************)
(* The plugins of src/ around one routed request: request hooks before     *)
(* routing, wrappers nested in the order of registration around settle()   *)
(* (guards, handler, queued cookies), response hooks last.  A plugin is    *)
(* its name; a response is its status, its body and the headers plugins    *)
(* read or write, a set of <<name, value>>.                                *)
(*                                                                         *)
(* req: [method, preflight, length, cookie, sent, accepts, ifNoneMatch,    *)
(*       credentials, origin, overLimit]                                   *)
(* app: [plugins, schemes, guard, roles, origins, maxBytes, off]           *)
(***************************************************************************)
EXTENDS Values, Naturals, Sequences, SequencesExt, FiniteSets

Reply(status, body, headers) == [status |-> status, body |-> body, headers |-> headers]
Body(of) == [of |-> of, gzip |-> FALSE]
NoBody == Body("none")

Set(names) == names \X {"set"}
HasHeader(res, name) == \E h \in res.headers : h[1] = name
With(res, headers) == [res EXCEPT !.headers = @ \cup headers]

-----------------------------------------------------------------------------
(* error.ts and problem-details.ts.  An error is a thrown Response, an     *)
(* HttpError, or anything else.                                            *)

ToErrorResponse(err) ==
  CASE err.kind = "response" -> Reply(err.status, Body(err.message), {})
    [] err.kind = "http" -> Reply(err.status, Body(err.message), {})
    [] err.kind = "other" -> Reply(500, Body("Internal Server Error"), {})

(* Mutant of ProblemDetails: the message of every error is its detail. *)
ProblemDetailsAlways(err) ==
  IF err.kind = "response" THEN None
  ELSE Reply(IF err.kind = "http" THEN err.status ELSE 500, Body(err.message), {})
(* The handler defers a thrown Response; an unknown error gets no detail. *)
ProblemDetails(err) ==
  CASE err.kind = "response" -> None
    [] err.kind = "http" -> Reply(err.status, Body(err.message), {})
    [] err.kind = "other" -> Reply(500, NoBody, {})

(* settle() answers a thrown Response itself and asks the handlers else. *)
Rendered(err, problems) ==
  IF err.kind = "response" \/ ~ problems
  THEN ToErrorResponse(err) ELSE ProblemDetails(err)

-----------------------------------------------------------------------------
(* cookies.ts.  Of the characters that matter, ";" ends a pair and "%" begins *)
(* an escape.                                                                 *)
(* Mutant of EncodeURIComponent. *)
EncodeNothing(v) == v
EncodeURIComponent(v) ==
  CASE v = ";" -> "%3B" [] v = "%" -> "%25" [] v = "%3B" -> "%253B" [] OTHER -> v
(* "%" alone does not decode and is kept as it is. *)
DecodeURIComponent(v) ==
  CASE v = "%3B" -> ";" [] v = "%25" -> "%" [] v = "%253B" -> "%3B" [] OTHER -> v
UpToSemicolon(v) == IF v = ";" THEN "" ELSE v

SerializeCookie(name, value, expired) ==
  [name |-> name, value |-> EncodeURIComponent(value), expired |-> expired]

(* The Set-Cookie headers after one more set(name, value) or delete(name). *)
Serialize(setCookies, call) ==
  Append(setCookies,
         IF call.do = "set" THEN SerializeCookie(call.name, call.value, FALSE)
         ELSE SerializeCookie(call.name, "", TRUE))

(* The Cookie header of the next request, of a browser that got these      *)
(* Set-Cookie headers: the last one of a name wins.                        *)
LastOf(seq, i) == \A j \in DOMAIN seq : seq[j].name = seq[i].name => j <= i
Latest(seq, name) == CHOOSE i \in DOMAIN seq : seq[i].name = name /\ LastOf(seq, i)
Jar(setCookies) ==
  {setCookies[i] : i \in {j \in DOMAIN setCookies :
                            LastOf(setCookies, j) /\ ~ setCookies[j].expired}}

(* parseCookieHeader: no name, no cookie; the last pair of a name wins. *)
ParseCookies(pairs) ==
  [n \in {pairs[i].name : i \in DOMAIN pairs} \ {""} |->
     DecodeURIComponent(UpToSemicolon(pairs[Latest(pairs, n)].value))]

-----------------------------------------------------------------------------
(* authentication.ts and auth.ts *)

(* The first scheme whose verify accepts what the request carries. *)
Accepts(scheme, req) == \E p \in req.credentials : p.scheme = scheme /\ p.valid
PrincipalBy(scheme, req) ==
  CHOOSE p \in req.credentials : p.scheme = scheme /\ p.valid
Authenticate(schemes, req) ==
  LET i == SelectInSeq(schemes, LAMBDA s : Accepts(s, req)) IN
  IF i = 0 THEN None ELSE PrincipalBy(schemes[i], req).roles

(* requireAuth; requireRole and requireScope: 401 before 403. *)
RequireAuth(principal) == IF Defined(principal) THEN 200 ELSE 401
ClaimGuard(principal, allowed) ==
  IF ~ Defined(principal) THEN 401
  ELSE IF principal \cap allowed = {} THEN 403 ELSE 200
Guarded(app, principal) ==
  CASE app.guard = "open" -> 200
    [] app.guard = "authenticated" -> RequireAuth(principal)
    [] app.guard = "role" -> ClaimGuard(principal, app.roles)

-----------------------------------------------------------------------------
(* What a wrapper does before next(): it answers itself (short), or goes   *)
(* on with the request state st = [principal, id, minted].                 *)

GoOn(st) == [short |-> FALSE, st |-> st]
Short(res) == [short |-> TRUE, response |-> res]

SafeMethods == {"GET", "HEAD", "OPTIONS"}
(* Mutant of the next definition: a token that is sent back is enough. *)
CsrfPassesAny(req) == req.sent # "none"
(* csrf: the double-submitted token of an unsafe method. *)
CsrfPasses(req) == req.cookie # "none" /\ req.sent # "none" /\ req.cookie = req.sent

EnterCsrf(req, st) ==
  IF req.method \in SafeMethods
  THEN GoOn([st EXCEPT !.minted = @ \/ req.cookie = "none"])
  ELSE IF CsrfPasses(req) THEN GoOn(st) ELSE Short(Reply(403, Body("Forbidden"), {}))

EnterRateLimit(req, st) ==
  IF req.overLimit
  THEN Short(Reply(429, Body("Too Many Requests"), Set({"retry-after", "x-ratelimit"})))
  ELSE GoOn(st)

EnterPlugin(app, plugin, req, st) ==
  CASE plugin = "csrf" -> EnterCsrf(req, st)
    [] plugin = "rateLimit" -> EnterRateLimit(req, st)
    [] plugin = "authentication" ->
         LET p == Authenticate(app.schemes, req) IN
         GoOn(IF p = None THEN st ELSE [st EXCEPT !.principal = p])
    [] plugin = "requestId" -> GoOn([st EXCEPT !.id = TRUE])
    [] OTHER -> GoOn(st)

-----------------------------------------------------------------------------
(* What a wrapper does with the response of next(). *)

Tag(body) == body  \* the hash of the bytes
MayTag(req, res) == req.method = "GET" /\ res.status = 200 /\ res.body # NoBody

(* A match is answered by a new Response that keeps the tag only. *)
LeaveEtag(req, res) ==
  IF ~ MayTag(req, res) THEN res
  ELSE IF req.ifNoneMatch = Tag(res.body) THEN Reply(304, NoBody, Set({"etag"}))
  ELSE With(res, Set({"etag"}))

Compressible(body) == body.of = "page"  \* by content type and threshold
Gzipped(body) == [body EXCEPT !.gzip = TRUE]
(* compression sets content-encoding and overwrites Vary. *)
LeaveCompression(req, res) ==
  IF \/ res.body = NoBody \/ HasHeader(res, "content-encoding")
     \/ "gzip" \notin req.accepts \/ ~ Compressible(res.body)
  THEN res
  ELSE Reply(res.status, Gzipped(res.body),
             {h \in res.headers : h[1] # "vary"}
             \cup {<<"content-encoding", "gzip">>, <<"vary", "accept-encoding">>})

LeavePlugin(plugin, req, res) ==
  CASE plugin = "etag" -> LeaveEtag(req, res)
    [] plugin = "compression" -> LeaveCompression(req, res)
    [] plugin = "rateLimit" -> With(res, Set({"x-ratelimit"}))
    [] plugin = "requestId" -> With(res, Set({"x-request-id"}))
    [] OTHER -> res

(* settle(): the guard, the handler, then the queued cookies. *)
SettleRequest(app, req, st) ==
  LET verdict == Guarded(app, st.principal)
      settled == CASE verdict = 401 -> Reply(401, Body("Unauthorized"), {})
                   [] verdict = 403 -> Reply(403, Body("Forbidden"), {})
                   [] OTHER -> Reply(200, Body("page"), Set({"handler"})
                                                        \cup {<<"vary", "handler">>}) IN
  With(settled, IF st.minted THEN Set({"set-cookie"}) ELSE {})

-----------------------------------------------------------------------------
(* What the request hooks and response hooks, which see every request, do.  *)

(* bodyLimit: a request that does not declare its length passes. *)
BodyTooLarge(app, req) == Defined(req.length) /\ req.length > app.maxBytes

(* resolveOrigin; the origin option as the form it has and its origins. *)
NoOrigin == [value |-> "none", vary |-> FALSE]
ResolveOrigin(origins, origin) ==
  CASE origins.form = "off" -> NoOrigin
    [] origins.form = "reflect" -> [value |-> origin, vary |-> TRUE]
    [] origins.form = "text" -> [value |-> origins.is, vary |-> origins.is # "*"]
    [] origins.form = "list" -> IF origin \in origins.are THEN [value |-> origin, vary |-> TRUE]
                                ELSE NoOrigin

CorsHeaders(origins, origin) ==
  LET resolved == ResolveOrigin(origins, origin) IN
  IF "none" \in {origin, resolved.value} THEN {}
  ELSE {<<"allow-origin", resolved.value>>}
       \cup (IF resolved.vary THEN {<<"vary", "origin">>} ELSE {})

(* securityHeaders sets what is not set and not switched off. *)
SecurityHeaders(off) ==
  Set({"content-security-policy", "strict-transport-security", "x-frame-options",
       "referrer-policy", "cross-origin-opener-policy", "x-content-type-options"} \ off)

ResponseHooks(app, req, res) ==
  With(res, CorsHeaders(app.origins, req.origin) \cup SecurityHeaders(app.off))

(* The readiness probe: every check up, where a throw is down. *)
Ready(checks) == IF \A i \in DOMAIN checks : checks[i] = "up" THEN 200 ELSE 503

-----------------------------------------------------------------------------
(* A request on its way: before the request hooks ("received"), entering    *)
(* the wrappers one by one, leaving those it entered with a response, or    *)
(* "answered".  A wrapper that answers itself is not among those it leaves. *)
(* `plain` is history: the response to the same request if it had no        *)
(* If-None-Match.                                                           *)

WithoutTag(req) == [req EXCEPT !.ifNoneMatch = None]

Received == [phase |-> "received", entered |-> 0,
             st |-> [principal |-> None, id |-> FALSE, minted |-> FALSE],
             response |-> Reply(0, NoBody, {}), plain |-> Reply(0, NoBody, {})]

Responded(x, phase, res) == [x EXCEPT !.phase = phase, !.response = res, !.plain = res]

(* The request hooks: bodyLimit and the preflight of cors may answer. *)
RequestHooks(app, req, x) ==
  IF BodyTooLarge(app, req)
  THEN Responded(x, "leaving", Reply(413, Body("Payload Too Large"), {}))
  ELSE IF req.preflight
  THEN Responded(x, "leaving", Reply(204, NoBody, CorsHeaders(app.origins, req.origin)))
  ELSE [x EXCEPT !.phase = "entering"]

EnterNext(app, req, x) ==
  LET e == EnterPlugin(app, app.plugins[x.entered + 1], req, x.st) IN
  IF e.short THEN Responded(x, "leaving", e.response)
  ELSE [x EXCEPT !.entered = @ + 1, !.st = e.st]

LeaveLast(app, req, x) ==
  [x EXCEPT !.entered = @ - 1,
            !.response = LeavePlugin(app.plugins[x.entered], req, @),
            !.plain = LeavePlugin(app.plugins[x.entered], WithoutTag(req), @)]

Answered(app, req, x) ==
  [x EXCEPT !.phase = "answered", !.response = ResponseHooks(app, req, @),
            !.plain = ResponseHooks(app, req, @)]

-----------------------------------------------------------------------------
(* rate-limit.ts: memoryRateLimitStore.hit, and what rateLimit admits *)

NoWindow == [count |-> 0, expires |-> 0]
(* Mutant of the next definition: the window slides with every hit. *)
HitSlides(w, now, windowMs) ==
  [count |-> IF w.expires <= now THEN 1 ELSE w.count + 1, expires |-> now + windowMs]
Hit(w, now, windowMs) ==
  IF w.expires <= now THEN [count |-> 1, expires |-> now + windowMs]
  ELSE [w EXCEPT !.count = @ + 1]
Admits(w, limit) == w.count <= limit
=============================================================================
