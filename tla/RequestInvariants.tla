-------------------------- MODULE RequestInvariants --------------------------
(***************************************************************************)
(* The inductive invariants of RequestPipeline and Computations, and the   *)
(* notions they are stated with; Request_proofs proves them.               *)
(***************************************************************************)
EXTENDS RequestPipeline, Computations

(* Stages of the core and of settle(), as sets used by the invariant. *)
Core == {"intercept", "validate", "resolve", "handler", "coerce"}

Inner == {"derive", "guard", "unintercept", "catch", "render", "outgoing"} \union Core

(* The position of a request in a hook list. *)
AtBounds(q) ==
  /\ q.pc \in HookStages => q.at \in 1..(Hooks[q.pc] + 1)
  /\ q.pc = "unintercept" => q.at \in 0..Hooks["intercept"]
  /\ q.pc = "unwrap" => q.at \in 0..Hooks["wrap"]

(* What derivers, guards, validation and resolvers have let pass. *)
Passed(q, d) ==
  /\ q.pc \in {"idle", "onRequest", "route", "wrap"} =>
       \A s \in {"derive", "guard", "validate", "resolve"} : d[s] = 0
  /\ q.pc = "derive" =>
       d["derive"] = q.at - 1 /\ d["guard"] = 0
  /\ q.pc = "guard" =>
       d["derive"] = Hooks["derive"] /\ d["guard"] = q.at - 1
  /\ q.pc \in Core \/ (q.pc = "unintercept" /\ q.at > 0) =>
       d["derive"] = Hooks["derive"] /\ d["guard"] = Hooks["guard"]
  /\ q.pc \in {"derive", "guard", "intercept", "validate"} =>
       d["validate"] = 0 /\ d["resolve"] = 0
  /\ q.pc = "resolve" =>
       d["validate"] = 1 /\ d["resolve"] = q.at - 1
  /\ q.pc = "handler" =>
       d["validate"] = 1 /\ d["resolve"] = Hooks["resolve"]
  /\ d["derive"] <= Hooks["derive"] /\ d["guard"] <= Hooks["guard"]

(* Calls of the handler, against the extra calls of next(). *)
Calls(q, d) ==
  /\ d["handler"] <= 1 + d["retry"]
  /\ q.pc \in {"idle", "onRequest", "route", "wrap", "derive", "guard", "intercept",
               "validate", "resolve", "handler"}
       => d["handler"] <= d["retry"]

(* Where what travels back comes from. *)
Origins(q) ==
  /\ q.pc = "unintercept" => q.flow # "none" /\ q.origin \in Settled \ {"catch"}
  /\ q.pc = "catch" => q.origin \in Settled \ {"catch"}
  /\ q.pc = "render" => q.origin \in Settled
  /\ q.pc = "outgoing" => q.flow = "response" /\ q.origin \in Settled \union {"render"}
  /\ q.pc = "unwrap" /\ q.flow # "response" =>
       q.origin \in {"wrap", "unwrap", "render", "outgoing"}
  /\ q.pc = "rejected" => q.origin \in Outside
  /\ q.pc \in {"idle", "onRequest", "route", "delegate"} =>
       q.origin = "idle" /\ q.flow = "none"

(* applyOutgoing on the way out, and the response hooks after it. *)
Outs(q, d) ==
  /\ d["outgoing"] <= 1
  /\ q.pc \in {"idle", "onRequest", "route", "delegate", "wrap"} \union Inner
       => d["outgoing"] = 0
  /\ q.pc \in {"unwrap", "respond"} /\ q.origin \in Settled \union {"render"}
       /\ q.flow = "response" => d["outgoing"] = 1
  /\ q.pc = "respond" => q.flow = "response"
  /\ q.pc \notin {"respond", "after", "done", "rejected"} => d["respond"] = 0
  /\ q.pc = "respond" => d["respond"] = q.at - 1
  /\ q.pc \in {"after", "done"} => d["respond"] = Hooks["respond"]
  /\ q.pc \notin {"after", "done", "rejected"} => d["after"] = 0
  /\ q.pc = "after" => d["after"] = q.at - 1
  /\ q.pc = "done" => d["after"] = Hooks["after"]

(* The error handlers that declined. *)
Refused(q, d) ==
  /\ q.pc \in {"idle", "onRequest", "route", "delegate", "wrap", "derive", "guard",
               "unintercept"} \union Core => d["refuse"] = 0
  /\ q.pc = "catch" => d["refuse"] = q.at - 1
  /\ q.pc = "render" /\ q.origin # "catch" => d["refuse"] = Hooks["catch"]

(* The inductive invariant of one request. *)
Local(q, d) ==
  /\ AtBounds(q) /\ Passed(q, d) /\ Calls(q, d) /\ Origins(q) /\ Outs(q, d) /\ Refused(q, d)

LocalInv == \A r \in Requests : Local(req[r], did[r])

TypeInv ==
  /\ req \in [Requests -> Request]
  /\ did \in [Requests -> [Counted -> Nat]]
  /\ inFlight \in Int

(* The fields of a record, and counts that hold one more completion of c. *)
Shape(n, s, k, f, o) == n.pc = s /\ n.at = k /\ n.flow = f /\ n.origin = o

Bumps(e, d, c) == e[c] = d[c] + 1 /\ \A s \in Counted \ {c} : e[s] = d[s]

(* The variables keep their types, and only the entries of r change. *)
OnlyChanges(r) ==
  /\ req' \in [Requests -> Request]
  /\ did' \in [Requests -> [Counted -> Nat]]
  /\ \A s \in Requests \ {r} : req'[s] = req[s] /\ did'[s] = did[s]

(* What a step of r does to the gauge follows what it does to r. *)
Gauges(r) ==
  \/ inFlight' = inFlight /\ (InMeter(req'[r]) <=> InMeter(req[r]))
  \/ inFlight' = inFlight + 1 /\ ~ InMeter(req[r]) /\ InMeter(req'[r])
  \/ inFlight' = inFlight - 1 /\ InMeter(req[r]) /\ ~ InMeter(req'[r])

(* The inductive invariant, and its consequences. *)
IndInv == TypeInv /\ LocalInv /\ InFlightExact

-----------------------------------------------------------------------------
(* Common facts *)

(* What holds of every question, whatever its kind. *)
Listed ==
  question.kind \in {"routes", "decorations", "macros", "cookies", "settings", "mails",
                     "records", "hits", "upload", "metrics", "bag", "base32"}

Put ==
  /\ Sensible(question)
  /\ \E k \in DOMAIN Questions : question \in Questions[k] /\ question.kind = k
  /\ done \in Nat
  /\ Listed => done <= Len(question.calls)

-----------------------------------------------------------------------------
(* Step-up and impersonation *)

Marks == {i \in Taken : Call(i).do \in {"elevate", "clear"}}

BagInv ==
  Of("bag") =>
    /\ DOMAIN answer = {"stepUpAt", "impersonation"}
    /\ Marks = {} => answer.stepUpAt = None
    /\ \A i \in Marks : (\A j \in Marks : j <= i) =>
         answer.stepUpAt = IF Call(i).do = "elevate" THEN Call(i).at ELSE None

-----------------------------------------------------------------------------
(* Questions that one step answers *)

Static == question.kind \in {"error", "probe", "pages", "totp", "password", "oauth"}

StaticInv == Static => done \in {0, 1} /\ (done = 1 => answer = Answer(question))

-----------------------------------------------------------------------------
(* Rate limits *)

(* The hits 1..d, of which those in a were admitted and w is the window     *)
(* that is open: opened[i] is the hit that opened the window hit i fell     *)
(* into.                                                                    *)
InWindows(q, d, a, opened) ==
  \A i \in 1..d :
    /\ opened[i] \in 1..i /\ opened[opened[i]] = opened[i]
    /\ q.calls[i] < q.calls[opened[i]] + q.windowMs
    /\ i \in a <=> i - opened[i] + 1 <= q.limit

WindowsApart(q, d, opened) ==
  \A i, j \in 1..d : i <= j =>
    /\ opened[i] <= opened[j]
    /\ opened[i] # opened[j] => q.calls[opened[i]] + q.windowMs <= q.calls[opened[j]]

LastWindow(q, d, w, opened) ==
  /\ d > 0 => /\ w.expires = q.calls[opened[d]] + q.windowMs
              /\ w.count = d - opened[d] + 1
  /\ d = 0 => w.expires = 0
  /\ DOMAIN w = {"count", "expires"}

OpenedBy(q, d, w, a, opened) ==
  /\ opened \in [1..d -> 1..d] /\ a \subseteq 1..d
  /\ InWindows(q, d, a, opened)
  /\ WindowsApart(q, d, opened)
  /\ LastWindow(q, d, w, opened)

HitsInv ==
  Of("hits") =>
    \E opened : OpenedBy(question, done, answer.window, answer.admitted, opened)

HitCalls(q) ==
  /\ Len(q.calls) \in Nat /\ q.calls \in [1..Len(q.calls) -> Nat]
  /\ q.windowMs \in Nat \ {0} /\ q.limit \in Nat
  /\ \A i, j \in 1..Len(q.calls) : i <= j => q.calls[i] <= q.calls[j]

-----------------------------------------------------------------------------
(* Base32 secrets *)

(* The low bits of a number that was shifted and got c at its end, though   *)
(* its high bits are lost.                                                  *)
Shifted(p, f, b, m, v, c, w, k) ==
  /\ {p, f, b} \subseteq Nat \ {0} /\ {v, w, k, m} \subseteq Nat
  /\ b = p * f /\ 8192 = b * m
  /\ c \in 0..(f - 1) /\ v * f + c = w + 8192 * k

(* What the encoder holds once it has taken the byte b. *)
TakesByte(e, v, b) ==
  /\ ShiftLeft(v, 8) + b \in Nat
  /\ (ShiftLeft(v, 8) + b) % Power(e + 8) = (v % Power(e)) * 256 + b

(* What the decoder holds, y, is the byte it puts out and the bits it keeps. *)
WritesByte(d, w, y) ==
  \E o \in 0..255 : o = ShiftRight(w, d - 3) % 256 /\ y = o * Power(d - 3) + (w % Power(d - 3))

(* The bytes q.calls that were taken and not written yet, d in number. *)
Pending(calls, d, n) ==
  IF n = d THEN 0 ELSE IF n + 1 = d THEN calls[d] ELSE calls[d - 1] * 256 + calls[d]

BytesIn(calls) == Len(calls) \in Nat /\ \A i \in 1..Len(calls) : calls[i] \in 0..255

(* The bits that are neither written by the one side nor read by the other *)
(* are those of the pending bytes.                                         *)
InFlow(x, e, v, pending) == x * Power(e) + (v % Power(e)) = pending

Flowing(calls, d, enc, dec) ==
  /\ enc = [bits |-> enc.bits, value |-> enc.value]
  /\ dec = [bits |-> dec.bits, value |-> dec.value, out |-> dec.out]
  /\ enc.bits \in 0..12 /\ dec.bits \in 0..7 /\ enc.value \in Nat /\ dec.value \in Nat
  /\ 8 * Len(dec.out) + dec.bits + enc.bits = 8 * d
  /\ InFlow(dec.value % Power(dec.bits), enc.bits, enc.value, Pending(calls, d, Len(dec.out)))

Bytes(s) == s \in Seq(0..255)

ReadBack(calls, d, out) ==
  /\ Bytes(out) /\ Len(out) <= d
  /\ \A i \in 1..Len(out) : out[i] = calls[i]

Base32Inv ==
  Of("base32") =>
    /\ DOMAIN answer = {"enc", "dec"}
    /\ ReadBack(question.calls, done, answer.dec.out)
    /\ \/ Flowing(question.calls, done, answer.enc, answer.dec)
       \/ /\ done = Len(question.calls) /\ answer.enc.bits = 0
          /\ Len(answer.dec.out) = done

(* t is s with one more byte. *)
Appended(s, o, t) ==
  /\ Bytes(t) /\ Len(t) = Len(s) + 1
  /\ \A j \in 1..Len(s) : t[j] = s[j]
  /\ t[Len(s) + 1] = o

(* The bits in flow once the byte b is taken. *)
FlowsIn(x, e, v, b, pending) == InFlow(x, e + 8, ShiftLeft(v, 8) + b, pending * 256 + b)

(* What the decoder holds once it has read the character c. *)
ReadsChar(d, v, c) ==
  LET w == Word(ShiftLeft(v, 5) + c) IN
  w \in Nat /\ w % Power(d + 5) = (v % Power(d)) * 32 + c

(* A character completes the byte o, and a is the first of the pending ones. *)
ByteOutputs(p, g, o, z, h, a, t) ==
  /\ p \in Nat \ {0} /\ g \in Nat \ {0} /\ (p * g = 1 \/ p * g = 256)
  /\ o \in Nat /\ z \in 0..(p - 1) /\ h \in 0..(g - 1)
  /\ a \in Nat /\ t \in 0..(p * g - 1)
  /\ (o * p + z) * g + h = a * (p * g) + t

-----------------------------------------------------------------------------
(* Mails, log records and uploads *)

IsSeq(s) == \E T : s \in Seq(T)

Longer(s, e, t) ==
  /\ IsSeq(t) /\ Len(s) \in Nat /\ Len(t) = Len(s) + 1
  /\ t[Len(s) + 1] = e /\ \A k \in 1..Len(s) : t[k] = s[k]

(* s is made of the f[i] of the i in S, in the order of S. *)
Filtered(s, S, f) ==
  /\ IsSeq(s) /\ Len(s) = Cardinality(S)
  /\ \A i \in S : s[Rank(i, S)] = f[i]

(* Mails *)
SentMail(q, m) ==
  [to |-> Recipients(m.to), from |-> MailFrom(m, q.from), bcc |-> Recipients(m.bcc)]

Complete(q, m) ==
  /\ m.to \notin {None, <<>>} /\ MailFrom(m, q.from) \notin {None, ""}
  /\ m.subject # "" /\ (m.text \/ m.html)

DueMails(q, d) == {i \in 1..d : Complete(q, q.calls[i])}

MailsInv ==
  Of("mails") =>
    Filtered(answer, DueMails(question, done),
             [i \in 1..done |-> SentMail(question, question.calls[i])])

(* Records *)
Record(q, level) == [level |-> level, requestId |-> q.id]

Heard(level, min) == min \in DOMAIN Levels => Levels[level] >= Levels[min]
Loud(q, d) == {i \in 1..d : Heard(q.calls[i], EnvLevel(q.min))}

RecordsInv ==
  Of("records") =>
    Filtered(answer, Loud(question, done), [i \in 1..done |-> Record(question, question.calls[i])])

(* Uploads *)
FilesOf(q, d) == {i \in 1..d : q.calls[i].kind = "file"}

Sizes(q, d) == [i \in FilesOf(q, d) |-> q.calls[i].size]

FileKept(o, part) ==
  /\ Defined(o.maxFileSize) => part.size <= o.maxFileSize
  /\ Defined(o.allowedTypes) => TypeAllowed(part.type, o.allowedTypes)
  /\ part.name \notin ObjectNames

Fits4(o, count, total) ==
  /\ Defined(o.maxFiles) => count <= o.maxFiles
  /\ Defined(o.maxTotalSize) => total <= o.maxTotalSize

LimitsKept(q, d) ==
  /\ Fits4(q.options, Cardinality(FilesOf(q, d)), Total(Sizes(q, d), FilesOf(q, d)))
  /\ \A i \in FilesOf(q, d) : FileKept(q.options, q.calls[i])

Parsed(q, d, a) ==
  /\ a = [count |-> a.count, total |-> a.total, files |-> a.files, status |-> a.status]
  /\ a.status = 200 <=> LimitsKept(q, d)
  /\ a.status = 200 =>
       /\ a.count = Cardinality(FilesOf(q, d))
       /\ a.total = Total(Sizes(q, d), FilesOf(q, d))
       /\ Filtered(a.files, FilesOf(q, d), [i \in 1..d |-> q.calls[i]])

UploadInv == Of("upload") => Parsed(question, done, answer)

FileCalls(q) ==
  /\ \A i \in DOMAIN q.calls : q.calls[i].kind = "file" => q.calls[i].size \in Nat
  /\ \A i \in DOMAIN q.calls : q.calls[i].kind \in {"field", "file"}
  /\ {q.options.maxFiles, q.options.maxTotalSize, q.options.maxFileSize} \subseteq Nat \cup {None}

-----------------------------------------------------------------------------
(* Settings *)

All(q) == q.prefix = ""

(* The calls that are collected, and the name each gets. *)
Mine(q, d) == {i \in 1..d : All(q) \/ Under(q.calls[i].key, q.prefix)}

NameOf(q, i) ==
  LET key == q.calls[i].key IN
  IF All(q)
  THEN [words |-> key.words,
        capital |-> {n \in DOMAIN key.words :
                       key.underscores[n] > 0 /\ key.words[n] \notin Numerals}]
  ELSE [words |-> Tail(key.words),
        capital |-> {n \in DOMAIN Tail(key.words) :
                       /\ key.underscores[n + 1] > IF n = 1 THEN 1 ELSE 0
                       /\ key.words[n + 1] \notin Numerals}]

Keyed(key) ==
  /\ Len(key.words) > 0 /\ key.words \in Seq(STRING)
  /\ key.underscores \in [DOMAIN key.words -> Nat]

Collected(q, d, out) ==
  /\ DOMAIN out = {NameOf(q, i) : i \in Mine(q, d)}
  /\ \A i \in Mine(q, d) : (\A j \in Mine(q, d) : NameOf(q, j) = NameOf(q, i) => j <= i) =>
       out[NameOf(q, i)] = q.calls[i].value

SettingsInv == Of("settings") => Collected(question, done, answer)

-----------------------------------------------------------------------------
(* Metrics *)

(* The calls that count, those of one series, and those since its last set. *)
Recorded(q, i) == q.calls[i].do # "create" /\ (q.calls[1].kind = "counter" => q.calls[i].value >= 0)

Used(q, d) == {i \in 1..d : Recorded(q, i)}

SeriesOf(q, i) == Pick(q.calls[1].labelNames, q.calls[i].labels)

OfSeries(q, d, k) == {i \in Used(q, d) : SeriesOf(q, i) = k}

Since(q, M) == {i \in M : \A j \in M : q.calls[j].do = "set" => j <= i}

Doing(q, M, what) == {i \in Since(q, M) : q.calls[i].do = what}

Amounts(q) == [i \in DOMAIN q.calls |-> q.calls[i].value]

ValueOf(q, M) == Total(Amounts(q), Doing(q, M, "set")) + Total(Amounts(q), Doing(q, M, "inc"))
                   - Total(Amounts(q), Doing(q, M, "dec"))

(* What a call of a metric is. *)
Fitted(q, i) ==
  \/ q.calls[i].do = "create"
  \/ q.calls[1].kind = "histogram" /\ q.calls[i].do = "observe" /\ q.calls[i].value \in Int
  \/ q.calls[1].kind = "counter" /\ q.calls[i].do = "inc" /\ q.calls[i].value \in Int
  \/ q.calls[1].kind = "gauge" /\ q.calls[i].do \in {"set", "inc", "dec"} /\ q.calls[i].value \in Nat

Observed(q) ==
  /\ Len(q.calls) \in Nat \ {0} /\ DOMAIN q.calls = 1..Len(q.calls) /\ q.calls[1].do = "create"
  /\ q.calls[1].kind \in {"histogram", "counter", "gauge"}
  /\ \A i \in DOMAIN q.calls : Fitted(q, i)
  /\ IsList(q.calls[1].buckets)

UpTo(q, M, bound) == Cardinality({i \in M : q.calls[i].value <= bound})

(* What a series holds. *)
Holds(q, M, buckets, s) ==
  IF q.calls[1].kind = "histogram"
  THEN \E counts, sum, count :
         /\ s = [counts |-> counts, sum |-> sum, count |-> count]
         /\ DOMAIN counts = DOMAIN buckets
         /\ \A b \in DOMAIN buckets :
              counts[b] = UpTo(q, M, buckets[b])
         /\ count = Cardinality(M)
  ELSE s = [value |-> ValueOf(q, M)]

Kept(q, d, metric) ==
  LET buckets == Ascending(q.calls[1].buckets) IN
  \E series :
    /\ metric = [kind |-> q.calls[1].kind, labelNames |-> q.calls[1].labelNames,
                 buckets |-> buckets, series |-> series]
    /\ DOMAIN series = {SeriesOf(q, i) : i \in Used(q, d)}
    /\ \A k \in DOMAIN series : Holds(q, OfSeries(q, d, k), buckets, series[k])

MetricsInv ==
  Of("metrics") => IF done = 0 THEN answer = <<>>
                   ELSE \E f : answer = [n \in {"m"} |-> f] /\ Kept(question, done, f)

Shaped(q, metric, series) ==
  metric = [kind |-> q.calls[1].kind, labelNames |-> q.calls[1].labelNames,
            buckets |-> Ascending(q.calls[1].buckets), series |-> series]

Sorted(q) == Ascending(q.calls[1].buckets)

-----------------------------------------------------------------------------
(* Plugins *)

(* What a response and a request on its way are made of. *)
TextNames == {"none", "page", "Forbidden", "Too Many Requests", "Unauthorized", "Payload Too Large"}

Texts == [of : TextNames, gzip : BOOLEAN]

Whole(res) == res \in [status : Nat, body : Texts, headers : {res.headers}]

PassingStates(p) == [principal : {p}, id : BOOLEAN, minted : BOOLEAN]

Passings(S, A, B) ==
  [phase : {"received", "entering", "leaving", "answered"}, entered : Nat, st : S,
   response : A, plain : B]

OnItsWay(x) == x \in Passings(PassingStates(x.st.principal), {x.response}, {x.plain})

Apps(app) ==
  /\ app.plugins \in Seq(STRING) /\ app.schemes \in Seq(STRING)
  /\ app.guard \in {"open", "authenticated", "role"} /\ app.origins \in OriginOptions

(* Whom a request is for, and what its wrappers have let through. *)
Cleared(app, msg) ==
  /\ "csrf" \in ToSet(app.plugins) /\ msg.method \notin SafeMethods =>
       msg.cookie # "none" /\ msg.cookie = msg.sent
  /\ ~ BodyTooLarge(app, msg) /\ ("rateLimit" \in ToSet(app.plugins) => ~ msg.overLimit)

(* A csrf cookie is due. *)
Tokenless(msg) == msg.method \in SafeMethods /\ msg.cookie = "none"

(* A plugin of the name has let the request through. *)
Behind(app, n, plugin) == \E i \in 1..n : app.plugins[i] = plugin

PassedSoFar(app, msg, n, st) ==
  /\ Behind(app, n, "csrf") /\ msg.method \notin SafeMethods =>
       msg.cookie # "none" /\ msg.cookie = msg.sent
  /\ Behind(app, n, "csrf") /\ Tokenless(msg) => st.minted
  /\ Behind(app, n, "rateLimit") => ~ msg.overLimit

Known(app, msg, principal) ==
  /\ "authentication" \in ToSet(app.plugins)
  /\ \E p \in msg.credentials : /\ p.valid /\ p.scheme \in ToSet(app.schemes)
                                /\ principal = p.roles

Authorized(app, msg) ==
  app.guard # "open" =>
    /\ "authentication" \in ToSet(app.plugins)
    /\ \E p \in msg.credentials : /\ p.valid /\ p.scheme \in ToSet(app.schemes)
                                  /\ app.guard = "role" => p.roles \cap app.roles # {}

(* A response that keeps the promises, and the one without If-None-Match. *)
Honest(app, msg, res) ==
  /\ Whole(res) /\ (res.status = 200 => res.body.of = "page")
  /\ res.body.gzip <=> HasHeader(res, "content-encoding")
  /\ HasHeader(res, "content-encoding") => "gzip" \in msg.accepts
  /\ HasHeader(res, "handler") \/ res.status \in {200, 304} => Cleared(app, msg) /\ Authorized(app, msg)
  /\ \A h \in res.headers : h[1] = "allow-origin" => h \in CorsHeaders(app.origins, msg.origin)

Given(app, msg, res) == Honest(app, msg, res) /\ res.status # 304

Denied(app, msg, res) == Given(app, msg, res) /\ ~ HasHeader(res, "handler")

(* A response, n wrappers before the client, has what the others add. *)
Bears(app, msg, res, n) ==
  /\ HasHeader(res, "handler") \/ res.status = 304 =>
       \A i \in (n + 1)..Len(app.plugins) : app.plugins[i] \in {"requestId", "rateLimit"} =>
         \/ HasHeader(res, HeaderOf(app.plugins[i]))
         \/ res.status = 304 /\ \E j \in 1..i : app.plugins[j] = "etag"
  /\ HasHeader(res, "handler") /\ "csrf" \in ToSet(app.plugins) /\ Tokenless(msg) =>
       HasHeader(res, "set-cookie")

(* The response b has what the response a has. *)
Continues(a, b) ==
  /\ b.status = a.status /\ (HasHeader(b, "handler") => HasHeader(a, "handler"))
  /\ \A n : n # "vary" /\ HasHeader(a, n) => HasHeader(b, n)

Paired(res, plain) ==
  /\ Whole(plain) /\ (plain.status = 200 => plain.body.of = "page") /\ plain.status # 304
  /\ res = plain \/ (res.status = 304 /\ plain.status = 200 /\ HasHeader(plain, "etag"))

PassingInv(app, msg, x) ==
  /\ OnItsWay(x) /\ x.entered <= Len(app.plugins)
  /\ x.phase \in {"received", "entering"} => PassedSoFar(app, msg, x.entered, x.st)
  /\ x.phase = "entering" => ~ BodyTooLarge(app, msg)
  /\ x.phase \in {"leaving", "answered"} => Bears(app, msg, x.response, x.entered)
  /\ x.st.principal # None => Known(app, msg, x.st.principal)
  /\ Honest(app, msg, x.response) /\ Paired(x.response, x.plain)
  /\ x.phase = "answered" =>
       /\ CorsHeaders(app.origins, msg.origin) \cup SecurityHeaders(app.off) \subseteq x.response.headers
       /\ x.entered = 0

PluginsInv == Of("plugins") => PassingInv(question.app, question.req, answer)

Harmless(app, msg, hs) ==
  /\ \A h \in hs : h[1] \notin {"content-encoding", "handler"}
  /\ \A h \in hs : h[1] = "allow-origin" => h \in CorsHeaders(app.origins, msg.origin)

Refusals == Nat \ {200, 304}

(* Entering a wrapper *)
Authenticating(app, msg, st) ==
  LET p == Authenticate(app.schemes, msg) IN IF p = None THEN st ELSE [st EXCEPT !.principal = p]

Identified(st) == [st EXCEPT !.id = TRUE]

(* The response hooks *)
SecurityNames ==
  {"content-security-policy", "strict-transport-security", "x-frame-options",
   "referrer-policy", "cross-origin-opener-policy", "x-content-type-options"}

Entering(x, n, st) == [x EXCEPT !.entered = n, !.st = st]

Leaving(x, n, a, b) == [x EXCEPT !.entered = n, !.response = a, !.plain = b]

Answering(x, p, a, b) == [x EXCEPT !.phase = p, !.response = a, !.plain = b]

-----------------------------------------------------------------------------
(* Cookies *)

(* The Set-Cookie header of a call. *)
Written(call) ==
  IF call.do = "set" THEN SerializeCookie(call.name, call.value, FALSE)
  ELSE SerializeCookie(call.name, "", TRUE)

SentCookies(q, d, a) ==
  IsSeq(a) /\ Len(a) = d /\ \A i \in 1..d : a[i] = Written(q.calls[i])

CookiesInv == Of("cookies") => SentCookies(question, done, answer)

ReadFrom(S, back) ==
  /\ DOMAIN back = {c.name : c \in S} \ {""}
  /\ \A c \in S : c.name # "" =>
       back[c.name] = DecodeURIComponent(UpToSemicolon(c.value))

-----------------------------------------------------------------------------
(* Macros *)

(* A concatenation. *)
Chained(s, t, u) ==
  /\ IsSeq(u) /\ Len(s) \in Nat /\ Len(t) \in Nat /\ Len(u) = Len(s) + Len(t)
  /\ \A n \in 1..Len(s) : u[n] = s[n]
  /\ \A n \in 1..Len(t) : u[Len(s) + n] = t[n]

(* The parts that are in a row, and how one more is put behind them. *)
Lists(parts, d) ==
  DOMAIN parts = 1..d /\ Len(parts) = d /\ \A i \in 1..d : IsSeq(parts[i])

Joined(whole, parts, d) == Lists(parts, d) /\ IsSeq(whole) /\ Strung(whole, parts)

OneMore(parts, d, e, more) ==
  /\ DOMAIN more = 1..(d + 1) /\ Len(more) = d + 1 /\ more[d + 1] = e
  /\ \A i \in 1..d : more[i] = parts[i]

(* The hooks of a kind that the macros so far have. *)
MacroLists(q, d, k) == [i \in 1..d |-> q.registry[q.calls[i]][k]]

Expanded(q, d, a) ==
  IF \E i \in 1..d : q.calls[i] \notin DOMAIN q.registry THEN a.throws
  ELSE ~ a.throws /\ \A k \in HookKinds : Joined(a.hooks[k], MacroLists(q, d, k), d)

MacrosInv == Of("macros") => Expanded(question, done, answer)

-----------------------------------------------------------------------------
(* Decorators *)

(* The class of a call, the classes above it, and the list it pushes on. *)
ClassOf(q, i) == q.calls[i].ancestry[1]

Above(q, i) == ToSet(q.calls[i].ancestry)

ListFor(q, b, i) == b.lists[b.owner[ClassOf(q, i)]]

Precedes(s, g, h) == \E x, y \in DOMAIN s : x < y /\ s[x] = g /\ s[y] = h

(* Every class that was decorated has an owner, the same as the classes above *)
(* it, whose list has the hooks of them all, those of the base class first.   *)
Owned(q, d, b) ==
  /\ DOMAIN b.owner = {ClassOf(q, i) : i \in 1..d}
  /\ "none" \notin DOMAIN b.owner
  /\ \A i \in 1..d : /\ b.owner[ClassOf(q, i)] \in DOMAIN b.owner \cap DOMAIN b.lists
                     /\ IsSeq(ListFor(q, b, i))

SharedOwner(q, d, b) ==
  \A i, j \in 1..d : ClassOf(q, i) \in Above(q, j) => b.owner[ClassOf(q, i)] = b.owner[ClassOf(q, j)]

Pushed(q, d, b) ==
  /\ \A i \in 1..d : \A g \in ToSet(q.calls[i].hooks) : g \in ToSet(ListFor(q, b, i))
  /\ \A i, j \in 1..d : i < j /\ ClassOf(q, i) \in Above(q, j) =>
       \A g \in ToSet(q.calls[i].hooks), h \in ToSet(q.calls[j].hooks) :
         Precedes(ListFor(q, b, j), g, h)

DecorationsInv ==
  Of("decorations") => /\ Owned(question, done, answer)
                       /\ SharedOwner(question, done, answer)
                       /\ Pushed(question, done, answer)

(* What is in a list stays there when it grows. *)
Grown(s, u) == /\ DOMAIN s \subseteq DOMAIN u
               /\ \A n \in DOMAIN s : u[n] = s[n]

(* What a decoration changes: the class gets the owner the classes above it *)
(* have, whose list grows by its hooks; of no other class anything is lost. *)
Decorated(q, d, b, o, next) ==
  /\ DOMAIN next.owner = DOMAIN b.owner \cup {ClassOf(q, d + 1)}
  /\ next.owner[ClassOf(q, d + 1)] = o /\ o \in DOMAIN next.owner \cap DOMAIN next.lists
  /\ \A y \in DOMAIN b.owner : next.owner[y] = b.owner[y]
  /\ DOMAIN b.lists \subseteq DOMAIN next.lists
  /\ \A i \in 1..d : /\ Grown(ListFor(q, b, i), ListFor(q, next, i))
                     /\ IsSeq(ListFor(q, next, i))
  /\ \A i \in 1..d : ClassOf(q, i) \in Above(q, d + 1) => b.owner[ClassOf(q, i)] = o
  /\ \A i \in 1..d : ClassOf(q, d + 1) \in Above(q, i) => ClassOf(q, i) = ClassOf(q, d + 1)
  /\ \E s : /\ IsSeq(s) /\ Chained(s, q.calls[d + 1].hooks, next.lists[o])
            /\ \A i \in 1..d : ClassOf(q, i) \in Above(q, d + 1) => s = ListFor(q, b, i)

(* What the calls are. *)
SoundCall(call) ==
  /\ IsSeq(call.ancestry) /\ call.ancestry # <<>> /\ "none" \notin ToSet(call.ancestry)
  /\ IsSeq(call.hooks)

SoundCalls(q, n) == \A i \in 1..n : SoundCall(q.calls[i])

Inherited(q, n) ==
  \A i, j \in 1..n : \A k \in DOMAIN q.calls[j].ancestry :
    q.calls[j].ancestry[k] = q.calls[i].ancestry[1] =>
      /\ q.calls[i].ancestry = SubSeq(q.calls[j].ancestry, k, Len(q.calls[j].ancestry))
      /\ k > 1 => i < j

(* The k-th class above the next one is the first that has an owner. *)
FirstOwned(q, d, b, k) ==
  /\ k \in DOMAIN q.calls[d + 1].ancestry
  /\ q.calls[d + 1].ancestry[k] \in DOMAIN b.owner
  /\ \A n \in DOMAIN q.calls[d + 1].ancestry :
       q.calls[d + 1].ancestry[n] \in DOMAIN b.owner => k <= n

-----------------------------------------------------------------------------
(* Routes *)

(* The registrations of a pattern, and what its row of the table is: the *)
(* methods registered on it, each with its latest handler.               *)
RegsOn(q, d, p) == {i \in 1..d : q.calls[i].do = "route" /\ q.calls[i].pattern = p}

RowOf(q, d, row) ==
  /\ row \in [pattern : {row.pattern}, methods : {row.methods}]
  /\ RegsOn(q, d, row.pattern) # {}
  /\ DOMAIN row.methods = {q.calls[i].method : i \in RegsOn(q, d, row.pattern)}
  /\ \A i \in RegsOn(q, d, row.pattern) :
       (\A j \in RegsOn(q, d, row.pattern) : q.calls[j].method = q.calls[i].method => j <= i) =>
         row.methods[q.calls[i].method] = q.calls[i].handler

(* The rows stand in the order in which their patterns were first registered. *)
TableOf(q, d, t) ==
  /\ IsSeq(t)
  /\ \A n \in DOMAIN t : RowOf(q, d, t[n])
  /\ \A n, m \in DOMAIN t : n < m =>
       \E i \in RegsOn(q, d, t[n].pattern) : \A j \in RegsOn(q, d, t[m].pattern) : i < j
  /\ \A i \in 1..d : q.calls[i].do = "route" =>
       \E n \in DOMAIN t : t[n].pattern = q.calls[i].pattern

(* The delegates are there, a longer prefix before a shorter one. *)
DelegatesOf(q, d, s) ==
  /\ IsSeq(s)
  /\ \A n \in DOMAIN s : \E i \in 1..d : q.calls[i].do = "delegate" /\ s[n] = q.calls[i]
  /\ \A i \in 1..d : q.calls[i].do = "delegate" => \E n \in DOMAIN s : s[n] = q.calls[i]
  /\ \A n, m \in DOMAIN s : n < m => PrefixLength(s[n].prefix) >= PrefixLength(s[m].prefix)

RoutesInv ==
  Of("routes") => /\ answer \in [table : {answer.table}, delegates : {answer.delegates}]
                  /\ TableOf(question, done, answer.table)
                  /\ DelegatesOf(question, done, answer.delegates)

(* Delegates *)

Shorter(s, d) == {n \in 1..Len(s) : PrefixLength(s[n].prefix) < PrefixLength(d.prefix)}

(* u is s with e put before its element k. *)
Inserted(s, k, e, u) ==
  /\ IsSeq(u) /\ Len(u) = Len(s) + 1
  /\ \A n \in 1..Len(s) : n < k => u[n] = s[n]
  /\ u[k] = e
  /\ \A n \in 1..Len(s) : n >= k => u[n + 1] = s[n]

(* What dispatch finds *)

(* The first of the chosen places, 0 if there is none. *)
First(I, k) == \/ I = {} /\ k = 0
               \/ k \in I /\ k # 0 /\ \A x \in I : k <= x

Over(s, p) == {n \in 1..Len(s) : IsPrefix(s[n].prefix, p)}

Literal(t, p) == {n \in 1..Len(t) : ~ IsDynamic(t[n].pattern) /\ t[n].pattern = p}

Dynamic(t, p) == {n \in 1..Len(t) : IsDynamic(t[n].pattern) /\ Compare(t[n].pattern, p) # "no"}

(* The registrations that serve a path, and those of the row that is found. *)
ServesOf(q, d, p) ==
  LET fitting == {i \in 1..d : q.calls[i].do = "route" /\ Fitting(q.calls[i].pattern, p)}
      literal == {i \in fitting : ~ IsDynamic(q.calls[i].pattern)} IN
  IF literal # {} THEN literal
  ELSE {i \in fitting : \A j \in fitting :
          (\A k \in fitting : j <= k) => q.calls[i].pattern = q.calls[j].pattern}

Patterns(q, d) == \A i \in 1..d : q.calls[i].do = "route" => IsSeq(q.calls[i].pattern)

(* dispatch() by what it finds: a delegate, nothing, a row that does not *)
(* decode, a row without the method, or a handler.                       *)
Dispatched(s, t, method, p, o, lit, n, a) ==
  /\ o # 0 => /\ a.to = "delegate" /\ a.handler = s[o].handler
              /\ a.sub = SubSeq(p, Len(s[o].prefix) + 1, Len(p))
  /\ o = 0 /\ n = 0 => a.to = "404"
  /\ o = 0 /\ n # 0 /\ lit = 0 /\ Compare(t[n].pattern, p) = "throws" => a.to = "throws"
  /\ o = 0 /\ n # 0 /\ ~ (lit = 0 /\ Compare(t[n].pattern, p) = "throws") =>
       /\ method \notin DOMAIN t[n].methods => a.to = "405" /\ a.allow = DOMAIN t[n].methods
       /\ method \in DOMAIN t[n].methods =>
            a.to = "handler" /\ a.handler = t[n].methods[method]

Found(t, p) == IF StaticMatch(t, p) # 0 THEN StaticMatch(t, p) ELSE DynamicMatch(t, p)

RowAnswers(q, row, method, S) ==
  /\ S # {}
  /\ method \notin DOMAIN row.methods =>
       /\ {i \in S : q.calls[i].method = method} = {}
       /\ DOMAIN row.methods = {q.calls[i].method : i \in S}
  /\ method \in DOMAIN row.methods =>
       \E i \in {k \in S : q.calls[k].method = method} :
         /\ row.methods[method] = q.calls[i].handler
         /\ \A j \in {k \in S : q.calls[k].method = method} : j <= i

OverCalls(path) == {i \in Delegates : IsPrefix(Call(i).prefix, path)}

-----------------------------------------------------------------------------
(* Modules *)

(* Where a walk is: the ways from a root down, and what it finds there. *)
ActiveOf(q) == EnvProfiles(q.listed, q.nodeEnv)

PathOf(q, p) ==
  /\ p # <<>> => p[1] \in ToSet(q.roots)
  /\ \A i \in DOMAIN p : ProfileActive(q.modules[p[i]].profiles, ActiveOf(q))
  /\ \A i, j \in DOMAIN p : p[i] = p[j] => i = j
  /\ \A i \in DOMAIN p : i > 1 => p[i] \in ToSet(q.modules[p[i - 1]].nested)

NamesAt(q, p) == IF p = <<>> THEN q.roots ELSE q.modules[Last(p)].nested

ControllersOn(q, p) == IF p = <<>> THEN RootControllers(q) ELSE q.modules[Last(p)].controllers

(* What is inherited on a way: all prefixes and hooks of its modules. *)
PrefixesOn(q, p) == [n \in DOMAIN p |-> q.modules[p[n]].prefix]

HooksOn(q, p, k) == [n \in DOMAIN p |-> q.modules[p[n]].hooks[k]]

Carries(q, p, inherited) ==
  /\ inherited.prefix \in Seq(Segment)
  /\ Joined(inherited.prefix, PrefixesOn(q, p), Len(p))
  /\ \A k \in HookKinds : Joined(inherited.hooks[k], HooksOn(q, p, k), Len(p))

Placed(q, item) ==
  /\ item.via \in Seq(DOMAIN q.modules) /\ PathOf(q, item.via)
  /\ Carries(q, item.via, item.inherited)
  /\ \/ item.of = "module" /\ item.name \in ToSet(NamesAt(q, item.via))
     \/ /\ item.of = "controller" /\ item.nth \in DOMAIN ControllersOn(q, item.via)
        /\ item.target = ControllersOn(q, item.via)[item.nth]

(* The controller c on the way p is the item's, or is still below it. *)
Leads(v, name, p) ==
  /\ Len(v) < Len(p) /\ \A i \in 1..Len(v) : p[i] = v[i]
  /\ p[Len(v) + 1] = name

Covers(item, p, c) ==
  \/ item.of = "controller" /\ p = item.via /\ c = item.nth
  \/ item.of = "module" /\ Leads(item.via, item.name, p)

(* Every active controller is collected or still to do, exactly once. *)
Walked(q, todo, entries) ==
  /\ IsSeq(todo) /\ IsSeq(entries)
  /\ \A x \in DOMAIN todo : Placed(q, todo[x])
  /\ \A i \in DOMAIN entries : /\ Placed(q, entries[i]) /\ entries[i].of = "controller"
                               /\ ProfileActive(entries[i].target.profiles, ActiveOf(q))
  /\ \A x, y \in DOMAIN todo : \A p \in Seq(DOMAIN q.modules) : \A c :
       Covers(todo[x], p, c) /\ Covers(todo[y], p, c) => x = y
  /\ \A x \in DOMAIN todo : \A i \in DOMAIN entries :
       ~ Covers(todo[x], entries[i].via, entries[i].nth)
  /\ \A i, j \in DOMAIN entries :
       entries[i].via = entries[j].via /\ entries[i].nth = entries[j].nth => i = j
  /\ \A p \in Seq(DOMAIN q.modules) : PathOf(q, p) =>
       \A c \in DOMAIN ControllersOn(q, p) :
         ProfileActive(ControllersOn(q, p)[c].profiles, ActiveOf(q)) =>
           \/ \E i \in DOMAIN entries : entries[i].via = p /\ entries[i].nth = c
           \/ \E x \in DOMAIN todo : Covers(todo[x], p, c)

ModulesInv ==
  Of("modules") => /\ answer \in [todo : {answer.todo}, entries : {answer.entries}]
                   /\ Walked(question, answer.todo, answer.entries)

(* What the question says of its modules. *)
SoundModules(q) ==
  /\ \A m \in DOMAIN q.modules :
       /\ q.modules[m].prefix \in Seq(Segment) /\ q.modules[m].hooks \in HookLists
       /\ q.modules[m].nested \in Seq(DOMAIN q.modules) /\ IsInjective(q.modules[m].nested)
       /\ q.modules[m].controllers \in Seq(Controllers)
  /\ q.roots \in Seq(DOMAIN q.modules) /\ IsInjective(q.roots)
  /\ RootControllers(q) \in Seq(Controllers)

(* The items of a call: the controllers and the modules of a place. *)
SameItem(a, b) ==
  a.of = b.of /\ IF a.of = "module" THEN a.name = b.name ELSE a.nth = b.nth

Apart(s) == \A x, y \in DOMAIN s : SameItem(s[x], s[y]) => x = y

Both(s, t, u) ==
  /\ IsSeq(u) /\ Apart(u)
  /\ \A z \in DOMAIN u : (\E x \in DOMAIN s : u[z] = s[x]) \/ (\E x \in DOMAIN t : u[z] = t[x])
  /\ \A x \in DOMAIN s : \E z \in DOMAIN u : u[z] = s[x]
  /\ \A x \in DOMAIN t : \E z \in DOMAIN u : u[z] = t[x]

(* What is in u is one of the items or was behind the head, once. *)
Follows(items, todo, u) ==
  /\ IsSeq(u)
  /\ \A z \in DOMAIN u : \/ z \in DOMAIN items /\ u[z] = items[z]
                         \/ \E x \in DOMAIN todo : /\ x # 1 /\ u[z] = todo[x]
                                                   /\ z = Len(items) + (x - 1)
  /\ \A z \in DOMAIN items : \E y \in DOMAIN u : u[y] = items[z]
  /\ \A x \in DOMAIN todo : x # 1 => \E y \in DOMAIN u : u[y] = todo[x]

(* The active controllers on a way, and items that split what one covers. *)
Wanted(q, p, c) ==
  /\ PathOf(q, p) /\ c \in DOMAIN ControllersOn(q, p)
  /\ ProfileActive(ControllersOn(q, p)[c].profiles, ActiveOf(q))

Splits(q, h, items) ==
  /\ IsSeq(items) /\ \A x \in DOMAIN items : Placed(q, items[x])
  /\ \A x, y \in DOMAIN items : \A p \in Seq(DOMAIN q.modules) : \A c :
       Covers(items[x], p, c) /\ Covers(items[y], p, c) => x = y
  /\ \A x \in DOMAIN items : \A p \in Seq(DOMAIN q.modules) : \A c :
       Covers(items[x], p, c) => Covers(h, p, c)
  /\ \A p \in Seq(DOMAIN q.modules) : \A c :
       Wanted(q, p, c) /\ Covers(h, p, c) => \E x \in DOMAIN items : Covers(items[x], p, c)

(* What a place has is covered by its items, each by one. *)
Beneath(w, p) == Len(w) <= Len(p) /\ \A i \in 1..Len(w) : p[i] = w[i]

OfPlace(q, w, inherited, u) ==
  /\ IsSeq(u) /\ Apart(u)
  /\ \A z \in DOMAIN u :
       /\ u[z].via = w /\ u[z].inherited = inherited
       /\ \/ /\ u[z].of = "controller" /\ u[z].nth \in DOMAIN ControllersOn(q, w)
             /\ u[z].target = ControllersOn(q, w)[u[z].nth]
          \/ u[z].of = "module" /\ u[z].name \in ToSet(NamesAt(q, w))
  /\ \A c \in DOMAIN ControllersOn(q, w) : \E z \in DOMAIN u : u[z].of = "controller" /\ u[z].nth = c
  /\ \A m \in ToSet(NamesAt(q, w)) : \E z \in DOMAIN u : u[z].of = "module" /\ u[z].name = m

Batch(q, w, u) ==
  /\ IsSeq(u) /\ \A x \in DOMAIN u : Placed(q, u[x])
  /\ \A x, y \in DOMAIN u : \A p \in Seq(DOMAIN q.modules) : \A c :
       Covers(u[x], p, c) /\ Covers(u[y], p, c) => x = y
  /\ \A x \in DOMAIN u : \A p \in Seq(DOMAIN q.modules) : \A c :
       Covers(u[x], p, c) => Beneath(w, p)
  /\ \A p \in Seq(DOMAIN q.modules) : \A c :
       Wanted(q, p, c) /\ Beneath(w, p) => \E x \in DOMAIN u : Covers(u[x], p, c)

-----------------------------------------------------------------------------
(* The theorems about what is computed *)

(* What holds of every answer so far, whatever is asked. *)
AnswerInv ==
  /\ StaticInv /\ BagInv /\ Base32Inv
  /\ HitsInv /\ MailsInv /\ RecordsInv /\ UploadInv /\ SettingsInv /\ MetricsInv
  /\ PluginsInv /\ CookiesInv
  /\ MacrosInv /\ DecorationsInv /\ RoutesInv /\ ModulesInv
=============================================================================
