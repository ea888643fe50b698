---------------------------- MODULE MCComputations ----------------------------
(* Small sets of questions for every kind of computation. *)
EXTENDS Computations

MCParamSegments == {":x", ":y"}

UpTo(n, S) == UNION {[1..k -> S] : k \in 0..n}
(* A machine takes the calls one by one, so longer lists cover shorter ones, *)
(* but where something is done at the end (base32).                          *)
Runs(n, S) == [1..n -> S]

-----------------------------------------------------------------------------
Patterns == {<<"a">>, <<":x">>, <<":y">>, <<"a", "b">>, <<"a", ":x">>, <<":x", "b">>}
Paths == {<<>>, <<"a">>, <<"c">>, <<"%">>, <<"", "a", "b", "">>, <<"a", "c">>, <<"c", "b">>,
          <<"c", "%">>, <<"%", "b">>, <<"%61", "b">>}
RoutesOf(s) == [i \in DOMAIN s |-> [do |-> "route", pattern |-> s[i].pattern,
                                     method |-> s[i].method, handler |-> i]]
Prefix(p, h) == [do |-> "delegate", prefix |-> p, handler |-> h]

RoutesQuestion(calls, docs) ==
  [kind : {"routes"}, calls : calls, docs : docs, methods : {{"GET", "PUT"}}, paths : {Paths}]

RoutesQuestions ==
  RoutesQuestion({RoutesOf(s) : s \in Runs(3, [pattern : Patterns, method : {"GET", "POST"}])},
                 {NoDocs})
  \cup RoutesQuestion({RoutesOf(s) \o ds :
                        s \in Runs(1, [pattern : Patterns, method : {"GET"}]),
                        ds \in Runs(3, {Prefix(<<"c">>, "short"), Prefix(<<"c", "b">>, "long"),
                                         Prefix(<<>>, "all"), Prefix(<<"a">>, "other")})},
                      {NoDocs, [json |-> <<"a">>, ui |-> <<"c">>]})

Ancestries == <<<<"Base">>, <<"Child", "Base">>, <<"Grand", "Child", "Base">>, <<"Other", "Base">>>>
(* A class is decorated when it is defined, so after its parent. *)
Decorations ==
  {[i \in DOMAIN s |-> [ancestry |-> Ancestries[s[i]], hooks |-> <<i>>]] :
     s \in {t \in Runs(5, 1..4) : \A i, j \in DOMAIN t : i < j => t[i] <= t[j]}}

Hook(name) == [k \in HookKinds |-> <<name>>]
Macros == [m \in {"admin", "audit"} |->
             [k \in HookKinds |-> IF k = "use" THEN <<m, "log">> ELSE <<m>>]]
Controller(of) ==
  [profiles |-> of, base |-> <<>>, hooks |-> Hook("class"), macros |-> Hook("classMacro"),
   routes |-> <<[path |-> <<"r">>, method |-> "GET", hooks |-> Hook("route"),
                 macros |-> Hook("routeMacro")]>>]
ModulesOf(nested, gated) ==
  [m \in {"m1", "m2", "m3"} |->
     [prefix |-> <<m>>, hooks |-> IF m = "m3" THEN NoHooks ELSE Hook(m),
      nested |-> SetToSeq(nested[m]), profiles |-> IF m = gated THEN {"dev"} ELSE {},
      controllers |-> IF m = "m1" THEN <<Controller({"dev"})>>
                      ELSE IF m = "m2" THEN <<Controller({}), Controller({})>> ELSE <<Controller({})>>]]
ModuleQuestion(modules, roots, controllers) ==
  [kind : {"modules"}, roots : roots, modules : modules, controllers : controllers,
   discovered : {<<Controller({}), Controller({"dev"})>>},
   listed : {{}, {"dev"}}, nodeEnv : {{"test"}}]
ModuleQuestions ==
  ModuleQuestion({ModulesOf(n, g) : n \in [{"m1", "m2", "m3"} -> SUBSET {"m1", "m2", "m3"}],
                                    g \in {"m2", "none"}}, {<<"m1", "m2">>}, {<<>>})
  \cup ModuleQuestion({ModulesOf([m \in {"m1", "m2", "m3"} |-> {}], "none")}, {<<>>},
                      {<<>>, <<Controller({})>>})

-----------------------------------------------------------------------------
Plugs == {"csrf", "rateLimit", "authentication", "requestId", "etag", "compression"}
Orders == {s \in UpTo(3, Plugs) : IsInjective(s)}
Credential(scheme, valid, roles) == [scheme |-> scheme, valid |-> valid, roles |-> roles]
Credentials == {{}, {Credential("bearer", TRUE, {"admin"})}, {Credential("key", TRUE, {"admin"})},
                {Credential("bearer", FALSE, {"admin"}), Credential("key", TRUE, {"user"})}}
Lists == [form |-> "list", are |-> {"good"}]
Origins == {Lists, [form |-> "off"], [form |-> "reflect"], [form |-> "text", is |-> "*"],
            [form |-> "text", is |-> "good"]}
Apps(orders, origins) ==
  [plugins : orders, schemes : {<<"bearer", "key">>, <<"bearer">>}, roles : {{"admin"}},
   guard : {"open", "authenticated", "role"}, origins : origins, maxBytes : {9},
   off : {{"x-frame-options"}}]

PluginQuestions ==
  [kind : {"plugins"}, app : Apps(Orders, {Lists}),
   req : [method : {"GET", "POST"}, preflight : {FALSE}, length : {None}, cookie : {"none", "t"},
          sent : {"none", "t", "u"}, accepts : {{"gzip"}}, ifNoneMatch : {None},
          credentials : Credentials, origin : {"bad"}, overLimit : {FALSE}]]
  \cup
  [kind : {"plugins"}, app : Apps(Orders, {Lists}),
   req : [method : {"GET"}, preflight : {FALSE}, length : {None}, cookie : {"none"},
          sent : {"none"}, accepts : {{}, {"gzip"}},
          ifNoneMatch : {None, Body("page"), Gzipped(Body("page"))},
          credentials : {{}, {Credential("bearer", TRUE, {"admin"})}}, origin : {"none"},
          overLimit : BOOLEAN]]
  \cup
  [kind : {"plugins"}, app : Apps({<<>>, <<"etag">>, <<"compression">>}, Origins),
   req : [method : {"OPTIONS"}, preflight : BOOLEAN, length : {None, 9, 10}, cookie : {"none"},
          sent : {"none"}, accepts : {{"gzip"}}, ifNoneMatch : {None}, credentials : {{}},
          origin : {"none", "good", "bad"}, overLimit : {FALSE}]]

CookieCalls ==
  [do : {"set"}, name : {"n", "m"}, value : {";", "%", "%3B", "v"}]
  \cup [do : {"delete"}, name : {"n", "m"}]

Errors == {[kind |-> "other", message |-> "secret"], [kind |-> "other", message |-> "other secret"],
           [kind |-> "http", status |-> 404, message |-> "Not Found"],
           [kind |-> "response", status |-> 303, message |-> "See Other"]}

Key(words, underscores) == [words |-> words, underscores |-> underscores]
Entries ==
  {[i \in DOMAIN s |-> [key |-> s[i], value |-> i]] :
     s \in Runs(3, {Key(<<"DB", "URL">>, <<0, 1>>), Key(<<"DB", "URL">>, <<0, 2>>),
                    Key(<<"DB">>, <<0>>), Key(<<"PORT">>, <<0>>), Key(<<"PORT">>, <<1>>),
                    Key(<<"DB", "1">>, <<0, 1>>), Key(<<"DB", "1">>, <<0, 0>>)})}

Mails == [to : {None, <<>>, <<"t">>}, from : {None, "", "f"}, subject : {"", "s"}, bcc : {None},
          text : BOOLEAN, html : {FALSE}]

-----------------------------------------------------------------------------
File(name, size, type) == [kind |-> "file", name |-> name, size |-> size, type |-> type]
Parts == {[kind |-> "field"], File("f", 1, <<"image", "png">>), File("g", 3, <<"image", "png">>),
          File("f", 1, <<"text", "html">>), File("constructor", 1, <<"image", "png">>)}

Labels == {[l |-> "a"], [x |-> "b"]}
Created(kind, names) ==
  [do |-> "create", kind |-> kind, labelNames |-> names, buckets |-> <<3, 1>>]
Calls(doing, values) == Runs(3, [do : doing, labels : Labels, value : values])
CallQuestions ==
  LET ask(kind, doing, values) ==
        [kind : {"metrics"},
         calls : {<<Created(kind, <<"l">>), c[1], Created("counter", <<>>), c[2], c[3]>> :
                    c \in Calls(doing, values)}] IN
  ask("histogram", {"observe"}, {0, 1, 2, 3, 5}) \cup ask("counter", {"inc"}, {-1, 0, 2})
  \cup ask("gauge", {"set", "inc", "dec"}, {1, 3})

Ops(n) ==
  {[i \in DOMAIN s |-> [do |-> s[i], at |-> i]] :
     s \in Runs(n, {"elevate", "clear", "impersonate", "stop"})}

MCQuestions ==
  [routes |-> RoutesQuestions,
   decorations |-> [kind : {"decorations"}, calls : Decorations],
   macros |-> [kind : {"macros"}, registry : {Macros}, calls : Runs(4, {"admin", "audit", "gone"})],
   modules |-> ModuleQuestions,
   settings |-> [kind : {"settings"}, calls : Entries, prefix : {"", "DB"},
                 required : {{}, {[capital |-> {}, words |-> <<"URL">>]}}],
   mails |-> [kind : {"mails"}, calls : Runs(2, Mails), from : {None, "d"}],
   records |-> [kind : {"records"}, calls : Runs(3, DOMAIN Levels),
                min : DOMAIN Levels \cup {"loud", "WARN", "Error", "toString", "__proto__"},
                id : {"r1"}],
   plugins |-> PluginQuestions,
   cookies |-> [kind : {"cookies"}, calls : Runs(3, CookieCalls)],
   error |-> [kind : {"error"}, err : Errors, problems : BOOLEAN],
   probe |-> [kind : {"probe"}, checks : UpTo(3, {"up", "down", "throws"})],
   hits |-> [kind : {"hits"}, windowMs : {2, 3}, limit : 0..2,
             calls : {s \in Runs(5, 0..5) : \A i, j \in DOMAIN s : i < j => s[i] <= s[j]}],
   upload |-> [kind : {"upload"}, calls : Runs(3, Parts),
               options : [maxFiles : {None, 1, 2}, maxTotalSize : {None, 4},
                          maxFileSize : {None, 2}, allowedTypes : {None, <<<<"image", "*">>>>}]],
   metrics |-> CallQuestions,
   pages |-> [kind : {"pages"}, page : {None, -1, 0, 2}, limit : {None, -1, 0, 1, 3, 9},
              maxLimit : {1, 4}, total : 0..9],
   base32 |-> [kind : {"base32"}, calls : UpTo(5, {0, 1, 170, 255})],
   totp |-> [kind : {"totp"}, key : {"k"}, made : 0..8, used : 0..12, period : {2, 3},
             window : 0..2],
   password |-> [kind : {"password"}, then : {"none", "argon2id", "bcrypt"},
                 now : {"none", "argon2id", "bcrypt"}, password : {"p", "q"}, typed : {"p", "q"}],
   bag |-> [kind : {"bag"}, calls : Ops(4), now : {4, 6}, within : {1, 3}],
   oauth |-> [kind : {"oauth"},
              options : [state : {"s"}, verifier : {"v"},
                         params : {<<>>, [code_challenge |-> <<"plain", "x">>], [state |-> "z"]}],
              config : [secret : {"none", "secret"}, clientAuth : {"basic", "body"}],
              grant : [type : {"code", "refresh"}, verifier : {"v", "w"}], granted : BOOLEAN,
              json : [token : {"none", "t"}, error : {"none", "e"}, description : {"none", "d"}]]]
=============================================================================
