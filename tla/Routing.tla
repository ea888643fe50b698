------------------------------- MODULE Routing -------------------------------
(***************************************************************************)
(* How src/app.ts turns decorated classes and modules into routes, and how *)
(* dispatch() picks one for a request.  Everything here is computed while  *)
(* the application is built or, for Dispatch, in one synchronous step.     *)
(*                                                                         *)
(* A path is the sequence of its segments; in a pattern some of them are   *)
(* parameters, in a request one may be percent-encoded.  Guards, derivers, *)
(* interceptors and error handlers are names.                              *)
(***************************************************************************)
EXTENDS Values, Naturals, Sequences, SequencesExt, FiniteSets

CONSTANT ParamSegments  \* the segments ":name" of the patterns

-----------------------------------------------------------------------------
(* Paths *)

IsParam(s) == s \in ParamSegments

(* normalizePath and segmentsOf keep the segments that are not "", which is *)
(* what "//" or a trailing "/" leaves.                                      *)
NormalizePath(raw) ==
  LET kept == {i \in DOMAIN raw : raw[i] # ""} IN
  [n \in 1..Cardinality(kept) |-> raw[CHOOSE i \in kept : Rank(i, kept) = n]]

JoinPaths(prefix, path) == NormalizePath(prefix \o path)

(* decodeURIComponent: "%61" reads "a"; "%" alone makes it throw. *)
Malformed == "%"
Decoded(part) == IF part = "%61" THEN "a" ELSE part

-----------------------------------------------------------------------------
(* The route table: patterns in the order of their first registration *)

IsDynamic(pattern) == \E i \in DOMAIN pattern : IsParam(pattern[i])

EmptyMethods == [m \in {} |-> ""]
SetMethod(methods, m, handler) ==
  [x \in DOMAIN methods \cup {m} |-> IF x = m THEN handler ELSE methods[x]]

(* Mutant of AddRoute: a pattern registered again starts over. *)
AddRouteAfresh(table, r) ==
  Append(SelectSeq(table, LAMBDA e : e.pattern # r.pattern),
         [pattern |-> r.pattern, methods |-> SetMethod(EmptyMethods, r.method, r.handler)])
(* A later registration of the same pattern and method replaces the first. *)
AddRoute(table, r) ==
  IF \E i \in DOMAIN table : table[i].pattern = r.pattern
  THEN [i \in DOMAIN table |->
          IF table[i].pattern = r.pattern
          THEN [table[i] EXCEPT !.methods = SetMethod(@, r.method, r.handler)]
          ELSE table[i]]
  ELSE Append(table, [pattern |-> r.pattern,
                      methods |-> SetMethod(EmptyMethods, r.method, r.handler)])

(* staticRoutes.get: the pattern text is the path text. *)
StaticMatch(table, path) ==
  SelectInSeq(table, LAMBDA e : ~ IsDynamic(e.pattern) /\ e.pattern = path)

(* One iteration of matchDynamic: segments are compared from the left, and *)
(* a parameter is decoded before the literals after it are compared.       *)
Compare(pattern, path) ==
  LET differs == {i \in DOMAIN path : ~ IsParam(pattern[i]) /\ pattern[i] # path[i]}
      breaks == {i \in DOMAIN path : IsParam(pattern[i]) /\ path[i] = Malformed} IN
  IF Len(pattern) # Len(path) THEN "no"
  ELSE IF \E i \in breaks : \A j \in differs : i < j THEN "throws"
  ELSE IF differs = {} THEN "matches" ELSE "no"

DynamicMatch(table, path) ==
  SelectInSeq(table, LAMBDA e : IsDynamic(e.pattern) /\ Compare(e.pattern, path) # "no")

(* A later segment of the same name overwrites an earlier one. *)
ParamsOf(pattern, path) ==
  LET at(n) == {i \in DOMAIN path : pattern[i] = n}
      last(n) == CHOOSE i \in at(n) : \A j \in at(n) : j <= i IN
  [n \in ParamSegments \cap Range(pattern) |->
     Decoded(path[last(n)])]

-----------------------------------------------------------------------------
(* Delegates *)

(* A prefix of n one-letter segments is 2n characters, "/" is one. *)
PrefixLength(prefix) == IF prefix = <<>> THEN 1 ELSE 2 * Len(prefix)

(* delegate(): push, then a stable sort by descending prefix length. *)
AddDelegate(delegates, d) ==
  LET shorter == SelectInSeq(delegates, LAMBDA x : PrefixLength(x.prefix) < PrefixLength(d.prefix)) IN
  IF shorter = 0 THEN Append(delegates, d) ELSE InsertAt(delegates, shorter, d)

MatchDelegate(delegates, path) ==
  SelectInSeq(delegates, LAMBDA d : IsPrefix(d.prefix, path))

-----------------------------------------------------------------------------
(* dispatch(), after the onRequest hooks *)

(* docs(): a request hook that compares the raw path, whatever the method. *)
NoDocs == [json |-> <<"?">>, ui |-> <<"?">>]  \* "?" is a segment of no path
DocsHook(docs, rawPath) ==
  IF rawPath = docs.json THEN "spec" ELSE IF rawPath = docs.ui THEN "ui" ELSE "pass"

Dispatch(delegates, table, method, rawPath) ==
  LET path == NormalizePath(rawPath)
      owner == MatchDelegate(delegates, path)
      static == StaticMatch(table, path)
      dynamic == DynamicMatch(table, path)
      found == IF static # 0 THEN static ELSE dynamic IN
  IF owner # 0 THEN
    [to |-> "delegate", handler |-> delegates[owner].handler,
     sub |-> SubSeq(path, Len(delegates[owner].prefix) + 1, Len(path))]
  ELSE IF found = 0 THEN [to |-> "404"]
  ELSE IF static = 0 /\ Compare(table[found].pattern, path) = "throws" THEN [to |-> "throws"]
  ELSE IF method \notin DOMAIN table[found].methods
  THEN [to |-> "405", allow |-> DOMAIN table[found].methods]
  ELSE [to |-> "handler", handler |-> table[found].methods[method],
        params |-> IF static # 0 THEN ParamsOf(<<>>, <<>>)
                   ELSE ParamsOf(table[found].pattern, path)]

-----------------------------------------------------------------------------
(* Decorators: one list per class and kind of hook, found by the prototype *)
(* chain of the class metadata, so a subclass pushes onto the list it      *)
(* inherits.                                                               *)

(* A bag maps each class to the owner of the list it sees, or to "none". *)
NoBags == [owner |-> [c \in {} |-> ""], lists |-> [c \in {} |-> <<>>]]

(* Mutant of SeenBy: only the class's own bag is looked at. *)
SeenByOwn(bags, ancestry) ==
  IF ancestry[1] \in DOMAIN bags.owner THEN bags.owner[ancestry[1]] ELSE "none"
(* ancestry: the class, its parent, ... *)
SeenBy(bags, ancestry) ==
  LET i == SelectInSeq(ancestry, LAMBDA c : c \in DOMAIN bags.owner) IN
  IF i = 0 THEN "none" ELSE bags.owner[ancestry[i]]

ListOf(bags, ancestry) ==
  LET o == SeenBy(bags, ancestry) IN IF o = "none" THEN <<>> ELSE bags.lists[o]

(* use, derive, resolve, intercept, catchError and the verbs on a class. *)
Decorate(bags, d) ==
  LET c == d.ancestry[1]
      o == IF SeenBy(bags, d.ancestry) = "none" THEN c ELSE SeenBy(bags, d.ancestry)
      put(f, x, v) == [y \in DOMAIN f \cup {x} |-> IF y = x THEN v ELSE f[y]] IN
  [owner |-> put(bags.owner, c, o),
   lists |-> put(bags.lists, o, ListOf(bags, d.ancestry) \o d.hooks)]

(* One iteration of expandMacros: the hooks of each kind are pushed onto   *)
(* those of the macros before; an unknown name throws.                     *)
HookKinds == {"use", "derive", "intercept", "catchError"}
NoHooks == [k \in HookKinds |-> <<>>]
Unexpanded == [throws |-> FALSE, hooks |-> NoHooks]
ExpandMacro(merged, registry, name) ==
  IF merged.throws \/ name \notin DOMAIN registry
  THEN [throws |-> TRUE, hooks |-> NoHooks]
  ELSE [throws |-> FALSE, hooks |-> [k \in HookKinds |-> merged.hooks[k] \o registry[name][k]]]

-----------------------------------------------------------------------------
(* Modules *)

RootContext == [prefix |-> <<>>, hooks |-> NoHooks]

(* profileActive: not gated, or gated by an active profile. *)
ProfileActive(profiles, active) == profiles = {} \/ profiles \cap active # {}

(* envProfiles: TURNOVER_PROFILES, else NODE_ENV. *)
EnvProfiles(listed, nodeEnv) == IF listed # {} THEN listed ELSE nodeEnv

(* Mutant of Inherit: a module's own hooks replace those it inherits. *)
InheritOwn(parent, m) ==
  [prefix |-> JoinPaths(parent.prefix, m.prefix),
   hooks |-> [k \in HookKinds |-> IF m.hooks[k] = <<>> THEN parent.hooks[k] ELSE m.hooks[k]]]
Inherit(parent, m) ==
  [prefix |-> JoinPaths(parent.prefix, m.prefix),
   hooks |-> [k \in HookKinds |-> parent.hooks[k] \o m.hooks[k]]]

(* What walkModule has before it: modules to walk and controllers to       *)
(* collect, each with what it inherits and `via`, the modules that are     *)
(* being walked above it (stack, in the order of the recursion).           *)
ModuleItems(names, inherited, via) ==
  [i \in DOMAIN names |->
     [of |-> "module", name |-> names[i], inherited |-> inherited, via |-> via]]
ControllerItems(controllers, inherited, via) ==
  [i \in DOMAIN controllers |->
     [of |-> "controller", nth |-> i, target |-> controllers[i],
      inherited |-> inherited, via |-> via]]

(* createApp: the modules, then the explicit controllers; if neither is    *)
(* given, every controller that was discovered.                            *)
RootControllers(q) == IF q.roots = <<>> /\ q.controllers = <<>> THEN q.discovered ELSE q.controllers
MountEntries(q) ==
  ModuleItems(q.roots, RootContext, <<>>) \o ControllerItems(RootControllers(q), RootContext, <<>>)

(* What a call of walkModule puts in the place of the module: nothing if   *)
(* the module is among its own ancestors or its profile is not active,     *)
(* else its controllers, then the modules nested in it.                    *)
WalkModule(modules, item, active) ==
  LET m == modules[item.name]
      inherited == Inherit(item.inherited, m)
      via == Append(item.via, item.name) IN
  IF item.name \in ToSet(item.via) \/ ~ ProfileActive(m.profiles, active) THEN <<>>
  ELSE ControllerItems(m.controllers, inherited, via) \o ModuleItems(m.nested, inherited, via)

(* mount(): broadest first, except for error handlers; class macros come   *)
(* after the class's own hooks, route macros after the route's.            *)
HooksOf(kind, inherited, class, classMacro, route, routeMacro) ==
  IF kind = "catchError"
  THEN route[kind] \o routeMacro[kind] \o class[kind] \o classMacro[kind] \o inherited[kind]
  ELSE inherited[kind] \o class[kind] \o classMacro[kind] \o route[kind] \o routeMacro[kind]

Mount(entry) ==
  LET c == entry.target IN
  [r \in DOMAIN c.routes |->
     LET route == c.routes[r] IN
     [pattern |-> JoinPaths(entry.inherited.prefix, c.base \o route.path),
      method |-> route.method,
      hooks |-> [k \in HookKinds |->
        HooksOf(k, entry.inherited.hooks, c.hooks, c.macros, route.hooks, route.macros)]]]
=============================================================================
