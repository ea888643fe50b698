------------------------- MODULE MCRequestPipeline -------------------------
(* Small instances of RequestPipeline for TLC. *)
EXTENDS RequestPipeline

CONSTANT Companion   \* the request that BriefCompanion bounds

(* Lists of two hooks: the order within every list. *)
MCLongLists ==
  [onRequest |-> 1, wrap |-> 2, derive |-> 1, guard |-> 2, intercept |-> 2,
   resolve |-> 1, catch |-> 2, respond |-> 2, after |-> 1]

(* Bound: beside a request with every history, the companion has the few that the
   gauge can tell apart.  A wrapper around metrics() answers or throws, the value of
   the handler is coerced or that fails, the error Response is rendered or that
   fails; all other hooks let it pass, and no interceptor calls next() again. *)
BriefCompanion ==
  LET old == req[Companion]
      new == req'[Companion]
  IN  old # new =>
        /\ did'[Companion]["retry"] = 0
        /\ new.flow # "thrown"
        /\ new.flow # old.flow \/ new.origin # old.origin =>
             old.pc \in {"wrap", "coerce", "render"}
=============================================================================
