----------------------------- MODULE SessionBag -----------------------------
(***************************************************************************)
(* What session() (src/src/session.ts) promises to a client that sends one  *)
(* request at a time: a request works on the data of the client's session,  *)
(* and what it did takes effect when it ends, as a whole or not at all.     *)
(* Only a failed request may leave changed data behind, when the store      *)
(* hands out its own objects.                                               *)
(***************************************************************************)
CONSTANT Values

VARIABLES
  live,          \* the store hands out its own objects
  expires,       \* sessions expire
  exists,        \* the client has a session
  saved,         \* the data of that session, {} if there is none
  busy,          \* a request is handled
  work,          \* the data that request sees, {} if there is none
  dirty,         \* it has changed its session
  out            \* it logs the client out

vars == <<live, expires, exists, saved, busy, work, dirty, out>>

Init ==
  /\ live \in BOOLEAN /\ expires \in BOOLEAN
  /\ exists = FALSE /\ saved = {}
  /\ busy = FALSE /\ work = {}
  /\ dirty = FALSE /\ out = FALSE

Begin ==
  /\ ~ busy
  /\ busy' = TRUE
  /\ work' = saved
  /\ UNCHANGED <<exists, saved, dirty, out>>

(* The request stores a value: it changes the session, and no longer ends it. *)
Put ==
  /\ busy
  /\ \E v \in Values : work' = work \union {v}
  /\ dirty' = TRUE
  /\ out' = FALSE
  /\ UNCHANGED <<exists, saved, busy>>

(* It removes values or renews the id. *)
Drop ==
  /\ busy
  /\ \E new \in SUBSET work : work' = new
  /\ dirty' = TRUE
  /\ UNCHANGED <<exists, saved, busy, out>>

LogOut ==
  /\ busy
  /\ out' = TRUE
  /\ UNCHANGED <<exists, saved, busy, work, dirty>>

(* The request ends; the client has a session (e) with data s. *)
Over(e, s) ==
  /\ busy
  /\ exists' = e
  /\ saved' = s
  /\ busy' = FALSE
  /\ work' = {}
  /\ dirty' = FALSE
  /\ out' = FALSE

Commit == dirty /\ ~ out /\ Over(TRUE, work)

End == out /\ Over(FALSE, {})

(* Nothing was changed, or nothing was removed from no session. *)
Leave ==
  /\ ~ out
  /\ dirty => ~ exists /\ work = {}
  /\ Over(exists, saved)

Fail ==
  \E new \in SUBSET Values :
    /\ new # saved => live /\ exists
    /\ Over(exists, new)

(* A session expires, also while a request that has loaded it is handled. *)
Expire ==
  /\ expires
  /\ \/ Over(FALSE, {})
     \/ /\ exists' = FALSE
        /\ saved' = {}
        /\ UNCHANGED <<busy, work, dirty, out>>

Next ==
  /\ \/ Begin \/ Put \/ Drop \/ LogOut \/ Commit
     \/ End \/ Leave \/ Fail \/ Expire
  /\ UNCHANGED <<live, expires>>

Spec == Init /\ [][Next]_vars
=============================================================================
