---------------------------- MODULE FifoChannel -----------------------------
(***************************************************************************)
(* What SseChannel (src/src/sse.ts) promises to the streams that read it:   *)
(* the events pushed before the channel is closed leave it in the order of  *)
(* the pushes, each one to one reader, and a reader ends only when the      *)
(* channel is closed and drained.  An event is lost only to a reader that   *)
(* has left.  Events are numbered in the order of the pushes.               *)
(***************************************************************************)
EXTENDS Naturals, Sequences

CONSTANT Readers

VARIABLES
  last,          \* how many events were accepted: the number of the latest one
  waiting,       \* the events that no reader has taken, the oldest first
  hand,          \* hand[r]: the event r was handed and has not received, 0 if none
  got,           \* got[r]: the events r received
  here,          \* here[r]: r has not left
  open,          \* the channel is open
  ended          \* the readers whose iteration has ended by itself

vars == <<last, waiting, hand, got, here, open, ended>>

Init ==
  /\ last = 0
  /\ waiting = <<>>
  /\ hand = [r \in Readers |-> 0]
  /\ got = [r \in Readers |-> <<>>]
  /\ here = [r \in Readers |-> TRUE]
  /\ open = TRUE
  /\ ended = {}

(* An event is accepted.  It waits behind the others, or, when there are none, it
   is handed to a reader. *)
Send ==
  /\ open
  /\ last' = last + 1
  /\ \/ /\ waiting' = Append(waiting, last')
        /\ UNCHANGED hand
     \/ /\ waiting = <<>>
        /\ \E r \in Readers \ ended : hand[r] = 0 /\ hand' = [hand EXCEPT ![r] = last']
        /\ UNCHANGED waiting
  /\ UNCHANGED <<got, here, open, ended>>

(* Event e reaches r, unless r has left. *)
Reach(r, e) == got' = IF here[r] THEN [got EXCEPT ![r] = Append(got[r], e)] ELSE got

(* A reader receives what it was handed. *)
Receive(r) ==
  /\ hand[r] # 0
  /\ hand' = [hand EXCEPT ![r] = 0]
  /\ Reach(r, hand[r])
  /\ UNCHANGED <<last, waiting, here, open, ended>>

(* A reader that was handed nothing takes the oldest event. *)
Take(r) ==
  /\ waiting # <<>>
  /\ r \notin ended
  /\ hand[r] = 0
  /\ waiting' = Tail(waiting)
  /\ Reach(r, Head(waiting))
  /\ UNCHANGED <<last, hand, here, open, ended>>

Leave(r) ==
  /\ r \notin ended
  /\ here' = [here EXCEPT ![r] = FALSE]
  /\ UNCHANGED <<last, waiting, hand, got, open, ended>>

Close ==
  /\ open
  /\ open' = FALSE
  /\ UNCHANGED <<last, waiting, hand, got, here, ended>>

End(r) ==
  /\ ~ open
  /\ waiting = <<>>
  /\ here[r]
  /\ hand[r] = 0
  /\ ended' = ended \union {r}
  /\ UNCHANGED <<last, waiting, hand, got, here, open>>

Next ==
  \/ Send \/ Close
  \/ \E r \in Readers : Receive(r) \/ Take(r) \/ Leave(r) \/ End(r)

Spec == Init /\ [][Next]_vars
=============================================================================
