----------------------------- MODULE SseChannel -----------------------------
(***************************************************************************)
(* Server-Sent Events (src/src/sse.ts): a push-driven SseChannel and the    *)
(* streams that sse() builds over it, one iteration of the channel each.    *)
(*                                                                         *)
(* A stream that finds no event leaves a waiter and sleeps; push() hands    *)
(* the event over by resolving the waiter's promise, and the stream goes on *)
(* in a later microtask, when the channel may have changed again.  Events   *)
(* are numbered in the order of the pushes.                                 *)
(***************************************************************************)
EXTENDS Integers, Sequences

CONSTANTS
  Streams,       \* the streams that sse() returned for the channel
  MaxEvents,     \* bound: how many events are pushed
  KeepAlive      \* the option keepAlive is set

ASSUME EventsAssumption == MaxEvents \in Nat
ASSUME OptionsAssumption == KeepAlive \in BOOLEAN

VARIABLES
  queue,         \* events that wait for a stream
  waiters,       \* streams that wait for an event
  closed,        \* close() was called
  pushed,        \* history: how many events were accepted
  stream,        \* stream[s]: where its iteration is, the event it was handed (0: the
                 \* end), whether its client is there, whether its heartbeat is on
  sent,          \* history: sent[s] is what was written to the client of s
  uncaught       \* a heartbeat threw

vars == <<queue, waiters, closed, pushed, stream, sent, uncaught>>

Stream == [pc : {"new", "next", "waiting", "handed", "done"}, event : 0..MaxEvents,
           connected : BOOLEAN, heartbeat : BOOLEAN]

Init ==
  /\ queue = <<>>
  /\ waiters = <<>>
  /\ closed = FALSE
  /\ pushed = 0
  /\ stream = [s \in Streams |-> [pc |-> "new", event |-> 0,
                                  connected |-> TRUE, heartbeat |-> FALSE]]
  /\ sent = [s \in Streams |-> <<>>]
  /\ uncaught = FALSE

-----------------------------------------------------------------------------
(* Mutant of Push: an event is queued although a stream waits. *)
PushQueuesAlways ==
  /\ ~ closed
  /\ pushed < MaxEvents
  /\ pushed' = pushed + 1
  /\ queue' = Append(queue, pushed')
  /\ UNCHANGED <<waiters, closed, stream, sent, uncaught>>

(* push(): the first waiter gets the event, or else it is queued.  Nothing happens
   once the channel is closed. *)
Push ==
  /\ ~ closed
  /\ pushed < MaxEvents
  /\ pushed' = pushed + 1
  /\ IF waiters = <<>>
     THEN queue' = Append(queue, pushed') /\ UNCHANGED <<waiters, stream>>
     ELSE /\ stream' = [stream EXCEPT ![Head(waiters)].pc = "handed",
                                      ![Head(waiters)].event = pushed']
          /\ waiters' = Tail(waiters)
          /\ UNCHANGED queue
  /\ UNCHANGED <<closed, sent, uncaught>>

(* Mutants of Close: the waiters are forgotten; the queue is dropped. *)
CloseForgetsWaiters ==
  /\ ~ closed
  /\ closed' = TRUE
  /\ waiters' = <<>>
  /\ UNCHANGED <<queue, pushed, stream, sent, uncaught>>
CloseDropsQueue ==
  /\ ~ closed
  /\ closed' = TRUE
  /\ queue' = <<>>
  /\ stream' = [s \in Streams |-> IF stream[s].pc = "waiting"
                                  THEN [stream[s] EXCEPT !.pc = "handed", !.event = 0]
                                  ELSE stream[s]]
  /\ waiters' = <<>>
  /\ UNCHANGED <<pushed, sent, uncaught>>

(* close(): every waiter is told that this is the end. *)
Close ==
  /\ ~ closed
  /\ closed' = TRUE
  /\ stream' = [s \in Streams |-> IF \E i \in 1..Len(waiters) : waiters[i] = s
                                  THEN [stream[s] EXCEPT !.pc = "handed", !.event = 0]
                                  ELSE stream[s]]
  /\ waiters' = <<>>
  /\ UNCHANGED <<queue, pushed, sent, uncaught>>

(* sse(): the stream starts, and with it the heartbeat. *)
Start(s) ==
  /\ stream[s].pc = "new"
  /\ stream' = [stream EXCEPT ![s].pc = "next", ![s].heartbeat = KeepAlive]
  /\ UNCHANGED <<queue, waiters, closed, pushed, sent, uncaught>>

(* Mutant of Finish: the heartbeat goes on. *)
FinishKeepsHeartbeat(s) ==
  /\ stream' = [stream EXCEPT ![s].pc = "done"]
  /\ UNCHANGED sent

(* The loop of the stream ends: the finally block clears the heartbeat. *)
Finish(s) ==
  /\ stream' = [stream EXCEPT ![s].pc = "done", ![s].heartbeat = FALSE]
  /\ UNCHANGED sent

(* Event e is written to the client.  Without one the write throws, which ends
   the loop too. *)
Write(s, e) ==
  IF stream[s].connected
  THEN /\ sent' = [sent EXCEPT ![s] = Append(@, e)]
       /\ stream' = [stream EXCEPT ![s].pc = "next", ![s].event = 0]
  ELSE Finish(s)

(* Mutant of TakeQueued: the newest event is taken. *)
TakeNewest(s) ==
  /\ stream[s].pc = "next"
  /\ queue # <<>>
  /\ queue' = SubSeq(queue, 1, Len(queue) - 1)
  /\ Write(s, queue[Len(queue)])
  /\ UNCHANGED <<waiters, closed, pushed, uncaught>>

(* The iteration takes the first event of the queue. *)
TakeQueued(s) ==
  /\ stream[s].pc = "next"
  /\ queue # <<>>
  /\ queue' = Tail(queue)
  /\ Write(s, Head(queue))
  /\ UNCHANGED <<waiters, closed, pushed, uncaught>>

(* Mutant of End: the iteration ends with events left in the queue. *)
EndUndrained(s) ==
  /\ stream[s].pc = "next"
  /\ closed
  /\ Finish(s)
  /\ UNCHANGED <<queue, waiters, closed, pushed, uncaught>>

(* The channel is closed and drained: the iteration ends. *)
End(s) ==
  /\ stream[s].pc = "next"
  /\ queue = <<>>
  /\ closed
  /\ Finish(s)
  /\ UNCHANGED <<queue, waiters, closed, pushed, uncaught>>

(* There is no event: the iteration leaves a waiter and sleeps. *)
Sleep(s) ==
  /\ stream[s].pc = "next"
  /\ queue = <<>>
  /\ ~ closed
  /\ waiters' = Append(waiters, s)
  /\ stream' = [stream EXCEPT ![s].pc = "waiting"]
  /\ UNCHANGED <<queue, closed, pushed, sent, uncaught>>

(* The iteration goes on with what it was handed. *)
Wake(s) ==
  /\ stream[s].pc = "handed"
  /\ IF stream[s].event = 0 THEN Finish(s) ELSE Write(s, stream[s].event)
  /\ UNCHANGED <<queue, waiters, closed, pushed, uncaught>>

(* The client goes away.  sse() is not told. *)
Disconnect(s) ==
  /\ stream[s].connected
  /\ stream[s].pc # "done"
  /\ stream' = [stream EXCEPT ![s].connected = FALSE]
  /\ UNCHANGED <<queue, waiters, closed, pushed, sent, uncaught>>

(* The heartbeat writes a comment.  It throws, in a timer, when the stream can no
   longer be written to; otherwise nothing changes. *)
Heartbeat(s) ==
  /\ stream[s].heartbeat
  /\ ~ stream[s].connected \/ stream[s].pc = "done"
  /\ uncaught' = TRUE
  /\ UNCHANGED <<queue, waiters, closed, pushed, stream, sent>>

Iterate(s) == Start(s) \/ TakeQueued(s) \/ End(s) \/ Sleep(s) \/ Wake(s)

Next ==
  \/ Push \/ Close
  \/ \E s \in Streams : Iterate(s) \/ Disconnect(s) \/ Heartbeat(s)

Spec == Init /\ [][Next]_vars

(* Microtasks run: an iteration that can go on does. *)
FairSpec == Spec /\ \A s \in Streams : WF_vars(Iterate(s))

-----------------------------------------------------------------------------
(* Properties. *)

(* Every variable has its type: what a stream was handed (next() in sse.ts) is an
   event that was pushed, or the end. *)
TypeOK ==
  /\ queue \in Seq(1..MaxEvents)
  /\ waiters \in Seq(Streams)
  /\ closed \in BOOLEAN
  /\ pushed \in 0..MaxEvents
  /\ stream \in [Streams -> Stream]
  /\ sent \in [Streams -> Seq(1..MaxEvents)]
  /\ uncaught \in BOOLEAN

(* Streams and events wait for each other at no time: no wake-up is lost, and no
   stream sleeps on a closed channel. *)
NoLostWakeup ==
  /\ queue = <<>> \/ waiters = <<>>
  /\ closed => waiters = <<>>
  /\ \A s \in Streams : stream[s].pc = "waiting" <=> \E i \in 1..Len(waiters) : waiters[i] = s

(* Some client went away. *)
SomeoneLeft == \E s \in Streams : ~ stream[s].connected

(* Where event e is. *)
Places(e) ==
  {<<"queue", i>> : i \in {i \in 1..Len(queue) : queue[i] = e}}
    \union {<<"handed", s>> : s \in {s \in Streams : stream[s].pc = "handed" /\ stream[s].event = e}}
    \union UNION {{<<s, i>> : i \in {i \in 1..Len(sent[s]) : sent[s][i] = e}} : s \in Streams}

(* While no client leaves, every accepted event is in exactly one place: queued,
   handed to one stream, or sent to one client. *)
EachEventOnce ==
  ~ SomeoneLeft =>
    \A e \in 1..pushed : \E place \in Places(e) : Places(e) = {place}

(* Every client gets its events in the order of the pushes ("buffered in FIFO
   order", push()), although what a stream was handed overtakes the queue. *)
SentInOrder ==
  \A s \in Streams :
    /\ \A i, k \in 1..Len(sent[s]) : i < k => sent[s][i] < sent[s][k]
    /\ stream[s].pc = "handed" /\ stream[s].event # 0 =>
         \A i \in 1..Len(sent[s]) : sent[s][i] < stream[s].event
    /\ \A i \in 1..Len(sent[s]), k \in 1..Len(queue) : sent[s][i] < queue[k]

(* Between them: the channel loses, doubles and reorders nothing. *)
InOrderOnce == EachEventOnce /\ SentInOrder

(* "the stream drains any queued events before ending" (SseChannel). *)
DrainsBeforeEnd ==
  \A s \in Streams : stream[s].pc = "done" /\ stream[s].connected => closed /\ queue = <<>>

(* A heartbeat throws only after a client left: the one of a stream that ended by
   itself is gone.  Of a client that left it says nothing (Heartbeat does throw then). *)
HeartbeatIsSafe == uncaught => SomeoneLeft

(* While no client leaves, every accepted event is sent; and closing the channel ends
   every stream, of those who left too. *)
EventsArrive ==
  /\ \A e \in 1..MaxEvents :
       pushed >= e ~> \/ SomeoneLeft
                       \/ \E s \in Streams : \E i \in 1..Len(sent[s]) : sent[s][i] = e
  /\ closed ~> \A s \in Streams : stream[s].pc = "done"

(* What FifoChannel sees of the streams: the event each one was handed, whose
   client is there, and which ended by themselves. *)
Hand == [s \in Streams |-> IF stream[s].pc = "handed" THEN stream[s].event ELSE 0]
Here == [s \in Streams |-> stream[s].connected]
Ended == {s \in Streams : stream[s].pc = "done" /\ stream[s].connected}

(* The channel with its streams implements a FIFO channel, event by event: each one
   leaves the channel in the order of the pushes and reaches one client, unless that
   client has left, and a stream ends by itself only on a closed and drained channel. *)
Fifo == INSTANCE FifoChannel WITH
          Readers <- Streams, last <- pushed, waiting <- queue, hand <- Hand,
          got <- sent, here <- Here, open <- ~ closed, ended <- Ended
ImplementsFifo == Fifo!Spec

(* "Iteration stops when the source completes or the client disconnects" (sse()): a
   stream whose client has left ends.  FALSE: nothing tells a stream that sleeps. *)
LeaverStops == \A s \in Streams : ~ stream[s].connected ~> stream[s].pc = "done"
=============================================================================
