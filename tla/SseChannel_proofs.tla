-------------------------- MODULE SseChannel_proofs --------------------------
(* Proofs about SseChannel, for any streams and events. *)
EXTENDS SseChannel, TLAPS

(* The waiters are the streams that wait, each one once. *)
WaitInv ==
  /\ \A i \in 1..Len(waiters) : stream[waiters[i]].pc = "waiting"
  /\ \A i, k \in 1..Len(waiters) : waiters[i] = waiters[k] => i = k
  /\ \A s \in Streams : stream[s].pc = "waiting" => \E i \in 1..Len(waiters) : waiters[i] = s

RendezvousInv == (queue = <<>> \/ waiters = <<>>) /\ (closed => waiters = <<>>)

(* A stream that was told of the end, or that ended with its client there, leaves
   nothing behind. *)
EndInv ==
  \A s \in Streams :
    \/ stream[s].pc = "handed" /\ stream[s].event = 0
    \/ stream[s].pc = "done" /\ stream[s].connected
    => closed /\ queue = <<>>

IndInv == TypeOK /\ WaitInv /\ RendezvousInv /\ EndInv

-----------------------------------------------------------------------------
(* The parts of a queue that is not empty. *)
LEMMA Parts ==
  ASSUME NEW S, NEW q \in Seq(S), q # <<>>
  PROVE  Head(q) \in S /\ Tail(q) \in Seq(S) /\ Len(Tail(q)) = Len(q) - 1
OBVIOUS

(* What becomes of the record of stream s, and of the invariant, if nothing else
   changes the streams. *)
LEMMA Changed ==
  ASSUME TypeOK, NEW s \in Streams, NEW rec \in Stream,
         stream' = [stream EXCEPT ![s] = rec]
  PROVE  /\ stream' \in [Streams -> Stream] /\ stream'[s] = rec
         /\ \A o \in Streams \ {s} : stream'[o] = stream[o]
BY DEF TypeOK

LEMMA Finished ==
  ASSUME TypeOK, NEW s \in Streams, Finish(s)
  PROVE  /\ stream' \in [Streams -> Stream]
         /\ stream'[s].pc = "done" /\ stream'[s].connected = stream[s].connected
         /\ \A o \in Streams \ {s} : stream'[o] = stream[o]
         /\ sent' = sent
<1>1. stream[s] \in Stream
  BY DEF TypeOK
<1>2. PICK rec : rec = [stream[s] EXCEPT !.pc = "done", !.heartbeat = FALSE]
  OBVIOUS
<1>3. rec \in Stream /\ rec.pc = "done" /\ rec.connected = stream[s].connected
  BY <1>1, <1>2 DEF Stream
<1>4. stream' = [stream EXCEPT ![s] = rec] /\ sent' = sent
  BY <1>2 DEF Finish, TypeOK
<1>. QED
  BY <1>3, <1>4, Changed

LEMMA Wrote ==
  ASSUME TypeOK, NEW s \in Streams, NEW e \in 1..MaxEvents, Write(s, e)
  PROVE  /\ stream' \in [Streams -> Stream] /\ sent' \in [Streams -> Seq(1..MaxEvents)]
         /\ stream'[s].pc = "next" \/ (stream'[s].pc = "done" /\ ~ stream'[s].connected)
         /\ \A o \in Streams \ {s} : stream'[o] = stream[o]
<1>1. stream[s] \in Stream /\ sent[s] \in Seq(1..MaxEvents)
  BY DEF TypeOK
<1>2. CASE stream[s].connected
  <2>1. PICK rec : rec = [stream[s] EXCEPT !.pc = "next", !.event = 0]
    OBVIOUS
  <2>2. rec \in Stream /\ rec.pc = "next"
    <3>1. 0 \in 0..MaxEvents
      BY EventsAssumption
    <3>. QED
      BY <1>1, <2>1, <3>1 DEF Stream
  <2>3. stream' = [stream EXCEPT ![s] = rec]
    BY <1>2, <2>1 DEF Write, TypeOK
  <2>4. sent' = [sent EXCEPT ![s] = Append(sent[s], e)]
    BY <1>2 DEF Write, TypeOK
  <2>5. Append(sent[s], e) \in Seq(1..MaxEvents)
    BY <1>1
  <2>6. sent' \in [Streams -> Seq(1..MaxEvents)]
    BY <2>4, <2>5 DEF TypeOK
  <2>7. /\ stream' \in [Streams -> Stream] /\ stream'[s] = rec
        /\ \A o \in Streams \ {s} : stream'[o] = stream[o]
    BY <2>2, <2>3, Changed
  <2>8. stream'[s].pc = "next"
    BY <2>2, <2>7
  <2>. QED
    BY <2>6, <2>7, <2>8
<1>3. CASE ~ stream[s].connected
  BY <1>3, Finished DEF Write, TypeOK
<1>. QED
  BY <1>2, <1>3

(* A step of stream s that neither waits before nor after it. *)
LEMMA StreamPreserves ==
  ASSUME IndInv, NEW s \in Streams,
         stream' \in [Streams -> Stream], sent' \in [Streams -> Seq(1..MaxEvents)],
         stream[s].pc # "waiting", stream'[s].pc # "waiting",
         \A o \in Streams \ {s} : stream'[o] = stream[o],
         queue' \in Seq(1..MaxEvents), queue = <<>> => queue' = <<>>,
         UNCHANGED <<waiters, closed, pushed, uncaught>>,
         \/ stream'[s].pc = "handed" /\ stream'[s].event = 0
         \/ stream'[s].pc = "done" /\ stream'[s].connected
         => closed /\ queue = <<>>
  PROVE  IndInv'
<1> USE DEF IndInv
<1>1. TypeOK'
  BY DEF TypeOK
<1>2. WaitInv'
  <2>1. \A i \in 1..Len(waiters) : waiters[i] \in Streams /\ waiters[i] # s
    BY DEF WaitInv, TypeOK
  <2>. QED
    BY <2>1 DEF WaitInv
<1>3. RendezvousInv'
  BY DEF RendezvousInv
<1>4. EndInv'
  BY DEF EndInv
<1>. QED
  BY <1>1, <1>2, <1>3, <1>4

LEMMA InitEstablishes == Init => IndInv
<1> SUFFICES ASSUME Init PROVE IndInv
  OBVIOUS
<1>1. [pc |-> "new", event |-> 0, connected |-> TRUE, heartbeat |-> FALSE] \in Stream
  BY EventsAssumption DEF Stream
<1>2. <<>> \in Seq(1..MaxEvents) /\ <<>> \in Seq(Streams) /\ Len(<<>>) = 0
  OBVIOUS
<1>3. TypeOK
  <2>1. stream \in [Streams -> Stream]
    BY <1>1 DEF Init
  <2>2. sent \in [Streams -> Seq(1..MaxEvents)]
    BY <1>2 DEF Init
  <2>3. queue \in Seq(1..MaxEvents) /\ waiters \in Seq(Streams)
    BY <1>2 DEF Init
  <2>4. closed \in BOOLEAN /\ uncaught \in BOOLEAN
    BY DEF Init
  <2>5. pushed \in 0..MaxEvents
    BY EventsAssumption DEF Init
  <2>. QED
    BY <2>1, <2>2, <2>3, <2>4, <2>5 DEF TypeOK
<1>4. WaitInv /\ RendezvousInv /\ EndInv
  BY <1>2 DEF Init, WaitInv, RendezvousInv, EndInv
<1>. QED
  BY <1>3, <1>4 DEF IndInv

LEMMA PushPreserves == IndInv /\ Push => IndInv'
<1> SUFFICES ASSUME IndInv, Push PROVE IndInv'
  OBVIOUS
<1> USE DEF IndInv
<1>1. /\ ~ closed /\ pushed' = pushed + 1 /\ pushed' \in 1..MaxEvents
      /\ UNCHANGED <<closed, sent, uncaught>>
  BY EventsAssumption DEF Push, TypeOK
<1>2. CASE waiters = <<>>
  <2>1. queue' = Append(queue, pushed') /\ UNCHANGED <<waiters, stream>>
    BY <1>2 DEF Push
  <2>2. queue' \in Seq(1..MaxEvents)
    BY <1>1, <2>1 DEF TypeOK
  <2>3. TypeOK'
    BY <1>1, <2>1, <2>2 DEF TypeOK
  <2>4. WaitInv' /\ RendezvousInv'
    BY <1>1, <1>2, <2>1 DEF WaitInv, RendezvousInv
  <2>5. EndInv'
    BY <1>1, <2>1 DEF EndInv
  <2>. QED
    BY <2>3, <2>4, <2>5
<1>3. CASE waiters # <<>>
  <2> DEFINE s == Head(waiters)
  <2>1. /\ s \in Streams /\ s = waiters[1] /\ Len(waiters) \in Nat \ {0}
        /\ Tail(waiters) \in Seq(Streams) /\ Len(Tail(waiters)) = Len(waiters) - 1
        /\ \A i \in 1..Len(Tail(waiters)) : Tail(waiters)[i] = waiters[i + 1]
    BY <1>3 DEF TypeOK
  <2>2. PICK rec \in Stream : /\ rec.pc = "handed" /\ rec.event = pushed'
                             /\ stream' = [stream EXCEPT ![s] = rec]
    <3>1. stream[s] \in Stream /\ pushed' \in 0..MaxEvents
      BY <1>1, <2>1 DEF TypeOK
    <3>2. [stream[s] EXCEPT !.pc = "handed", !.event = pushed'] \in Stream
      BY <3>1 DEF Stream
    <3>3. stream' = [stream EXCEPT ![s] = [stream[s] EXCEPT !.pc = "handed",
                                                            !.event = pushed']]
      BY <1>3 DEF Push, TypeOK
    <3>. QED
      BY <3>1, <3>2, <3>3 DEF Stream
  <2>3. /\ stream' \in [Streams -> Stream] /\ stream'[s] = rec
        /\ \A o \in Streams \ {s} : stream'[o] = stream[o]
    BY <2>1, <2>2, Changed
  <2>4. waiters' = Tail(waiters) /\ queue' = queue
    BY <1>3 DEF Push
  <2>5. TypeOK'
    BY <1>1, <2>1, <2>3, <2>4 DEF TypeOK
  <2>6. WaitInv'
    <3>1. \A i \in 1..Len(waiters') : /\ i + 1 \in 1..Len(waiters)
                                     /\ waiters'[i] = waiters[i + 1]
                                     /\ waiters'[i] \in Streams
      BY <2>1, <2>4 DEF TypeOK
    <3>2. \A i \in 1..Len(waiters') : waiters'[i] # s
      BY <2>1, <3>1 DEF WaitInv
    <3>3. \A o \in Streams : stream'[o].pc = "waiting" =>
            \E i \in 1..Len(waiters') : waiters'[i] = o
      <4> SUFFICES ASSUME NEW o \in Streams, stream'[o].pc = "waiting"
                   PROVE  \E i \in 1..Len(waiters') : waiters'[i] = o
        OBVIOUS
      <4>1. o # s /\ stream[o].pc = "waiting"
        BY <2>2, <2>3
      <4>2. PICK k \in 1..Len(waiters) : waiters[k] = o
        BY <4>1 DEF WaitInv
      <4>3. k - 1 \in 1..Len(waiters') /\ waiters'[k - 1] = o
        BY <2>1, <2>4, <4>1, <4>2
      <4>. QED
        BY <4>3
    <3>4. \A i \in 1..Len(waiters') : stream'[waiters'[i]].pc = "waiting"
      BY <2>3, <3>1, <3>2 DEF WaitInv
    <3>5. \A i, k \in 1..Len(waiters') : waiters'[i] = waiters'[k] => i = k
      <4> SUFFICES ASSUME NEW i \in 1..Len(waiters'), NEW k \in 1..Len(waiters'),
                          waiters'[i] = waiters'[k]
                   PROVE  i = k
        OBVIOUS
      <4>1. i + 1 = k + 1
        BY <3>1 DEF WaitInv
      <4>. QED
        BY <4>1, <2>1, <2>4
    <3>. QED
      BY <3>3, <3>4, <3>5 DEF WaitInv
  <2>7. RendezvousInv'
    BY <1>1, <1>3, <2>4 DEF RendezvousInv
  <2>8. EndInv'
    BY <1>1, <2>2, <2>3, <2>4 DEF EndInv
  <2>. QED
    BY <2>5, <2>6, <2>7, <2>8
<1>. QED
  BY <1>2, <1>3

LEMMA ClosePreserves == IndInv /\ Close => IndInv'
<1> SUFFICES ASSUME IndInv, Close PROVE IndInv'
  OBVIOUS
<1> USE DEF IndInv
<1>1. ~ closed /\ closed' = TRUE /\ waiters' = <<>> /\ UNCHANGED <<queue, pushed, sent, uncaught>>
  BY DEF Close
<1>2. \A s \in Streams : (\E i \in 1..Len(waiters) : waiters[i] = s) <=> stream[s].pc = "waiting"
  BY DEF WaitInv, TypeOK
<1>3. ASSUME NEW s \in Streams
      PROVE  /\ stream'[s] \in Stream /\ stream'[s].pc # "waiting"
             /\ \/ stream[s].pc = "waiting"
                \/ stream'[s] = stream[s]
  <2>1. stream[s] \in Stream
    BY DEF TypeOK
  <2>2. CASE stream[s].pc = "waiting"
    <3>1. stream'[s] = [stream[s] EXCEPT !.pc = "handed", !.event = 0]
      BY <1>2, <2>2 DEF Close
    <3>2. 0 \in 0..MaxEvents
      BY EventsAssumption
    <3>. QED
      BY <2>1, <2>2, <3>1, <3>2 DEF Stream
  <2>3. CASE stream[s].pc # "waiting"
    BY <1>2, <2>1, <2>3 DEF Close
  <2>. QED
    BY <2>2, <2>3
<1>4. stream' \in [Streams -> Stream]
  BY <1>3 DEF Close
<1>5. TypeOK'
  BY <1>1, <1>4 DEF TypeOK
<1>6. WaitInv' /\ RendezvousInv'
  BY <1>1, <1>3 DEF WaitInv, RendezvousInv
<1>7. EndInv'
  <2>1. \A s \in Streams : stream[s].pc = "waiting" => queue = <<>>
    BY DEF WaitInv, RendezvousInv, TypeOK
  <2>. QED
    BY <1>1, <1>3, <2>1 DEF EndInv
<1>. QED
  BY <1>5, <1>6, <1>7

LEMMA SleepPreserves ==
  ASSUME IndInv, NEW s \in Streams, Sleep(s)
  PROVE  IndInv'
<1> USE DEF IndInv
<1>1. /\ stream[s].pc = "next" /\ queue = <<>> /\ ~ closed
      /\ waiters' = Append(waiters, s)
      /\ UNCHANGED <<queue, closed, pushed, sent, uncaught>>
  BY DEF Sleep
<1>2. PICK rec \in Stream : /\ rec.pc = "waiting" /\ stream' = [stream EXCEPT ![s] = rec]
  <2>1. stream[s] \in Stream
    BY DEF TypeOK
  <2>2. [stream[s] EXCEPT !.pc = "waiting"] \in Stream
    BY <2>1 DEF Stream
  <2>3. stream' = [stream EXCEPT ![s] = [stream[s] EXCEPT !.pc = "waiting"]]
    BY DEF Sleep, TypeOK
  <2>. QED
    BY <2>1, <2>2, <2>3 DEF Stream
<1>3. /\ stream' \in [Streams -> Stream] /\ stream'[s] = rec
      /\ \A o \in Streams \ {s} : stream'[o] = stream[o]
  BY <1>2, Changed
<1>4. /\ waiters' \in Seq(Streams) /\ Len(waiters') = Len(waiters) + 1
      /\ Len(waiters) \in Nat
      /\ \A i \in 1..Len(waiters) : waiters'[i] = waiters[i] /\ waiters[i] \in Streams
      /\ waiters'[Len(waiters) + 1] = s
  BY <1>1 DEF TypeOK
<1>5. TypeOK'
  BY <1>1, <1>3, <1>4 DEF TypeOK
<1>6. WaitInv'
  <2>1. \A i \in 1..Len(waiters') : i \in 1..Len(waiters) \/ i = Len(waiters) + 1
    BY <1>4
  <2>2. \A i \in 1..Len(waiters) : waiters[i] # s
    BY <1>1 DEF WaitInv
  <2>3. \A i \in 1..Len(waiters') : stream'[waiters'[i]].pc = "waiting"
    BY <1>2, <1>3, <1>4, <2>1, <2>2 DEF WaitInv
  <2>4. \A i, k \in 1..Len(waiters') : waiters'[i] = waiters'[k] => i = k
    BY <1>4, <2>1, <2>2 DEF WaitInv
  <2>5. \A o \in Streams : stream'[o].pc = "waiting" =>
          \E i \in 1..Len(waiters') : waiters'[i] = o
    <3> TAKE o \in Streams
    <3> HAVE stream'[o].pc = "waiting"
    <3>1. CASE o = s
      <4>1. Len(waiters) + 1 \in 1..Len(waiters')
        BY <1>4
      <4>. QED
        BY <1>4, <3>1, <4>1
    <3>2. CASE o # s
      <4>1. PICK k \in 1..Len(waiters) : waiters[k] = o
        BY <1>3, <3>2 DEF WaitInv
      <4>2. k \in 1..Len(waiters') /\ waiters'[k] = o
        BY <1>4, <4>1
      <4>. QED
        BY <4>2
    <3>. QED
      BY <3>1, <3>2
  <2>. QED
    BY <2>3, <2>4, <2>5 DEF WaitInv
<1>7. RendezvousInv'
  BY <1>1 DEF RendezvousInv
<1>8. EndInv'
  BY <1>1, <1>2, <1>3 DEF EndInv
<1>. QED
  BY <1>5, <1>6, <1>7, <1>8

(* Every step of one stream preserves the invariant. *)
LEMMA StreamStepPreserves ==
  ASSUME IndInv, NEW s \in Streams, Iterate(s) \/ Disconnect(s) \/ Heartbeat(s)
  PROVE  IndInv'
<1> USE DEF IndInv
<1>1. CASE Start(s)
  <2>1. stream[s].pc = "new" /\ UNCHANGED <<queue, waiters, closed, pushed, sent, uncaught>>
    BY <1>1 DEF Start
  <2>2. PICK rec \in Stream : rec.pc = "next" /\ stream' = [stream EXCEPT ![s] = rec]
    <3>1. stream[s] \in Stream
      BY DEF TypeOK
    <3>2. [stream[s] EXCEPT !.pc = "next", !.heartbeat = KeepAlive] \in Stream
      BY <3>1, OptionsAssumption DEF Stream
    <3>3. stream' = [stream EXCEPT ![s] = [stream[s] EXCEPT !.pc = "next",
                                                            !.heartbeat = KeepAlive]]
      BY <1>1 DEF Start, TypeOK
    <3>. QED
      BY <3>1, <3>2, <3>3 DEF Stream
  <2>3. /\ stream' \in [Streams -> Stream] /\ stream'[s] = rec
        /\ \A o \in Streams \ {s} : stream'[o] = stream[o]
    BY <2>2, Changed
  <2>4. queue' \in Seq(1..MaxEvents) /\ sent' \in [Streams -> Seq(1..MaxEvents)]
    BY <2>1 DEF TypeOK
  <2>. QED
    BY <2>1, <2>2, <2>3, <2>4, StreamPreserves
<1>2. CASE TakeQueued(s)
  <2>1. /\ stream[s].pc = "next" /\ queue # <<>> /\ queue' = Tail(queue)
        /\ Write(s, Head(queue))
        /\ UNCHANGED <<waiters, closed, pushed, uncaught>>
    BY <1>2 DEF TakeQueued
  <2>2. Head(queue) \in 1..MaxEvents /\ queue' \in Seq(1..MaxEvents)
    <3>1. queue \in Seq(1..MaxEvents)
      BY DEF TypeOK
    <3>. QED
      BY <2>1, <3>1, Parts
  <2>3. /\ stream' \in [Streams -> Stream] /\ sent' \in [Streams -> Seq(1..MaxEvents)]
        /\ stream'[s].pc = "next" \/ (stream'[s].pc = "done" /\ ~ stream'[s].connected)
        /\ \A o \in Streams \ {s} : stream'[o] = stream[o]
    BY <2>1, <2>2, Wrote
  <2>. QED
    BY <2>1, <2>2, <2>3, StreamPreserves
<1>3. CASE End(s)
  <2>1. /\ stream[s].pc = "next" /\ queue = <<>> /\ closed /\ Finish(s)
        /\ UNCHANGED <<queue, waiters, closed, pushed, uncaught>>
    BY <1>3 DEF End
  <2>2. /\ stream' \in [Streams -> Stream] /\ stream'[s].pc = "done"
        /\ \A o \in Streams \ {s} : stream'[o] = stream[o] /\ sent' = sent
    BY <2>1, Finished
  <2>3. queue' \in Seq(1..MaxEvents) /\ sent' \in [Streams -> Seq(1..MaxEvents)]
    <3>1. sent' = sent
      BY <2>1, Finished
    <3>. QED
      BY <2>1, <3>1 DEF TypeOK
  <2>. QED
    BY <2>1, <2>2, <2>3, StreamPreserves
<1>4. CASE Sleep(s)
  BY <1>4, SleepPreserves
<1>5. CASE Wake(s)
  <2>1. /\ stream[s].pc = "handed" /\ UNCHANGED <<queue, waiters, closed, pushed, uncaught>>
        /\ stream[s].event = 0 => Finish(s)
        /\ stream[s].event # 0 => Write(s, stream[s].event)
    BY <1>5 DEF Wake
  <2>2. queue' \in Seq(1..MaxEvents) /\ stream[s].event \in 0..MaxEvents
    BY <2>1 DEF TypeOK, Stream
  <2>3. CASE stream[s].event = 0
    <3>1. closed /\ queue = <<>>
      BY <2>1, <2>3 DEF EndInv
    <3>2. /\ stream' \in [Streams -> Stream] /\ stream'[s].pc = "done" /\ sent' = sent
          /\ \A o \in Streams \ {s} : stream'[o] = stream[o]
      BY <2>1, <2>3, Finished
    <3>3. sent' \in [Streams -> Seq(1..MaxEvents)]
      BY <3>2 DEF TypeOK
    <3>. QED
      BY <2>1, <2>2, <3>1, <3>2, <3>3, StreamPreserves
  <2>4. CASE stream[s].event # 0
    <3>1. stream[s].event \in 1..MaxEvents
      BY <2>2, <2>4, EventsAssumption
    <3>2. /\ stream' \in [Streams -> Stream] /\ sent' \in [Streams -> Seq(1..MaxEvents)]
          /\ stream'[s].pc = "next" \/ (stream'[s].pc = "done" /\ ~ stream'[s].connected)
          /\ \A o \in Streams \ {s} : stream'[o] = stream[o]
      BY <2>1, <2>4, <3>1, Wrote
    <3>. QED
      BY <2>1, <2>2, <3>2, StreamPreserves
  <2>. QED
    BY <2>3, <2>4
<1>6. CASE Disconnect(s)
  <2>1. /\ stream[s].pc # "done"
        /\ UNCHANGED <<queue, waiters, closed, pushed, sent, uncaught>>
    BY <1>6 DEF Disconnect
  <2>2. PICK rec \in Stream : /\ rec.pc = stream[s].pc /\ rec.event = stream[s].event
                             /\ stream' = [stream EXCEPT ![s] = rec]
    <3>1. stream[s] \in Stream
      BY DEF TypeOK
    <3>2. [stream[s] EXCEPT !.connected = FALSE] \in Stream
      BY <3>1 DEF Stream
    <3>3. stream' = [stream EXCEPT ![s] = [stream[s] EXCEPT !.connected = FALSE]]
      BY <1>6 DEF Disconnect, TypeOK
    <3>. QED
      BY <3>1, <3>2, <3>3 DEF Stream
  <2>3. /\ stream' \in [Streams -> Stream]
        /\ \A o \in Streams : stream'[o].pc = stream[o].pc /\ stream'[o].event = stream[o].event
        /\ \A o \in Streams \ {s} : stream'[o] = stream[o]
    BY <2>2, Changed
  <2>4. TypeOK'
    BY <2>1, <2>3 DEF TypeOK
  <2>5. WaitInv'
    <3>1. \A i \in 1..Len(waiters) : waiters[i] \in Streams
      BY DEF TypeOK
    <3>. QED
      BY <2>1, <2>3, <3>1 DEF WaitInv
  <2>6. RendezvousInv'
    BY <2>1 DEF RendezvousInv
  <2>7. EndInv'
    BY <2>1, <2>3 DEF EndInv
  <2>. QED
    BY <2>4, <2>5, <2>6, <2>7
<1>7. CASE Heartbeat(s)
  BY <1>7 DEF Heartbeat, TypeOK, WaitInv, RendezvousInv, EndInv
<1>. QED
  BY <1>1, <1>2, <1>3, <1>4, <1>5, <1>6, <1>7 DEF Iterate

LEMMA NextPreserves == IndInv /\ [Next]_vars => IndInv'
<1> SUFFICES ASSUME IndInv, [Next]_vars PROVE IndInv'
  OBVIOUS
<1>1. CASE Next
  BY <1>1, PushPreserves, ClosePreserves, StreamStepPreserves DEF Next
<1>2. CASE UNCHANGED vars
  BY <1>2 DEF vars, IndInv, TypeOK, WaitInv, RendezvousInv, EndInv
<1>. QED
  BY <1>1, <1>2

(* The invariant that the other theorems rest on. *)
THEOREM Inductive == Spec => []IndInv
BY InitEstablishes, NextPreserves, PTL DEF Spec

(* The channel's queue and waiters and the records of the streams keep their types. *)
THEOREM TypeCorrect == Spec => []TypeOK
<1>1. IndInv => TypeOK
  BY DEF IndInv
<1>. QED
  BY <1>1, Inductive, PTL

(* push(), close() and the iterations never leave an event in the queue while a
   stream waits, nor a stream asleep on a closed channel. *)
THEOREM NoWakeupLost == Spec => []NoLostWakeup
<1>1. IndInv => NoLostWakeup
  BY DEF IndInv, NoLostWakeup, RendezvousInv, WaitInv, TypeOK
<1>. QED
  BY <1>1, Inductive, PTL

(* A stream whose client is there ends only on a channel that is closed and
   drained: no accepted event is left behind. *)
THEOREM Drained == Spec => []DrainsBeforeEnd
<1>1. IndInv => DrainsBeforeEnd
  BY DEF IndInv, DrainsBeforeEnd, EndInv
<1>. QED
  BY <1>1, Inductive, PTL

-----------------------------------------------------------------------------
LEMMA Counts == IndInv => pushed \in Nat /\ Len(queue) \in Nat
BY EventsAssumption DEF IndInv, TypeOK

(* What FifoChannel sees of a step in which only the record of stream s changes. *)
HandOf(rec) == IF rec.pc = "handed" THEN rec.event ELSE 0

LEMMA HandIs ==
  ASSUME TypeOK
  PROVE  /\ \A s \in Streams : Hand[s] = HandOf(stream[s]) /\ Here[s] = stream[s].connected
         /\ Hand = [s \in Streams |-> HandOf(stream[s])]
         /\ \A s \in Streams : Hand[s] \in 0..MaxEvents
<1>1. \A s \in Streams : Hand[s] \in 0..MaxEvents
  <2> TAKE s \in Streams
  <2>1. stream[s].event \in 0..MaxEvents /\ 0 \in 0..MaxEvents
    BY EventsAssumption DEF TypeOK, Stream
  <2>. QED
    BY <2>1 DEF Hand
<1>. QED
  BY <1>1 DEF Hand, Here, HandOf

LEMMA HandChanges ==
  ASSUME NEW s \in Streams, \A o \in Streams \ {s} : stream'[o] = stream[o]
  PROVE  Hand' = [Hand EXCEPT ![s] = HandOf(stream'[s])]
<1>1. \A o \in Streams : Hand'[o] = [Hand EXCEPT ![s] = HandOf(stream'[s])][o]
  <2> TAKE o \in Streams
  <2>1. CASE o = s
    BY <2>1 DEF Hand, HandOf
  <2>2. CASE o # s
    BY <2>2 DEF Hand, HandOf
  <2>. QED
    BY <2>1, <2>2
<1>. QED
  BY <1>1 DEF Hand

LEMMA HandKept ==
  ASSUME \A s \in Streams : HandOf(stream'[s]) = HandOf(stream[s])
  PROVE  Hand' = Hand
BY DEF Hand, HandOf

LEMMA HereChanges ==
  ASSUME NEW s \in Streams, \A o \in Streams \ {s} : stream'[o] = stream[o]
  PROVE  Here' = [Here EXCEPT ![s] = stream'[s].connected]
<1>1. \A o \in Streams : Here'[o] = [Here EXCEPT ![s] = stream'[s].connected][o]
  <2> TAKE o \in Streams
  <2>1. CASE o = s
    BY <2>1 DEF Here
  <2>2. CASE o # s
    BY <2>2 DEF Here
  <2>. QED
    BY <2>1, <2>2
<1>. QED
  BY <1>1 DEF Here

LEMMA HereKept ==
  ASSUME \A s \in Streams : stream'[s].connected = stream[s].connected
  PROVE  Here' = Here
BY DEF Here

(* A step of a stream that does not end it by itself leaves Ended alone. *)
LEMMA EndedKept ==
  ASSUME NEW s \in Streams,
         \A o \in Streams \ {s} : stream'[o] = stream[o],
         (stream'[s].pc = "done" /\ stream'[s].connected)
           <=> (stream[s].pc = "done" /\ stream[s].connected)
  PROVE  Ended' = Ended
BY DEF Ended

LEMMA Unseen ==
  ASSUME UNCHANGED <<pushed, queue, sent, closed>>, Hand' = Hand, Here' = Here, Ended' = Ended
  PROVE  UNCHANGED Fifo!vars
BY DEF Fifo!vars

LEMMA InitMaps == Init => Fifo!Init
<1> SUFFICES ASSUME Init PROVE Fifo!Init
  OBVIOUS
<1>1. pushed = 0 /\ queue = <<>> /\ closed = FALSE /\ sent = [s \in Streams |-> <<>>]
  BY DEF Init
<1>2. \A s \in Streams : stream[s].pc = "new" /\ stream[s].connected = TRUE
  BY DEF Init
<1>3. Hand = [s \in Streams |-> 0]
  BY <1>2 DEF Hand
<1>4. Here = [s \in Streams |-> TRUE]
  BY <1>2 DEF Here
<1>5. Ended = {}
  BY <1>2 DEF Ended
<1>. QED
  BY <1>1, <1>3, <1>4, <1>5 DEF Fifo!Init

(* The loop of stream s ends: by itself, after an event that its client was no
   longer there for, or told of the end. *)
LEMMA FinishMaps ==
  ASSUME IndInv, NEW s \in Streams, stream[s].pc # "done", Hand[s] = 0, closed, queue = <<>>,
         Finish(s), UNCHANGED <<queue, closed, pushed>>
  PROVE  [Fifo!Next]_(Fifo!vars)
<1>1. /\ stream'[s].pc = "done" /\ stream'[s].connected = stream[s].connected
      /\ \A o \in Streams \ {s} : stream'[o] = stream[o]
      /\ sent' = sent
  BY Finished DEF IndInv
<1>2. HandOf(stream'[s]) = 0 /\ Hand' = Hand
  <2>1. HandOf(stream'[s]) = 0
    BY <1>1 DEF HandOf
  <2>2. HandOf(stream[s]) = 0
    BY DEF Hand, HandOf
  <2>3. \A o \in Streams : HandOf(stream'[o]) = HandOf(stream[o])
    BY <1>1, <2>1, <2>2 DEF HandOf
  <2>. QED
    BY <2>1, <2>3, HandKept
<1>3. Here' = Here
  BY <1>1, HereKept
<1>4. CASE stream[s].connected
  <2>1. Ended' = Ended \union {s}
    BY <1>1, <1>4 DEF Ended
  <2>2. Here[s]
    BY <1>4 DEF Here
  <2>3. Fifo!End(s)
    BY <1>1, <1>2, <1>3, <2>1, <2>2 DEF Fifo!End
  <2>. QED
    BY <2>3 DEF Fifo!Next
<1>5. CASE ~ stream[s].connected
  <2>1. Ended' = Ended
    BY <1>1, <1>5, EndedKept
  <2>. QED
    BY <1>1, <1>2, <1>3, <2>1, Unseen
<1>. QED
  BY <1>4, <1>5

(* What the write of event e does to the stream, its client and what they hold. *)
LEMMA WriteMaps ==
  ASSUME IndInv, NEW s \in Streams, NEW e \in 1..MaxEvents, stream[s].pc # "done", Write(s, e)
  PROVE  /\ Fifo!Reach(s, e) /\ Here' = Here /\ Ended' = Ended
         /\ Hand' = [Hand EXCEPT ![s] = 0]
<1>1. /\ stream'[s].pc = "next" \/ (stream'[s].pc = "done" /\ ~ stream'[s].connected)
      /\ \A o \in Streams \ {s} : stream'[o] = stream[o]
  BY Wrote DEF IndInv
<1>2. Ended' = Ended
  BY <1>1, EndedKept
<1>3. Hand' = [Hand EXCEPT ![s] = 0]
  <2>1. HandOf(stream'[s]) = 0
    BY <1>1 DEF HandOf
  <2>. QED
    BY <1>1, <2>1, HandChanges
<1>4. CASE stream[s].connected
  <2>1. sent' = [sent EXCEPT ![s] = Append(sent[s], e)]
    BY <1>4 DEF Write, IndInv, TypeOK
  <2>2. stream'[s].connected = stream[s].connected
    <3>1. stream[s] \in Stream
      BY DEF IndInv, TypeOK
    <3>2. stream' = [stream EXCEPT ![s] = [stream[s] EXCEPT !.pc = "next", !.event = 0]]
      BY <1>4 DEF Write, IndInv, TypeOK
    <3>. QED
      BY <3>1, <3>2 DEF IndInv, TypeOK, Stream
  <2>3. Here[s]
    BY <1>4 DEF Here
  <2>4. Here' = Here
    BY <1>1, <2>2, HereKept
  <2>. QED
    BY <1>2, <1>3, <2>1, <2>3, <2>4 DEF Fifo!Reach
<1>5. CASE ~ stream[s].connected
  <2>1. Finish(s)
    BY <1>5 DEF Write
  <2>2. sent' = sent /\ stream'[s].connected = stream[s].connected
    BY <2>1, Finished DEF IndInv
  <2>3. ~ Here[s]
    BY <1>5 DEF Here
  <2>4. Here' = Here
    BY <1>1, <2>2, HereKept
  <2>. QED
    BY <1>2, <1>3, <2>2, <2>3, <2>4 DEF Fifo!Reach
<1>. QED
  BY <1>4, <1>5

LEMMA PushMaps ==
  ASSUME IndInv, Push
  PROVE  [Fifo!Next]_(Fifo!vars)
<1>1. ~ closed /\ closed' = closed /\ pushed' = pushed + 1 /\ sent' = sent
  BY DEF Push
<1>2. CASE waiters = <<>>
  <2>1. queue' = Append(queue, pushed') /\ stream' = stream
    BY <1>2 DEF Push
  <2>2. Hand' = Hand /\ Here' = Here /\ Ended' = Ended
    BY <2>1 DEF Hand, Here, Ended
  <2>3. Fifo!Send
    BY <1>1, <2>1, <2>2 DEF Fifo!Send
  <2>. QED
    BY <2>3 DEF Fifo!Next
<1>3. CASE waiters # <<>>
  <2> DEFINE s == Head(waiters)
  <2>1. queue = <<>> /\ queue' = queue
    BY <1>3 DEF Push, IndInv, RendezvousInv
  <2>2. s \in Streams /\ stream[s].pc = "waiting" /\ stream[s] \in Stream
    <3>1. s = waiters[1] /\ 1 \in 1..Len(waiters) /\ s \in Streams
      BY <1>3 DEF IndInv, TypeOK
    <3>. QED
      BY <3>1 DEF IndInv, TypeOK, WaitInv
  <2>3. stream' = [stream EXCEPT ![s] = [stream[s] EXCEPT !.pc = "handed", !.event = pushed']]
    BY <1>3 DEF Push, IndInv, TypeOK
  <2>4. /\ \A o \in Streams \ {s} : stream'[o] = stream[o]
        /\ stream'[s].pc = "handed" /\ stream'[s].event = pushed'
        /\ stream'[s].connected = stream[s].connected
    BY <2>2, <2>3 DEF IndInv, TypeOK, Stream
  <2>5. Hand' = [Hand EXCEPT ![s] = pushed'] /\ Hand[s] = 0
    <3>1. HandOf(stream'[s]) = pushed'
      BY <2>4 DEF HandOf
    <3>. QED
      BY <2>2, <2>4, <3>1, HandChanges DEF Hand
  <2>6. Here' = Here
    BY <2>2, <2>4, HereKept
  <2>7. Ended' = Ended /\ s \notin Ended
    BY <2>2, <2>4, EndedKept DEF Ended
  <2> HIDE DEF s
  <2>8. \E r \in Streams \ Ended : Hand[r] = 0 /\ Hand' = [Hand EXCEPT ![r] = pushed']
    BY <2>2, <2>5, <2>7
  <2>9. Fifo!Send
    BY <1>1, <2>1, <2>6, <2>7, <2>8 DEF Fifo!Send
  <2>. QED
    BY <2>9 DEF Fifo!Next
<1>. QED
  BY <1>2, <1>3

LEMMA CloseMaps ==
  ASSUME IndInv, Close
  PROVE  [Fifo!Next]_(Fifo!vars)
<1>1. ~ closed /\ closed' = TRUE /\ pushed' = pushed /\ queue' = queue /\ sent' = sent
  BY DEF Close
<1>2. \A s \in Streams :
        /\ HandOf(stream'[s]) = HandOf(stream[s])
        /\ stream'[s].connected = stream[s].connected
        /\ stream'[s].pc = "done" <=> stream[s].pc = "done"
  <2> TAKE s \in Streams
  <2>1. stream[s] \in Stream
    BY DEF IndInv, TypeOK
  <2>2. (\E i \in 1..Len(waiters) : waiters[i] = s) => stream[s].pc = "waiting"
    BY DEF IndInv, WaitInv
  <2>3. CASE \E i \in 1..Len(waiters) : waiters[i] = s
    <3>1. stream'[s] = [stream[s] EXCEPT !.pc = "handed", !.event = 0]
      BY <2>3 DEF Close
    <3>. QED
      BY <2>1, <2>2, <2>3, <3>1 DEF Stream, HandOf
  <2>4. CASE ~ \E i \in 1..Len(waiters) : waiters[i] = s
    <3>1. stream'[s] = stream[s]
      BY <2>4 DEF Close
    <3>. QED
      BY <3>1
  <2>. QED
    BY <2>3, <2>4
<1>3. Hand' = Hand /\ Here' = Here
  BY <1>2, HandKept, HereKept
<1>4. Ended' = Ended
  BY <1>2 DEF Ended
<1>5. Fifo!Close
  BY <1>1, <1>3, <1>4 DEF Fifo!Close
<1>. QED
  BY <1>5 DEF Fifo!Next

LEMMA TakeMaps ==
  ASSUME IndInv, NEW s \in Streams, TakeQueued(s)
  PROVE  [Fifo!Next]_(Fifo!vars)
<1>1. /\ stream[s].pc = "next" /\ queue # <<>> /\ queue' = Tail(queue)
      /\ Write(s, Head(queue)) /\ closed' = closed /\ pushed' = pushed
  BY DEF TakeQueued
<1>2. Head(queue) \in 1..MaxEvents
  <2>1. queue \in Seq(1..MaxEvents)
    BY DEF IndInv, TypeOK
  <2>. QED
    BY <1>1, <2>1, Parts
<1>3. Fifo!Reach(s, Head(queue)) /\ Here' = Here /\ Ended' = Ended /\ Hand' = [Hand EXCEPT ![s] = 0]
  BY <1>1, <1>2, WriteMaps
<1>4. Hand[s] = 0 /\ s \notin Ended
  BY <1>1 DEF Hand, Ended
<1>5. Hand' = Hand
  BY <1>3, <1>4 DEF Hand
<1>6. Fifo!Take(s)
  BY <1>1, <1>3, <1>4, <1>5 DEF Fifo!Take
<1>. QED
  BY <1>6 DEF Fifo!Next

LEMMA WakeMaps ==
  ASSUME IndInv, NEW s \in Streams, Wake(s)
  PROVE  [Fifo!Next]_(Fifo!vars)
<1>1. stream[s].pc = "handed" /\ UNCHANGED <<queue, closed, pushed>>
  BY DEF Wake
<1>2. Hand[s] = stream[s].event
  BY <1>1 DEF Hand
<1>3. CASE stream[s].event = 0
  <2>1. closed /\ queue = <<>>
    BY <1>1, <1>3 DEF IndInv, EndInv
  <2>2. Finish(s)
    BY <1>3 DEF Wake
  <2>. QED
    BY <1>1, <1>2, <1>3, <2>1, <2>2, FinishMaps
<1>4. CASE stream[s].event # 0
  <2>1. stream[s].event \in 1..MaxEvents
    <3>1. stream[s].event \in 0..MaxEvents
      BY DEF IndInv, TypeOK, Stream
    <3>. QED
      BY <1>4, <3>1, EventsAssumption
  <2>2. Write(s, stream[s].event)
    BY <1>4 DEF Wake
  <2>3. Fifo!Reach(s, Hand[s]) /\ Here' = Here /\ Ended' = Ended /\ Hand' = [Hand EXCEPT ![s] = 0]
    BY <1>1, <1>2, <2>1, <2>2, WriteMaps
  <2>4. Fifo!Receive(s)
    BY <1>1, <1>2, <1>4, <2>3 DEF Fifo!Receive
  <2>. QED
    BY <2>4 DEF Fifo!Next
<1>. QED
  BY <1>3, <1>4

LEMMA DisconnectMaps ==
  ASSUME IndInv, NEW s \in Streams, Disconnect(s)
  PROVE  [Fifo!Next]_(Fifo!vars)
<1>1. stream[s].pc # "done" /\ UNCHANGED <<queue, closed, pushed, sent>>
  BY DEF Disconnect
<1>2. /\ stream'[s].pc = stream[s].pc /\ stream'[s].event = stream[s].event
      /\ stream'[s].connected = FALSE
      /\ \A o \in Streams \ {s} : stream'[o] = stream[o]
  <2>1. stream[s] \in Stream
    BY DEF IndInv, TypeOK
  <2>2. stream' = [stream EXCEPT ![s] = [stream[s] EXCEPT !.connected = FALSE]]
    BY DEF Disconnect, IndInv, TypeOK
  <2>. QED
    BY <2>1, <2>2 DEF IndInv, TypeOK, Stream
<1>3. Hand' = Hand
  BY <1>2, HandKept DEF HandOf
<1>4. Here' = [Here EXCEPT ![s] = FALSE]
  BY <1>2, HereChanges
<1>5. Ended' = Ended /\ s \notin Ended
  BY <1>1, <1>2, EndedKept DEF Ended
<1>6. Fifo!Leave(s)
  BY <1>1, <1>3, <1>4, <1>5 DEF Fifo!Leave
<1>. QED
  BY <1>6 DEF Fifo!Next

LEMMA StepMaps == IndInv /\ [Next]_vars => [Fifo!Next]_(Fifo!vars)
<1> SUFFICES ASSUME IndInv, [Next]_vars PROVE [Fifo!Next]_(Fifo!vars)
  OBVIOUS
<1>1. ASSUME NEW s \in Streams, Start(s) \/ Sleep(s)
      PROVE  [Fifo!Next]_(Fifo!vars)
  <2>1. UNCHANGED <<queue, closed, pushed, sent>>
    BY <1>1 DEF Start, Sleep
  <2>2. /\ stream[s].pc \notin {"handed", "done"} /\ stream'[s].pc \notin {"handed", "done"}
        /\ stream'[s].connected = stream[s].connected
        /\ \A o \in Streams \ {s} : stream'[o] = stream[o]
    <3>1. stream[s] \in Stream
      BY DEF IndInv, TypeOK
    <3>2. CASE Start(s)
      <4>1. stream' = [stream EXCEPT ![s] = [stream[s] EXCEPT !.pc = "next",
                                                              !.heartbeat = KeepAlive]]
        BY <3>2 DEF Start, IndInv, TypeOK
      <4>. QED
        BY <3>1, <3>2, <4>1 DEF Start, IndInv, TypeOK, Stream
    <3>3. CASE Sleep(s)
      <4>1. stream' = [stream EXCEPT ![s] = [stream[s] EXCEPT !.pc = "waiting"]]
        BY <3>3 DEF Sleep, IndInv, TypeOK
      <4>. QED
        BY <3>1, <3>3, <4>1 DEF Sleep, IndInv, TypeOK, Stream
    <3>. QED
      BY <1>1, <3>2, <3>3
  <2>3. Hand' = Hand /\ Here' = Here
    <3>1. \A o \in Streams : HandOf(stream'[o]) = HandOf(stream[o])
      BY <2>2 DEF HandOf
    <3>2. \A o \in Streams : stream'[o].connected = stream[o].connected
      BY <2>2
    <3>. QED
      BY <3>1, <3>2, HandKept, HereKept
  <2>4. Ended' = Ended
    BY <2>2, EndedKept
  <2>. QED
    BY <2>1, <2>3, <2>4, Unseen
<1>2. ASSUME NEW s \in Streams, End(s)
      PROVE  [Fifo!Next]_(Fifo!vars)
  <2>1. Hand[s] = 0
    BY <1>2 DEF End, Hand
  <2>. QED
    BY <1>2, <2>1, FinishMaps DEF End
<1>3. ASSUME NEW s \in Streams, Heartbeat(s)
      PROVE  [Fifo!Next]_(Fifo!vars)
  BY <1>3, Unseen DEF Heartbeat, Hand, Here, Ended
<1>4. CASE UNCHANGED vars
  BY <1>4, Unseen DEF vars, Hand, Here, Ended
<1>. QED
  BY <1>1, <1>2, <1>3, <1>4, PushMaps, CloseMaps, TakeMaps, WakeMaps, DisconnectMaps
  DEF Next, Iterate

(* The channel and its streams implement a FIFO channel: the events leave the queue
   in the order of the pushes, each one for one client, and a stream ends by itself
   only when the channel is closed and drained. *)
THEOREM Implements == Spec => ImplementsFifo
BY InitMaps, StepMaps, Inductive, PTL DEF Spec, ImplementsFifo, Fifo!Spec

-----------------------------------------------------------------------------
(* Where the events are.  The queue holds the last ones that were pushed; the Taken
   ones before them were handed to one stream each, and sent in their order. *)
Taken == pushed - Len(queue)

QueueInv == Taken \in Nat /\ \A k \in 1..Len(queue) : queue[k] = Taken + k

Handed(s, e) == stream[s].pc = "handed" /\ stream[s].event = e
At(s, e) == Handed(s, e) \/ \E i \in 1..Len(sent[s]) : sent[s][i] = e

StreamOrder(s) ==
  /\ \A i \in 1..Len(sent[s]) : sent[s][i] <= Taken
  /\ \A i, k \in 1..Len(sent[s]) : i < k => sent[s][i] < sent[s][k]
  /\ \A e \in 1..MaxEvents :
       Handed(s, e) => e <= Taken /\ \A i \in 1..Len(sent[s]) : sent[s][i] < e

PlaceInv ==
  \A e \in 1..Taken :
    /\ \A s, o \in Streams : At(s, e) /\ At(o, e) => s = o
    /\ SomeoneLeft \/ \E s \in Streams : At(s, e)

BeatInv ==
  /\ \A s \in Streams : stream[s].pc = "done" => ~ stream[s].heartbeat
  /\ HeartbeatIsSafe

FlowInv == QueueInv /\ (\A s \in Streams : StreamOrder(s)) /\ PlaceInv

(* The elements of a sequence, and what was sent to a client. *)
LEMMA Elements ==
  ASSUME NEW S, NEW q \in Seq(S)
  PROVE  Len(q) \in Nat /\ \A i \in 1..Len(q) : q[i] \in S
OBVIOUS

LEMMA SentType ==
  ASSUME TypeOK, NEW s \in Streams
  PROVE  /\ sent[s] \in Seq(1..MaxEvents) /\ Len(sent[s]) \in Nat
         /\ \A i \in 1..Len(sent[s]) : sent[s][i] \in 1..MaxEvents
<1>1. sent[s] \in Seq(1..MaxEvents)
  BY DEF TypeOK
<1>. QED
  BY <1>1, Elements

(* What is at a stream was taken. *)
LEMMA AtTaken ==
  ASSUME IndInv, FlowInv, NEW s \in Streams, NEW e \in 1..MaxEvents, At(s, e)
  PROVE  e <= Taken
BY DEF FlowInv, StreamOrder, At

(* What a stream has of the events does not change. *)
Unmoved(s) ==
  /\ sent'[s] = sent[s]
  /\ \A e \in 1..MaxEvents : Handed(s, e)' <=> Handed(s, e)

LEMMA UnmovedOrder ==
  ASSUME IndInv, FlowInv, NEW s \in Streams, Unmoved(s), Taken' \in {Taken, Taken + 1}
  PROVE  /\ StreamOrder(s)'
         /\ \A e \in 1..MaxEvents : At(s, e)' <=> At(s, e)
<1>1. /\ sent[s] \in Seq(1..MaxEvents) /\ Taken \in Nat /\ Len(sent[s]) \in Nat
      /\ \A i \in 1..Len(sent[s]) : sent[s][i] \in 1..MaxEvents
  <2>1. /\ sent[s] \in Seq(1..MaxEvents) /\ Len(sent[s]) \in Nat
        /\ \A i \in 1..Len(sent[s]) : sent[s][i] \in 1..MaxEvents
    BY SentType DEF IndInv
  <2>2. Taken \in Nat
    BY DEF FlowInv, QueueInv
  <2>. QED
    BY <2>1, <2>2
<1>2. StreamOrder(s)
  BY DEF FlowInv
<1>3. ASSUME NEW i \in 1..Len(sent[s]) PROVE sent[s][i] <= Taken'
  BY <1>1, <1>2 DEF StreamOrder
<1>4. ASSUME NEW e \in 1..MaxEvents, Handed(s, e)'
      PROVE  e <= Taken' /\ \A i \in 1..Len(sent[s]) : sent[s][i] < e
  <2>1. e <= Taken /\ \A i \in 1..Len(sent[s]) : sent[s][i] < e
    BY <1>2, <1>4 DEF Unmoved, StreamOrder
  <2>. QED
    BY <1>1, <2>1
<1>5. sent'[s] = sent[s]
  BY DEF Unmoved
<1>6. StreamOrder(s)'
  BY <1>2, <1>3, <1>4, <1>5 DEF StreamOrder
<1>7. \A e \in 1..MaxEvents : At(s, e)' <=> At(s, e)
  BY <1>5 DEF Unmoved, At
<1>. QED
  BY <1>6, <1>7

(* A step that moves no event: it may still put one into the queue. *)
LEMMA NothingMoves ==
  ASSUME IndInv, FlowInv, QueueInv', Taken' = Taken, SomeoneLeft => SomeoneLeft',
         \A s \in Streams : Unmoved(s)
  PROVE  FlowInv'
<1>1. \A s \in Streams : StreamOrder(s)' /\ \A e \in 1..MaxEvents : At(s, e)' <=> At(s, e)
  BY UnmovedOrder
<1>2. \A e \in 1..Taken : e \in 1..MaxEvents
  <2>1. pushed \in 0..MaxEvents /\ Len(queue) \in Nat /\ Taken \in Nat
    BY DEF IndInv, TypeOK, FlowInv, QueueInv
  <2>. QED
    BY <2>1, EventsAssumption DEF Taken
<1>3. PlaceInv'
  <2> SUFFICES ASSUME NEW e \in 1..Taken
               PROVE  /\ \A s, o \in Streams : At(s, e)' /\ At(o, e)' => s = o
                      /\ SomeoneLeft' \/ \E s \in Streams : At(s, e)'
    BY DEF PlaceInv
  <2>. QED
    BY <1>1, <1>2 DEF FlowInv, PlaceInv
<1>. QED
  BY <1>1, <1>3 DEF FlowInv

(* A step of stream s that gives it one more event, moves its own or loses it. *)
LEMMA OneMoves ==
  ASSUME IndInv, FlowInv, NEW s \in Streams, QueueInv', Taken' \in {Taken, Taken + 1},
         Taken' \in 0..MaxEvents,
         SomeoneLeft => SomeoneLeft', StreamOrder(s)',
         \A o \in Streams \ {s} : Unmoved(o),
         \A e \in 1..Taken : (At(s, e)' => At(s, e)) /\ (At(s, e) => At(s, e)' \/ SomeoneLeft'),
         \A e \in 1..MaxEvents : e = Taken + 1 /\ Taken' = e => At(s, e)' \/ SomeoneLeft'
  PROVE  FlowInv'
<1>1. \A o \in Streams \ {s} : StreamOrder(o)' /\ \A e \in 1..MaxEvents : At(o, e)' <=> At(o, e)
  BY UnmovedOrder
<1>2. Taken \in Nat /\ (\A e \in 1..Taken : e \in 1..MaxEvents) /\ MaxEvents \in Nat
  BY EventsAssumption DEF FlowInv, QueueInv
<1>3. ASSUME NEW e \in 1..Taken
      PROVE  /\ \A a, o \in Streams : At(a, e)' /\ At(o, e)' => a = o
             /\ SomeoneLeft' \/ \E a \in Streams : At(a, e)'
  <2>1. \A o \in Streams : At(o, e)' => At(o, e)
    BY <1>1, <1>2
  <2>2. \A a, o \in Streams : At(a, e) /\ At(o, e) => a = o
    BY DEF FlowInv, PlaceInv
  <2>3. SomeoneLeft \/ \E a \in Streams : At(a, e)
    BY DEF FlowInv, PlaceInv
  <2>4. \A o \in Streams : At(o, e) => At(o, e)' \/ SomeoneLeft'
    BY <1>1, <1>2
  <2>. QED
    BY <2>1, <2>2, <2>3, <2>4
<1>4. ASSUME NEW e \in 1..Taken', e \notin 1..Taken
      PROVE  /\ \A a, o \in Streams : At(a, e)' /\ At(o, e)' => a = o
             /\ SomeoneLeft' \/ \E a \in Streams : At(a, e)'
  <2>1. e = Taken + 1 /\ Taken' = Taken + 1 /\ e \in 1..MaxEvents
    BY <1>2, <1>4
  <2>2. \A o \in Streams \ {s} : ~ At(o, e)'
    <3> SUFFICES ASSUME NEW o \in Streams \ {s} PROVE ~ At(o, e)'
      OBVIOUS
    <3>1. At(o, e) => e <= Taken
      BY <2>1, AtTaken
    <3>2. ~ (e <= Taken)
      BY <1>2, <2>1
    <3>3. At(o, e)' <=> At(o, e)
      BY <1>1, <2>1
    <3>. QED
      BY <3>1, <3>2, <3>3
  <2>. QED
    BY <2>1, <2>2
<1>5. PlaceInv'
  BY <1>3, <1>4 DEF PlaceInv
<1>. QED
  BY <1>1, <1>5 DEF FlowInv

(* What a write does to the stream and to what its client has. *)
LEMMA WriteParts ==
  ASSUME TypeOK, NEW s \in Streams, NEW e \in 1..MaxEvents, Write(s, e)
  PROVE  /\ stream'[s].pc \in {"next", "done"}
         /\ stream'[s].connected = stream[s].connected
         /\ stream'[s].pc = "done" => ~ stream'[s].heartbeat
         /\ \A o \in Streams \ {s} : stream'[o] = stream[o] /\ sent'[o] = sent[o]
         /\ stream[s].connected => sent'[s] = Append(sent[s], e)
         /\ ~ stream[s].connected => sent'[s] = sent[s]
<1>1. stream[s] \in Stream /\ sent[s] \in Seq(1..MaxEvents)
  BY DEF TypeOK
<1>2. CASE stream[s].connected
  <2>1. PICK rec : rec = [stream[s] EXCEPT !.pc = "next", !.event = 0]
    OBVIOUS
  <2>2. rec \in Stream /\ rec.pc = "next" /\ rec.connected = stream[s].connected
    <3>1. 0 \in 0..MaxEvents
      BY EventsAssumption
    <3>. QED
      BY <1>1, <2>1, <3>1 DEF Stream
  <2>3. stream' = [stream EXCEPT ![s] = rec]
    BY <1>2, <2>1 DEF Write, TypeOK
  <2>4. sent' = [sent EXCEPT ![s] = Append(sent[s], e)]
    BY <1>2 DEF Write, TypeOK
  <2>5. stream'[s] = rec /\ \A o \in Streams \ {s} : stream'[o] = stream[o]
    BY <2>2, <2>3, Changed
  <2>6. sent'[s] = Append(sent[s], e) /\ \A o \in Streams \ {s} : sent'[o] = sent[o]
    BY <2>4 DEF TypeOK
  <2>. QED
    BY <1>2, <2>2, <2>5, <2>6
<1>3. CASE ~ stream[s].connected
  <2>1. PICK rec : rec = [stream[s] EXCEPT !.pc = "done", !.heartbeat = FALSE]
    OBVIOUS
  <2>2. /\ rec \in Stream /\ rec.pc = "done" /\ rec.connected = stream[s].connected
        /\ ~ rec.heartbeat
    BY <1>1, <2>1 DEF Stream
  <2>3. stream' = [stream EXCEPT ![s] = rec] /\ sent' = sent
    BY <1>3, <2>1 DEF Write, Finish, TypeOK
  <2>4. stream'[s] = rec /\ \A o \in Streams \ {s} : stream'[o] = stream[o]
    BY <2>2, <2>3, Changed
  <2>. QED
    BY <1>3, <2>2, <2>3, <2>4
<1>. QED
  BY <1>2, <1>3

(* Who left stays away. *)
LEMMA LeftStays ==
  ASSUME \A s \in Streams : stream'[s].connected => stream[s].connected
  PROVE  SomeoneLeft => SomeoneLeft'
BY DEF SomeoneLeft

(* Writing event e, which is the one that stream s was handed or the next one. *)
LEMMA WriteFlows ==
  ASSUME IndInv, FlowInv, QueueInv', NEW s \in Streams, NEW e \in 1..MaxEvents, Write(s, e),
         \A x \in 1..MaxEvents : Handed(s, x) => x = e,
         \/ Taken' = Taken /\ Handed(s, e)
         \/ Taken' = Taken + 1 /\ e = Taken + 1,
         Taken' \in 0..MaxEvents
  PROVE  FlowInv'
<1>1. /\ stream'[s].pc \in {"next", "done"}
      /\ stream'[s].connected = stream[s].connected
      /\ \A o \in Streams \ {s} : stream'[o] = stream[o] /\ sent'[o] = sent[o]
      /\ stream[s].connected => sent'[s] = Append(sent[s], e)
      /\ ~ stream[s].connected => sent'[s] = sent[s]
  BY WriteParts DEF IndInv
<1>2. Taken \in Nat /\ (\A x \in 1..Taken : x \in 1..MaxEvents) /\ e <= Taken'
  <2>1. Taken \in Nat /\ StreamOrder(s) /\ MaxEvents \in Nat
    BY EventsAssumption DEF FlowInv, QueueInv
  <2>2. e <= Taken'
    BY <2>1 DEF StreamOrder
  <2>. QED
    BY <2>1, <2>2
<1>3. StreamOrder(s) /\ \A i \in 1..Len(sent[s]) : sent[s][i] < e /\ sent[s][i] <= Taken'
  <2>2. \A i \in 1..Len(sent[s]) : sent[s][i] \in 1..MaxEvents
    BY SentType DEF IndInv
  <2>3. StreamOrder(s)
    BY DEF FlowInv
  <2>4. \A i \in 1..Len(sent[s]) : sent[s][i] <= Taken
    BY <2>3 DEF StreamOrder
  <2>5. Handed(s, e) => \A i \in 1..Len(sent[s]) : sent[s][i] < e
    BY <2>3 DEF StreamOrder
  <2>. QED
    BY <1>2, <2>2, <2>3, <2>4, <2>5
<1>4. \A x \in 1..MaxEvents : ~ Handed(s, x)'
  BY <1>1 DEF Handed
<1>5. \A o \in Streams \ {s} : Unmoved(o)
  BY <1>1 DEF Unmoved, Handed
<1>6. SomeoneLeft => SomeoneLeft'
  BY <1>1, LeftStays
<1>7. CASE stream[s].connected
  <2>1. /\ sent[s] \in Seq(1..MaxEvents) /\ Len(sent[s]) \in Nat
        /\ Len(sent'[s]) = Len(sent[s]) + 1 /\ sent'[s][Len(sent[s]) + 1] = e
        /\ \A i \in 1..Len(sent[s]) : sent'[s][i] = sent[s][i]
    <3>1. sent[s] \in Seq(1..MaxEvents)
      BY DEF IndInv, TypeOK
    <3>. QED
      BY <1>1, <1>7, <3>1
  <2>2. \A i \in 1..Len(sent'[s]) : i \in 1..Len(sent[s]) \/ i = Len(sent[s]) + 1
    BY <2>1
  <2>3. \A i \in 1..Len(sent'[s]) : sent'[s][i] <= Taken'
    BY <1>2, <1>3, <2>1, <2>2
  <2>4. \A i, k \in 1..Len(sent'[s]) : i < k => sent'[s][i] < sent'[s][k]
    <3> SUFFICES ASSUME NEW i \in 1..Len(sent'[s]), NEW k \in 1..Len(sent'[s]), i < k
                 PROVE  sent'[s][i] < sent'[s][k]
      OBVIOUS
    <3>1. i \in 1..Len(sent[s]) /\ sent'[s][i] = sent[s][i]
      BY <2>1, <2>2
    <3>2. CASE k \in 1..Len(sent[s])
      BY <1>3, <2>1, <3>1, <3>2 DEF StreamOrder
    <3>3. CASE k = Len(sent[s]) + 1
      BY <1>3, <2>1, <3>1, <3>3
    <3>. QED
      BY <2>2, <3>2, <3>3
  <2>5. StreamOrder(s)'
    BY <1>4, <2>3, <2>4 DEF StreamOrder
  <2>6. \A x \in 1..MaxEvents : At(s, x)' <=> (x = e \/ \E i \in 1..Len(sent[s]) : sent[s][i] = x)
    <3> SUFFICES ASSUME NEW x \in 1..MaxEvents
                 PROVE  At(s, x)' <=> (x = e \/ \E i \in 1..Len(sent[s]) : sent[s][i] = x)
      OBVIOUS
    <3>1. At(s, x)' <=> \E i \in 1..Len(sent'[s]) : sent'[s][i] = x
      BY <1>4 DEF At
    <3>2. Len(sent[s]) + 1 \in 1..Len(sent'[s]) /\ 1..Len(sent[s]) \subseteq 1..Len(sent'[s])
      BY <2>1
    <3>. QED
      BY <2>1, <2>2, <3>1, <3>2
  <2>7. \A x \in 1..Taken : (At(s, x)' => At(s, x)) /\ (At(s, x) => At(s, x)')
    <3> SUFFICES ASSUME NEW x \in 1..Taken PROVE At(s, x)' <=> At(s, x)
      OBVIOUS
    <3>1. x \in 1..MaxEvents /\ (x = e => Handed(s, e))
      BY <1>2
    <3>2. At(s, x) <=> (Handed(s, x) \/ \E i \in 1..Len(sent[s]) : sent[s][i] = x)
      BY DEF At
    <3>. QED
      BY <2>6, <3>1, <3>2
  <2>8. \A x \in 1..MaxEvents : x = Taken + 1 /\ Taken' = x => At(s, x)'
    BY <1>2, <2>6
  <2>. QED
    BY <1>5, <1>6, <2>5, <2>7, <2>8, OneMoves
<1>8. CASE ~ stream[s].connected
  <2>1. sent'[s] = sent[s]
    BY <1>1, <1>8
  <2>2. SomeoneLeft'
    BY <1>1, <1>8 DEF SomeoneLeft
  <2>3. StreamOrder(s)'
    BY <1>3, <1>4, <2>1 DEF StreamOrder
  <2>4. \A x \in 1..Taken : At(s, x)' => At(s, x)
    BY <1>2, <1>4, <2>1 DEF At
  <2>. QED
    BY <1>5, <2>2, <2>3, <2>4, OneMoves
<1>. QED
  BY <1>7, <1>8

-----------------------------------------------------------------------------
LEMMA InitFlows == Init => FlowInv /\ BeatInv
<1> SUFFICES ASSUME Init PROVE FlowInv /\ BeatInv
  OBVIOUS
<1>1. pushed = 0 /\ queue = <<>> /\ Len(<<>>) = 0
  BY DEF Init
<1>2. Len(queue) = 0 /\ Taken = 0
  <2>1. Len(queue) = 0 /\ pushed = 0
    BY <1>1
  <2>. QED
    BY <2>1 DEF Taken
<1>3. QueueInv
  BY <1>2 DEF QueueInv
<1>4. PlaceInv
  BY <1>2 DEF PlaceInv
<1>5. \A s \in Streams : sent[s] = <<>> /\ stream[s].pc = "new" /\ stream[s].connected
  BY DEF Init
<1>6. \A s \in Streams : StreamOrder(s)
  <2> SUFFICES ASSUME NEW s \in Streams PROVE StreamOrder(s)
    OBVIOUS
  <2>1. Len(sent[s]) = 0 /\ \A e : ~ Handed(s, e)
    BY <1>1, <1>5 DEF Handed
  <2>. QED
    BY <2>1 DEF StreamOrder
<1>7. BeatInv
  BY <1>5 DEF Init, BeatInv, HeartbeatIsSafe
<1>. QED
  BY <1>3, <1>4, <1>6, <1>7 DEF FlowInv

LEMMA PushFlows == IndInv /\ FlowInv /\ Push => FlowInv'
<1> SUFFICES ASSUME IndInv, FlowInv, Push PROVE FlowInv'
  OBVIOUS
<1> USE DEF IndInv
<1>1. /\ pushed' = pushed + 1 /\ pushed' \in 1..MaxEvents /\ sent' = sent
      /\ pushed \in Nat /\ MaxEvents \in Nat
  BY EventsAssumption DEF Push, TypeOK
<1>2. CASE waiters = <<>>
  <2>1. queue' = Append(queue, pushed') /\ stream' = stream /\ queue \in Seq(1..MaxEvents)
    BY <1>2 DEF Push, TypeOK
  <2>2. /\ Len(queue) \in Nat /\ Len(queue') = Len(queue) + 1
        /\ queue'[Len(queue) + 1] = pushed'
        /\ \A k \in 1..Len(queue) : queue'[k] = queue[k]
    BY <1>1, <2>1
  <2>3. Taken' = Taken /\ Taken = pushed - Len(queue) /\ Taken \in Nat
    BY <1>1, <2>2 DEF Taken, FlowInv, QueueInv
  <2>4. QueueInv'
    <3> SUFFICES ASSUME NEW k \in 1..Len(queue') PROVE queue'[k] = Taken' + k
      BY <2>3 DEF QueueInv
    <3>1. CASE k \in 1..Len(queue)
      BY <2>2, <2>3, <3>1 DEF FlowInv, QueueInv
    <3>2. CASE k = Len(queue) + 1
      BY <1>1, <2>2, <2>3, <3>2
    <3>. QED
      BY <2>2, <3>1, <3>2
  <2>5. \A s \in Streams : Unmoved(s)
    BY <1>1, <2>1 DEF Unmoved, Handed
  <2>6. SomeoneLeft => SomeoneLeft'
    BY <2>1 DEF SomeoneLeft
  <2>. QED
    BY <2>3, <2>4, <2>5, <2>6, NothingMoves
<1>3. CASE waiters # <<>>
  <2>1. PICK s \in Streams : s = Head(waiters) /\ stream[s].pc = "waiting"
    <3>1. Head(waiters) = waiters[1] /\ 1 \in 1..Len(waiters) /\ waiters[1] \in Streams
      BY <1>3 DEF TypeOK
    <3>. QED
      BY <3>1 DEF WaitInv
  <2>2. queue = <<>> /\ queue' = <<>> /\ Len(<<>>) = 0
    BY <1>3 DEF Push, RendezvousInv
  <2>3. Taken = pushed /\ Taken' = Taken + 1 /\ Taken' \in 0..MaxEvents /\ Taken \in Nat
    <3>1. Len(queue) = 0 /\ Len(queue') = 0
      BY <2>2
    <3>. QED
      BY <1>1, <3>1 DEF Taken
  <2>4. QueueInv'
    <3>1. Len(queue') = 0
      BY <2>2
    <3>. QED
      BY <2>3, <3>1 DEF QueueInv
  <2>5. PICK rec \in Stream : /\ rec.pc = "handed" /\ rec.event = pushed'
                             /\ rec.connected = stream[s].connected
                             /\ stream' = [stream EXCEPT ![s] = rec]
    <3>1. stream[s] \in Stream /\ pushed' \in 0..MaxEvents
      BY <1>1, <2>1 DEF TypeOK
    <3>2. [stream[s] EXCEPT !.pc = "handed", !.event = pushed'] \in Stream
      BY <3>1 DEF Stream
    <3>3. stream' = [stream EXCEPT ![s] = [stream[s] EXCEPT !.pc = "handed",
                                                            !.event = pushed']]
      BY <1>3, <2>1 DEF Push, TypeOK
    <3>. QED
      BY <3>1, <3>2, <3>3 DEF Stream
  <2>6. stream'[s] = rec /\ \A o \in Streams \ {s} : stream'[o] = stream[o]
    BY <2>1, <2>5, Changed
  <2>7. \A o \in Streams \ {s} : Unmoved(o)
    BY <1>1, <2>6 DEF Unmoved, Handed
  <2>8. SomeoneLeft => SomeoneLeft'
    BY <2>5, <2>6, LeftStays
  <2>9. \A e \in 1..MaxEvents : (Handed(s, e)' <=> e = Taken + 1) /\ ~ Handed(s, e)
    BY <1>1, <2>1, <2>3, <2>5, <2>6 DEF Handed
  <2>10. StreamOrder(s) /\ sent'[s] = sent[s]
    BY <1>1, <2>1 DEF FlowInv
  <2>11. StreamOrder(s)'
    <3>1. /\ Len(sent[s]) \in Nat
          /\ \A i \in 1..Len(sent[s]) : sent[s][i] \in 1..MaxEvents /\ sent[s][i] <= Taken
      BY <2>1, <2>10, SentType DEF StreamOrder
    <3>2. \A i \in 1..Len(sent[s]) : sent[s][i] <= Taken' /\ sent[s][i] < Taken + 1
      BY <2>3, <3>1
    <3>3. \A e \in 1..MaxEvents : Handed(s, e)' =>
            e <= Taken' /\ \A i \in 1..Len(sent[s]) : sent[s][i] < e
      BY <2>3, <2>9, <3>2
    <3>. QED
      BY <2>10, <3>2, <3>3 DEF StreamOrder
  <2>12. \A e \in 1..Taken : At(s, e)' <=> At(s, e)
    <3> SUFFICES ASSUME NEW e \in 1..Taken PROVE At(s, e)' <=> At(s, e)
      OBVIOUS
    <3>1. e \in 1..MaxEvents /\ e # Taken + 1
      BY <1>1, <2>3
    <3>. QED
      BY <2>9, <2>10, <3>1 DEF At
  <2>13. \A e \in 1..MaxEvents : e = Taken + 1 /\ Taken' = e => At(s, e)'
    BY <2>9 DEF At
  <2>. QED
    BY <2>1, <2>3, <2>4, <2>7, <2>8, <2>11, <2>12, <2>13, OneMoves
<1>. QED
  BY <1>2, <1>3

(* A step that leaves the queue alone and moves no event. *)
LEMMA QuietFlows ==
  ASSUME IndInv, FlowInv, UNCHANGED <<queue, pushed, sent>>,
         \A s \in Streams : \A e \in 1..MaxEvents : Handed(s, e)' <=> Handed(s, e),
         \A s \in Streams : stream'[s].connected => stream[s].connected
  PROVE  FlowInv'
<1>1. Taken' = Taken /\ QueueInv'
  BY DEF Taken, FlowInv, QueueInv
<1>2. \A s \in Streams : Unmoved(s)
  BY DEF Unmoved
<1>3. SomeoneLeft => SomeoneLeft'
  BY LeftStays
<1>. QED
  BY <1>1, <1>2, <1>3, NothingMoves

LEMMA TakeFlows ==
  ASSUME IndInv, FlowInv, NEW s \in Streams, TakeQueued(s)
  PROVE  FlowInv'
<1> USE DEF IndInv
<1>1. /\ stream[s].pc = "next" /\ queue # <<>> /\ queue' = Tail(queue) /\ pushed' = pushed
      /\ Write(s, Head(queue)) /\ queue \in Seq(1..MaxEvents)
  BY DEF TakeQueued, TypeOK
<1>2. /\ Len(queue) \in Nat \ {0} /\ Head(queue) \in 1..MaxEvents /\ Head(queue) = queue[1]
      /\ Len(queue') = Len(queue) - 1
      /\ \A k \in 1..Len(queue') : queue'[k] = queue[k + 1]
  <2>1. Head(queue) \in 1..MaxEvents /\ Len(queue') = Len(queue) - 1
    BY <1>1, Parts
  <2>2. Len(queue) \in Nat \ {0} /\ Head(queue) = queue[1]
    BY <1>1
  <2>3. \A k \in 1..Len(queue') : queue'[k] = queue[k + 1]
    BY <1>1, <2>1, <2>2
  <2>. QED
    BY <2>1, <2>2, <2>3
<1>3. pushed \in 0..MaxEvents /\ MaxEvents \in Nat /\ QueueInv
  BY EventsAssumption DEF TypeOK, FlowInv
<1>4. Taken' = Taken + 1 /\ Taken \in Nat /\ Taken' \in 0..MaxEvents
  <2>1. Taken = pushed - Len(queue) /\ Taken' = pushed - Len(queue') /\ Taken \in Nat
    BY <1>1, <1>3 DEF Taken, QueueInv
  <2>. QED
    BY <1>2, <1>3, <2>1
<1>5. Head(queue) = Taken + 1
  BY <1>2, <1>3 DEF QueueInv
<1>6. QueueInv'
  <2> SUFFICES ASSUME NEW k \in 1..Len(queue') PROVE queue'[k] = Taken' + k
    BY <1>4 DEF QueueInv
  <2>1. k + 1 \in 1..Len(queue) /\ queue'[k] = queue[k + 1]
    BY <1>2
  <2>2. queue[k + 1] = Taken + (k + 1)
    BY <1>3, <2>1 DEF QueueInv
  <2>. QED
    BY <1>4, <2>1, <2>2
<1>7. \A x \in 1..MaxEvents : ~ Handed(s, x)
  BY <1>1 DEF Handed
<1>. QED
  BY <1>1, <1>2, <1>4, <1>5, <1>6, <1>7, WriteFlows

LEMMA WakeFlows ==
  ASSUME IndInv, FlowInv, NEW s \in Streams, Wake(s)
  PROVE  FlowInv'
<1> USE DEF IndInv
<1>1. stream[s].pc = "handed" /\ UNCHANGED <<queue, pushed>>
  BY DEF Wake
<1>2. CASE stream[s].event = 0
  <2>1. Finish(s)
    BY <1>2 DEF Wake
  <2>2. /\ stream'[s].pc = "done" /\ stream'[s].connected = stream[s].connected
        /\ \A o \in Streams \ {s} : stream'[o] = stream[o]
        /\ sent' = sent
    BY <2>1, Finished
  <2>3. \A e \in 1..MaxEvents : ~ Handed(s, e)' /\ ~ Handed(s, e)
    BY <1>2, <2>2 DEF Handed
  <2>4. \A o \in Streams : \A e \in 1..MaxEvents : Handed(o, e)' <=> Handed(o, e)
    BY <2>2, <2>3 DEF Handed
  <2>. QED
    BY <1>1, <2>2, <2>4, QuietFlows
<1>3. CASE stream[s].event # 0
  <2>1. PICK e \in 1..MaxEvents : e = stream[s].event
    <3>1. stream[s].event \in 0..MaxEvents
      BY DEF TypeOK, Stream
    <3>. QED
      BY <1>3, <3>1, EventsAssumption
  <2>2. Write(s, e)
    BY <1>3, <2>1 DEF Wake
  <2>3. Taken' = Taken /\ QueueInv' /\ Handed(s, e)
    BY <1>1, <2>1 DEF Taken, FlowInv, QueueInv, Handed
  <2>4. \A x \in 1..MaxEvents : Handed(s, x) => x = e
    BY <2>1 DEF Handed
  <2>5. Taken' \in 0..MaxEvents
    <3>1. Taken \in Nat /\ Taken = pushed - Len(queue) /\ pushed \in 0..MaxEvents
      BY DEF Taken, FlowInv, QueueInv, TypeOK
    <3>2. Len(queue) \in Nat
      BY Counts
    <3>. QED
      BY <2>3, <3>1, <3>2, EventsAssumption
  <2>. QED
    BY <2>2, <2>3, <2>4, <2>5, WriteFlows
<1>. QED
  BY <1>2, <1>3

(* The record of stream s after a step that leaves it between two events. *)
LEMMA OtherStep ==
  ASSUME IndInv, NEW s \in Streams, Start(s) \/ End(s) \/ Sleep(s) \/ Disconnect(s)
  PROVE  /\ UNCHANGED <<queue, pushed, sent>>
         /\ \A o \in Streams \ {s} : stream'[o] = stream[o]
         /\ stream'[s].connected => stream[s].connected
         /\ \/ stream[s].pc # "handed" /\ stream'[s].pc # "handed"
            \/ stream'[s].pc = stream[s].pc /\ stream'[s].event = stream[s].event
         /\ stream'[s].pc = "done" => ~ stream'[s].heartbeat
<1> USE DEF IndInv
<1>1. stream[s] \in Stream
  BY DEF TypeOK
<1>2. CASE Start(s)
  <2>1. PICK rec : rec = [stream[s] EXCEPT !.pc = "next", !.heartbeat = KeepAlive]
    OBVIOUS
  <2>2. rec \in Stream /\ rec.pc = "next" /\ rec.connected = stream[s].connected
    BY <1>1, <2>1, OptionsAssumption DEF Stream
  <2>3. stream' = [stream EXCEPT ![s] = rec]
    BY <1>2, <2>1 DEF Start, TypeOK
  <2>. QED
    BY <1>2, <2>2, <2>3, Changed DEF Start
<1>3. CASE End(s)
  <2>1. PICK rec : rec = [stream[s] EXCEPT !.pc = "done", !.heartbeat = FALSE]
    OBVIOUS
  <2>2. /\ rec \in Stream /\ rec.pc = "done" /\ rec.connected = stream[s].connected
        /\ ~ rec.heartbeat
    BY <1>1, <2>1 DEF Stream
  <2>3. stream' = [stream EXCEPT ![s] = rec]
    BY <1>3, <2>1 DEF End, Finish, TypeOK
  <2>. QED
    BY <1>3, <2>2, <2>3, Changed DEF End, Finish
<1>4. CASE Sleep(s)
  <2>1. PICK rec : rec = [stream[s] EXCEPT !.pc = "waiting"]
    OBVIOUS
  <2>2. rec \in Stream /\ rec.pc = "waiting" /\ rec.connected = stream[s].connected
    BY <1>1, <2>1 DEF Stream
  <2>3. stream' = [stream EXCEPT ![s] = rec]
    BY <1>4, <2>1 DEF Sleep, TypeOK
  <2>. QED
    BY <1>4, <2>2, <2>3, Changed DEF Sleep
<1>5. CASE Disconnect(s)
  <2>1. PICK rec : rec = [stream[s] EXCEPT !.connected = FALSE]
    OBVIOUS
  <2>2. /\ rec \in Stream /\ rec.pc = stream[s].pc /\ rec.event = stream[s].event
        /\ ~ rec.connected
    BY <1>1, <2>1 DEF Stream
  <2>3. stream' = [stream EXCEPT ![s] = rec]
    BY <1>5, <2>1 DEF Disconnect, TypeOK
  <2>. QED
    BY <1>5, <2>2, <2>3, Changed DEF Disconnect
<1>. QED
  BY <1>2, <1>3, <1>4, <1>5

LEMMA OtherFlows ==
  ASSUME IndInv, FlowInv, NEW s \in Streams, Start(s) \/ End(s) \/ Sleep(s) \/ Disconnect(s)
  PROVE  FlowInv'
<1>1. \A o \in Streams : \A e \in 1..MaxEvents : Handed(o, e)' <=> Handed(o, e)
  BY OtherStep DEF Handed
<1>2. \A o \in Streams : stream'[o].connected => stream[o].connected
  BY OtherStep
<1>. QED
  BY <1>1, <1>2, OtherStep, QuietFlows

(* Closing wakes the waiters, and nobody else. *)
LEMMA CloseParts ==
  ASSUME IndInv, Close
  PROVE  \A s \in Streams : \/ stream'[s] = stream[s]
                            \/ /\ stream[s].pc = "waiting" /\ stream'[s].pc = "handed"
                               /\ stream'[s].event = 0
                               /\ stream'[s].connected = stream[s].connected
<1> USE DEF IndInv
<1> TAKE s \in Streams
<1>1. stream[s] \in Stream
  BY DEF TypeOK
<1>2. (\E i \in 1..Len(waiters) : waiters[i] = s) => stream[s].pc = "waiting"
  BY DEF WaitInv, TypeOK
<1>3. CASE \E i \in 1..Len(waiters) : waiters[i] = s
  <2>1. stream'[s] = [stream[s] EXCEPT !.pc = "handed", !.event = 0]
    BY <1>3 DEF Close
  <2>. QED
    BY <1>1, <1>2, <1>3, <2>1 DEF Stream
<1>4. CASE ~ \E i \in 1..Len(waiters) : waiters[i] = s
  BY <1>4 DEF Close
<1>. QED
  BY <1>3, <1>4

LEMMA CloseFlows == IndInv /\ FlowInv /\ Close => FlowInv'
<1> SUFFICES ASSUME IndInv, FlowInv, Close PROVE FlowInv'
  OBVIOUS
<1>1. \A s \in Streams : \A e \in 1..MaxEvents : Handed(s, e)' <=> Handed(s, e)
  BY CloseParts DEF Handed
<1>2. \A s \in Streams : stream'[s].connected => stream[s].connected
  BY CloseParts
<1>3. UNCHANGED <<queue, pushed, sent>>
  BY DEF Close
<1>. QED
  BY <1>1, <1>2, <1>3, QuietFlows

LEMMA NextFlows == IndInv /\ FlowInv /\ [Next]_vars => FlowInv'
<1> SUFFICES ASSUME IndInv, FlowInv, [Next]_vars PROVE FlowInv'
  OBVIOUS
<1>1. ASSUME NEW s \in Streams, Heartbeat(s) PROVE FlowInv'
  <2>1. UNCHANGED <<queue, pushed, sent, stream>>
    BY <1>1 DEF Heartbeat
  <2>. QED
    BY <2>1, QuietFlows DEF Handed
<1>2. CASE UNCHANGED vars
  <2>1. UNCHANGED <<queue, pushed, sent, stream>>
    BY <1>2 DEF vars
  <2>. QED
    BY <2>1, QuietFlows DEF Handed
<1>. QED
  BY <1>1, <1>2, PushFlows, CloseFlows, TakeFlows, WakeFlows, OtherFlows DEF Next, Iterate

-----------------------------------------------------------------------------
LEMMA NextBeats == IndInv /\ BeatInv /\ [Next]_vars => BeatInv'
<1> SUFFICES ASSUME IndInv, BeatInv, [Next]_vars PROVE BeatInv'
  OBVIOUS
<1> USE DEF IndInv
<1>0. ASSUME uncaught' = uncaught,
             \A s \in Streams : stream'[s].connected => stream[s].connected,
             \A s \in Streams : stream'[s].pc = "done" => ~ stream'[s].heartbeat
      PROVE  BeatInv'
  BY <1>0, LeftStays DEF BeatInv, HeartbeatIsSafe
<1>1. CASE Push
  <2>1. CASE waiters = <<>>
    <3>1. UNCHANGED <<stream, uncaught>>
      BY <1>1, <2>1 DEF Push
    <3>. QED
      BY <3>1, <1>0 DEF BeatInv
  <2>2. CASE waiters # <<>>
    <3>1. PICK s \in Streams : s = Head(waiters)
      BY <2>2 DEF TypeOK
    <3>2. PICK rec : rec = [stream[s] EXCEPT !.pc = "handed", !.event = pushed']
      OBVIOUS
    <3>3. stream[s] \in Stream /\ pushed' \in 0..MaxEvents
      BY <1>1, EventsAssumption DEF Push, TypeOK
    <3>4. rec \in Stream /\ rec.pc = "handed" /\ rec.connected = stream[s].connected
      BY <3>2, <3>3 DEF Stream
    <3>5. stream' = [stream EXCEPT ![s] = rec] /\ uncaught' = uncaught
      BY <1>1, <2>2, <3>1, <3>2 DEF Push, TypeOK
    <3>6. stream'[s] = rec /\ \A o \in Streams \ {s} : stream'[o] = stream[o]
      BY <3>4, <3>5, Changed
    <3>. QED
      BY <1>0, <3>4, <3>5, <3>6 DEF BeatInv
  <2>. QED
    BY <2>1, <2>2
<1>2. CASE Close
  <2>1. uncaught' = uncaught
    BY <1>2 DEF Close
  <2>. QED
    BY <1>0, <1>2, <2>1, CloseParts DEF BeatInv
<1>3. ASSUME NEW s \in Streams, Start(s) \/ End(s) \/ Sleep(s) \/ Disconnect(s)
      PROVE  BeatInv'
  <2>1. uncaught' = uncaught
    BY <1>3 DEF Start, End, Sleep, Disconnect
  <2>. QED
    BY <1>0, <1>3, <2>1, OtherStep DEF BeatInv
<1>4. ASSUME NEW s \in Streams, NEW e \in 1..MaxEvents, Write(s, e), uncaught' = uncaught
      PROVE  BeatInv'
  BY <1>0, <1>4, WriteParts DEF BeatInv
<1>5. ASSUME NEW s \in Streams, TakeQueued(s) PROVE BeatInv'
  <2>1. Head(queue) \in 1..MaxEvents
    <3>1. queue \in Seq(1..MaxEvents) /\ queue # <<>>
      BY <1>5 DEF TakeQueued, TypeOK
    <3>. QED
      BY <3>1, Parts
  <2>. QED
    BY <1>4, <1>5, <2>1 DEF TakeQueued
<1>6. ASSUME NEW s \in Streams, Wake(s) PROVE BeatInv'
  <2>1. stream[s] \in Stream /\ uncaught' = uncaught
    BY <1>6 DEF Wake, TypeOK
  <2>2. CASE stream[s].event # 0
    <3>1. stream[s].event \in 1..MaxEvents
      BY <2>1, <2>2, EventsAssumption DEF Stream
    <3>. QED
      BY <1>4, <1>6, <2>1, <2>2, <3>1 DEF Wake
  <2>3. CASE stream[s].event = 0
    <3>1. PICK rec : rec = [stream[s] EXCEPT !.pc = "done", !.heartbeat = FALSE]
      OBVIOUS
    <3>2. rec \in Stream /\ rec.connected = stream[s].connected /\ ~ rec.heartbeat
      BY <2>1, <3>1 DEF Stream
    <3>3. stream' = [stream EXCEPT ![s] = rec]
      BY <1>6, <2>3, <3>1 DEF Wake, Finish, TypeOK
    <3>4. stream'[s] = rec /\ \A o \in Streams \ {s} : stream'[o] = stream[o]
      BY <3>2, <3>3, Changed
    <3>. QED
      BY <1>0, <2>1, <3>2, <3>4 DEF BeatInv
  <2>. QED
    BY <2>2, <2>3
<1>7. ASSUME NEW s \in Streams, Heartbeat(s) PROVE BeatInv'
  <2>1. SomeoneLeft /\ stream' = stream
    BY <1>7 DEF Heartbeat, BeatInv, SomeoneLeft
  <2>. QED
    BY <2>1 DEF BeatInv, HeartbeatIsSafe, SomeoneLeft
<1>8. CASE UNCHANGED vars
  BY <1>8 DEF vars, BeatInv, HeartbeatIsSafe, SomeoneLeft
<1>. QED
  BY <1>1, <1>2, <1>3, <1>5, <1>6, <1>7, <1>8 DEF Next, Iterate

(* A heartbeat throws only in a timer of a stream whose client left: the one of a
   stream that ends is cleared. *)
THEOREM HeartbeatsStop == Spec => []HeartbeatIsSafe
<1>1. BeatInv => HeartbeatIsSafe
  BY DEF BeatInv
<1>. QED
  BY <1>1, Inductive, InitFlows, NextBeats, PTL DEF Spec

-----------------------------------------------------------------------------
(* The places of an event, one kind after the other. *)
LEMMA PlaceCases ==
  ASSUME NEW e, NEW place \in Places(e)
  PROVE  \/ \E i \in 1..Len(queue) : queue[i] = e /\ place = <<"queue", i>>
         \/ \E s \in Streams : Handed(s, e) /\ place = <<"handed", s>>
         \/ \E s \in Streams : \E i \in 1..Len(sent[s]) : sent[s][i] = e /\ place = <<s, i>>
BY DEF Places, Handed

LEMMA OnePlace == IndInv /\ FlowInv => EachEventOnce
<1> SUFFICES ASSUME IndInv, FlowInv, ~ SomeoneLeft, NEW e \in 1..pushed
             PROVE  \E place \in Places(e) : Places(e) = {place}
  BY DEF EachEventOnce
<1>1. /\ pushed \in Nat /\ Len(queue) \in Nat /\ Taken \in Nat /\ e \in 1..MaxEvents
      /\ Taken = pushed - Len(queue)
  <2>1. pushed \in 0..MaxEvents /\ MaxEvents \in Nat
    BY EventsAssumption DEF IndInv, TypeOK
  <2>. QED
    BY <2>1, Counts DEF FlowInv, QueueInv, Taken
<1>2. \A k \in 1..Len(queue) : queue[k] = Taken + k
  BY DEF FlowInv, QueueInv
<1>3. \A s \in Streams : StreamOrder(s)
  BY DEF FlowInv
<1>4. CASE e > Taken
  <2>1. e - Taken \in 1..Len(queue) /\ queue[e - Taken] = e
    BY <1>1, <1>2, <1>4
  <2>2. <<"queue", e - Taken>> \in Places(e)
    BY <2>1 DEF Places
  <2>3. \A i \in 1..Len(queue) : queue[i] = e => i = e - Taken
    <3> SUFFICES ASSUME NEW i \in 1..Len(queue), queue[i] = e PROVE i = e - Taken
      OBVIOUS
    <3>1. Taken + i = e
      BY <1>2
    <3>. QED
      BY <1>1, <3>1
  <2>4. \A s \in Streams : ~ At(s, e)
    <3> SUFFICES ASSUME NEW s \in Streams, At(s, e) PROVE FALSE
      OBVIOUS
    <3>1. e <= Taken
      BY <1>1, AtTaken
    <3>. QED
      BY <1>1, <1>4, <3>1
  <2>5. \A place \in Places(e) : place = <<"queue", e - Taken>>
    BY <2>3, <2>4, PlaceCases DEF At
  <2>. QED
    BY <2>2, <2>5
<1>5. CASE e <= Taken
  <2>1. \A i \in 1..Len(queue) : queue[i] # e
    BY <1>1, <1>2, <1>5
  <2>2. e \in 1..Taken
    BY <1>1, <1>5
  <2>3. PICK s \in Streams : At(s, e)
    BY <2>2 DEF FlowInv, PlaceInv
  <2>4. \A o \in Streams : At(o, e) => o = s
    BY <2>2, <2>3 DEF FlowInv, PlaceInv
  <2>5. Len(sent[s]) \in Nat /\ \A i \in 1..Len(sent[s]) : sent[s][i] \in 1..MaxEvents
    BY SentType DEF IndInv
  <2>6. CASE Handed(s, e)
    <3>1. <<"handed", s>> \in Places(e)
      BY <2>6 DEF Places, Handed
    <3>2. \A i \in 1..Len(sent[s]) : sent[s][i] # e
      BY <1>1, <1>3, <2>5, <2>6 DEF StreamOrder
    <3>3. \A place \in Places(e) : place = <<"handed", s>>
      BY <2>1, <2>4, <3>2, PlaceCases DEF At
    <3>. QED
      BY <3>1, <3>3
  <2>7. CASE ~ Handed(s, e)
    <3>1. PICK i \in 1..Len(sent[s]) : sent[s][i] = e
      BY <2>3, <2>7 DEF At
    <3>2. <<s, i>> \in Places(e)
      BY <3>1 DEF Places
    <3>3. \A k \in 1..Len(sent[s]) : sent[s][k] = e => k = i
      <4> SUFFICES ASSUME NEW k \in 1..Len(sent[s]), sent[s][k] = e PROVE k = i
        OBVIOUS
      <4>1. (i < k => e < e) /\ (k < i => e < e)
        BY <1>3, <3>1 DEF StreamOrder
      <4>. QED
        BY <1>1, <2>5, <4>1
    <3>4. \A place \in Places(e) : place = <<s, i>>
      BY <2>1, <2>4, <2>7, <3>3, PlaceCases DEF At
    <3>. QED
      BY <3>2, <3>4
  <2>. QED
    BY <2>6, <2>7
<1>. QED
  BY <1>1, <1>4, <1>5

LEMMA Ordered == IndInv /\ FlowInv => SentInOrder
<1> SUFFICES ASSUME IndInv, FlowInv, NEW s \in Streams
             PROVE  /\ \A i, k \in 1..Len(sent[s]) : i < k => sent[s][i] < sent[s][k]
                    /\ stream[s].pc = "handed" /\ stream[s].event # 0 =>
                         \A i \in 1..Len(sent[s]) : sent[s][i] < stream[s].event
                    /\ \A i \in 1..Len(sent[s]), k \in 1..Len(queue) : sent[s][i] < queue[k]
  BY DEF SentInOrder
<1>1. StreamOrder(s) /\ stream[s].event \in 0..MaxEvents
  BY DEF FlowInv, IndInv, TypeOK, Stream
<1>2. \A i, k \in 1..Len(sent[s]) : i < k => sent[s][i] < sent[s][k]
  BY <1>1 DEF StreamOrder
<1>3. ASSUME stream[s].pc = "handed", stream[s].event # 0
      PROVE  \A i \in 1..Len(sent[s]) : sent[s][i] < stream[s].event
  <2>1. stream[s].event \in 1..MaxEvents
    BY <1>1, <1>3, EventsAssumption
  <2>. QED
    BY <1>1, <1>3, <2>1 DEF StreamOrder, Handed
<1>4. \A i \in 1..Len(sent[s]), k \in 1..Len(queue) : sent[s][i] < queue[k]
  <2> SUFFICES ASSUME NEW i \in 1..Len(sent[s]), NEW k \in 1..Len(queue)
               PROVE  sent[s][i] < queue[k]
    OBVIOUS
  <2>1. sent[s][i] \in 1..MaxEvents /\ sent[s][i] <= Taken
    BY <1>1, SentType DEF IndInv, StreamOrder
  <2>2. queue[k] = Taken + k /\ Taken \in Nat
    BY DEF FlowInv, QueueInv
  <2>. QED
    BY <2>1, <2>2, Counts
<1>. QED
  BY <1>2, <1>3, <1>4

(* The channel loses, doubles and reorders no event: while no client leaves, every
   event that was pushed is in one place, and in the order of the pushes. *)
THEOREM InOrder == Spec => []InOrderOnce
<1>1. Spec => []FlowInv
  BY Inductive, InitFlows, NextFlows, PTL DEF Spec
<1>2. IndInv /\ FlowInv => InOrderOnce
  BY OnePlace, Ordered DEF InOrderOnce
<1>. QED
  BY <1>1, <1>2, Inductive, PTL
=============================================================================
