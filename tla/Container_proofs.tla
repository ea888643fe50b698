--------------------------- MODULE Container_proofs ---------------------------
(* Proofs about Container, for any classes, bindings, factories and requests,
   and constructions nested to any depth. *)
EXTENDS Container, SequenceTheorems, TLAPS

-----------------------------------------------------------------------------
(* The inductive invariant. *)

Tracked == {disposables[i] : i \in 1..Len(disposables)}

(* What a call in progress has done so far.  A singleton is in the cache    *)
(* once its constructor returned, and tracked once its hooks ran; the bean  *)
(* of a request is not in the request yet.                                  *)
FrameOK(f) ==
  /\ f.as = "factory" => f.of \in Factories
  /\ f.as # "factory" => f.of \in Classes
  /\ f.as = "held" => request \in Requests /\ f.of \notin held[request]
  /\ f.as = "singleton" /\ f.phase = "new" => cached[f.of] = "none"
  /\ f.as = "singleton" /\ f.phase # "new" => cached[f.of] # "none"
  /\ f.as = "singleton" => (f.of \in Tracked <=> f.phase = "process")

Frames == \A i \in 1..Len(stack) : FrameOK(stack[i])

(* Each frame will put back what was so before it was pushed. *)
Restores ==
  /\ \A i \in 1..Len(stack) : stack[i].previous = (i > 1)
  /\ ~ Running => request = "none"

Instances ==
  /\ \A c \in Classes : made["none"][c] = IF cached[c] = "none" THEN 0 ELSE 1
  /\ \A q \in Requests, c \in Classes : made[q][c] = IF c \in held[q] THEN 1 ELSE 0

(* What is finished is tracked, what is tracked was made, and whoever was   *)
(* given a singleton was given a tracked one.                               *)
Disposal ==
  /\ \A d \in Classes : cached[d] = "done" => d \in Tracked
  /\ \A d \in Classes : d \in Tracked => cached[d] # "none"
  /\ \A c, d \in Classes : <<c, d>> \in uses => d \in Tracked
  /\ DependenciesFirst

(* No hook that began before the application was ready is forgotten. *)
Remembered ==
  /\ \A c \in atBoot : hook[c] # "none"
  /\ boot # "ready" => \A c \in atBoot :
       hook[c] = "settled" \/ c \in initPromises \/ c \in awaited
  /\ ReadyMeansInitialized

Inv ==
  /\ TypeOK
  /\ ContextMatchesStack /\ Restores
  /\ Frames
  /\ Instances
  /\ Disposal
  /\ Remembered

-----------------------------------------------------------------------------
(* The stack. *)

(* Append adds one frame on top. *)
LEMMA Pushed ==
  ASSUME NEW S, NEW s \in Seq(S), NEW f \in S
  PROVE  /\ Append(s, f) \in Seq(S)
         /\ Len(s) \in Nat /\ Len(Append(s, f)) = Len(s) + 1
         /\ \A i \in 1..Len(s) : Append(s, f)[i] = s[i]
         /\ Append(s, f)[Len(s) + 1] = f
  OBVIOUS

(* SubSeq takes the top frame away. *)
LEMMA Popped ==
  ASSUME NEW S, NEW s \in Seq(S), s # <<>>
  PROVE  /\ SubSeq(s, 1, Len(s) - 1) \in Seq(S)
         /\ Len(s) \in Nat \ {0} /\ Len(SubSeq(s, 1, Len(s) - 1)) = Len(s) - 1
         /\ \A i \in 1..(Len(s) - 1) : SubSeq(s, 1, Len(s) - 1)[i] = s[i]
         /\ s[Len(s)] \in S
<1>1. Len(s) \in Nat \ {0} /\ s[Len(s)] \in S
  BY EmptySeq
<1> DEFINE n == Len(s) - 1
<1>2. n \in Int /\ 1 \in Int /\ \A i \in 1..n : s[i] \in S
  BY <1>1
<1>3. /\ SubSeq(s, 1, n) \in Seq(S)
      /\ Len(SubSeq(s, 1, n)) = IF 1 <= n THEN n - 1 + 1 ELSE 0
      /\ \A i \in 1..(n - 1 + 1) : SubSeq(s, 1, n)[i] = s[1 + i - 1]
  <2> HIDE DEF n
  <2> QED BY <1>2, SubSeqProperties
<1>4. n - 1 + 1 = n /\ (IF 1 <= n THEN n - 1 + 1 ELSE 0) = n /\ \A i \in 1..n : 1 + i - 1 = i
  BY <1>1
<1>5. SubSeq(s, 1, n) \in Seq(S) /\ Len(SubSeq(s, 1, n)) = n
      /\ \A i \in 1..n : SubSeq(s, 1, n)[i] = s[i]
  <2> HIDE DEF n
  <2> QED BY <1>3, <1>4
<1> QED BY <1>1, <1>5

(* The list of singletons to dispose of grows at its end. *)
LEMMA AppendTracks ==
  ASSUME NEW s \in Seq(Classes), NEW c \in Classes, NEW t, t = Append(s, c)
  PROVE  {t[i] : i \in 1..Len(t)} = {s[i] : i \in 1..Len(s)} \cup {c}
<1>1. /\ Len(s) \in Nat /\ Len(t) = Len(s) + 1
      /\ \A i \in 1..Len(s) : t[i] = s[i]
      /\ t[Len(s) + 1] = c
  BY Pushed
<1>2. 1..(Len(s) + 1) = 1..Len(s) \cup {Len(s) + 1}
  BY <1>1
<1> QED BY <1>1, <1>2

-----------------------------------------------------------------------------
(* Constructions begin. *)

(* What Resolve, Touch and CallFactory have in common when they begin one. *)
Begins(of, as, r) ==
  /\ Push(of, as, r)
  /\ as \in {"singleton", "transient", "held", "factory"}
  /\ r \in Holders
  /\ Running => r = request
  /\ as = "factory" => of \in Factories /\ resolving' = resolving
  /\ as # "factory" =>
       of \in Classes /\ of \notin resolving /\ resolving' = resolving \cup {of}
  /\ as = "singleton" => cached[of] = "none"
  /\ as = "held" => r \in Requests /\ of \notin held[r]

(* A resolution that finds a singleton in the cache hands it to the frame   *)
(* on top.                                                                  *)
Finds(c) ==
  /\ Running /\ c \in Classes
  /\ uses' = uses \cup (IF cached[c] = "done" THEN Given(Top, c) ELSE {})
  /\ UNCHANGED <<table, loading, context, disposables, builds>>

(* Asking for a token either finds it or begins a construction. *)
LEMMA AskBeginsOrFinds ==
  ASSUME Inv, Ask
  PROVE  \/ \E c \in Classes : Finds(c)
         \/ \E of \in Classes \cup Factories,
               as \in {"singleton", "transient", "held", "factory"},
               r \in Holders : Begins(of, as, r)
<1>1. PICK r \in Holders : \/ \E b \in Bindings : Resolve(b, r) \/ Touch(b, r)
                           \/ \E f \in Factories : CallFactory(f, r)
  BY DEF Ask
<1>2. Asks(r) /\ (Running => r = request)
  BY <1>1 DEF Asks, Resolve, Touch, CallFactory
<1>3. ASSUME NEW b \in Bindings, Resolve(b, r)
      PROVE  Finds(b[1]) \/ \E as \in {"singleton", "transient"} : Begins(b[1], as, r)
  <2>1. b[1] \in Classes /\ b[2] \in Scopes
    BY ConstantsAssumption
  <2>2. CASE b[2] = "singleton" /\ cached[b[1]] # "none"
    BY <1>3, <2>1, <2>2 DEF Resolve, Finds
  <2>3. CASE b[2] = "singleton" /\ cached[b[1]] = "none"
    <3>1. Begins(b[1], "singleton", r)
      BY <1>2, <1>3, <2>1, <2>3 DEF Resolve, Construct, MayConstruct, Begins
    <3> QED BY <3>1
  <2>4. CASE b[2] = "transient"
    <3>1. Begins(b[1], "transient", r)
      BY <1>2, <1>3, <2>1, <2>4 DEF Resolve, Construct, MayConstruct, Begins
    <3> QED BY <3>1
  <2> QED BY <1>3, <2>2, <2>3, <2>4 DEF Resolve
<1>4. ASSUME NEW b \in Bindings, Touch(b, r)
      PROVE  \E as \in {"transient", "held"} : Begins(b[1], as, r)
  <2>1. b[1] \in Classes
    BY ConstantsAssumption
  <2>2. CASE r = "none" /\ Construct(b[1], "transient", r)
    <3>1. Begins(b[1], "transient", r)
      BY <1>2, <2>1, <2>2 DEF Construct, MayConstruct, Begins
    <3> QED BY <3>1
  <2>3. CASE r # "none" /\ b[1] \notin held[r] /\ Construct(b[1], "held", r)
    <3>1. r \in Requests
      BY <2>3 DEF Holders
    <3>2. Begins(b[1], "held", r)
      BY <1>2, <2>1, <2>3, <3>1 DEF Construct, MayConstruct, Begins
    <3> QED BY <3>2
  <2> QED BY <1>4, <2>2, <2>3 DEF Touch
<1>5. ASSUME NEW f \in Factories, CallFactory(f, r)
      PROVE  Begins(f, "factory", r)
  BY <1>2, <1>5 DEF CallFactory, Begins
<1>6. \A b \in Bindings : b[1] \in Classes
  BY ConstantsAssumption
<1> QED BY <1>1, <1>3, <1>4, <1>5, <1>6

(* The frame on top is one of the stack. *)
LEMMA TopIs ==
  ASSUME Inv, Running
  PROVE  /\ Len(stack) \in Nat \ {0} /\ Len(stack) \in 1..Len(stack)
         /\ Top \in Frame /\ FrameOK(Top)
         /\ Top.as # "factory" => Top.of \in Classes /\ Top.of \in resolving
         /\ Top.as = "factory" => Top.of \notin Classes
<1>1. Len(stack) \in Nat \ {0} /\ Len(stack) \in 1..Len(stack) /\ Top \in Frame
  BY EmptySeq DEF Inv, TypeOK, Running, Top
<1>2. FrameOK(Top)
  BY <1>1 DEF Inv, Frames, Top
<1>3. Top.as # "factory" => Top.of \in resolving
  BY <1>1 DEF Inv, ContextMatchesStack, IsClassFrame, Top
<1> QED BY <1>1, <1>2, <1>3, ConstantsAssumption DEF FrameOK

(* A construction that begins keeps the invariant. *)
LEMMA BeginStep ==
  ASSUME Inv, NEW of \in Classes \cup Factories,
         NEW as \in {"singleton", "transient", "held", "factory"}, NEW r \in Holders,
         Begins(of, as, r)
  PROVE  Inv'
<1> DEFINE f == [of |-> of, as |-> as, phase |-> "new", previous |-> active]
           n == Len(stack)
<1>1. /\ stack' = Append(stack, f) /\ builds' = builds + 1 /\ active' = TRUE
      /\ request' = r
      /\ UNCHANGED <<cached, factories, held, made, hook, initPromises, awaited, atBoot,
                     boot, disposables, uses>>
  BY DEF Begins, Push, table, loading
<1>2. f \in Frame
  BY DEF Inv, TypeOK, Frame
<1>3. /\ stack' \in Seq(Frame) /\ n \in Nat /\ Len(stack') = n + 1
      /\ \A i \in 1..n : stack'[i] = stack[i]
      /\ stack'[n + 1] = f
  <2> HIDE DEF f
  <2> QED BY <1>1, <1>2, Pushed DEF Inv, TypeOK
<1>4. 1..(n + 1) = 1..n \cup {n + 1} /\ n + 1 \notin 1..n
  BY <1>3
<1>5. f.of = of /\ f.as = as /\ f.phase = "new" /\ f.previous = active
  OBVIOUS
<1> HIDE DEF f, n
<1>6. stack' # <<>>
  <2>1. Len(<<>>) = 0
    OBVIOUS
  <2> QED BY <1>3, <2>1
<1>7. Running <=> n > 0
  <2>1. Len(<<>>) = 0
    OBVIOUS
  <2>2. stack # <<>> => n # 0
    BY EmptySeq DEF n, Inv, TypeOK
  <2> QED BY <1>3, <2>1, <2>2 DEF Running, n
<1>8. TypeOK'
  <2>1. resolving' \subseteq Classes
    BY DEF Begins, Inv, TypeOK
  <2>2. builds' \in Nat
    BY <1>1 DEF Inv, TypeOK
  <2> QED BY <1>1, <1>3, <2>1, <2>2 DEF Inv, TypeOK
<1>9. ContextMatchesStack'
  <2>1. active' = Running'
    BY <1>1, <1>6 DEF Running
  <2>2. resolving' = {stack'[i].of : i \in {j \in 1..Len(stack') : IsClassFrame(j)'}}
    <3>1. resolving = {stack[i].of : i \in {j \in 1..n : stack[j].as # "factory"}}
      BY DEF Inv, ContextMatchesStack, IsClassFrame, n
    <3>2. {stack'[i].of : i \in {j \in 1..(n + 1) : stack'[j].as # "factory"}}
            = {stack[i].of : i \in {j \in 1..n : stack[j].as # "factory"}}
              \cup (IF as = "factory" THEN {} ELSE {of})
      BY <1>3, <1>4, <1>5
    <3>3. resolving' = resolving \cup (IF as = "factory" THEN {} ELSE {of})
      BY DEF Begins
    <3> QED BY <1>3, <3>1, <3>2, <3>3 DEF IsClassFrame
  <2>3. ASSUME NEW i \in 1..Len(stack'), NEW j \in 1..Len(stack'),
               IsClassFrame(i)', IsClassFrame(j)', stack'[i].of = stack'[j].of
        PROVE  i = j
    <3>1. \A k \in 1..n : stack[k].as # "factory" => stack[k].of \in resolving
      BY DEF Inv, ContextMatchesStack, IsClassFrame, n
    <3>2. CASE i = n + 1 /\ j \in 1..n
      BY <1>3, <1>5, <2>3, <3>1, <3>2 DEF IsClassFrame, Begins
    <3>3. CASE j = n + 1 /\ i \in 1..n
      BY <1>3, <1>5, <2>3, <3>1, <3>3 DEF IsClassFrame, Begins
    <3>4. CASE i \in 1..n /\ j \in 1..n
      BY <1>3, <2>3, <3>4 DEF IsClassFrame, Inv, ContextMatchesStack, n
    <3> QED BY <1>3, <1>4, <3>2, <3>3, <3>4
  <2> QED BY <2>1, <2>2, <2>3 DEF ContextMatchesStack
<1>10. Restores'
  <2>1. ASSUME NEW i \in 1..Len(stack')
        PROVE  stack'[i].previous = (i > 1)
    <3>1. CASE i \in 1..n
      BY <1>3, <3>1 DEF Inv, Restores, n
    <3>2. CASE i = n + 1
      <4>1. stack'[i].previous = active /\ active = Running
        BY <1>3, <1>5, <3>2 DEF Inv, ContextMatchesStack
      <4>2. (i > 1) = (n > 0)
        BY <1>3, <3>2
      <4>3. CASE Running
        BY <1>7, <4>1, <4>2, <4>3, Zenon
      <4>4. CASE ~ Running
        <5>1. active = FALSE
          BY <4>1, <4>4, SMT DEF Inv, TypeOK
        <5>2. ~ (n > 0)
          BY <1>7, <4>4
        <5>3. (i > 1) = FALSE
          BY <4>2, <5>2
        <5> QED BY <4>1, <5>1, <5>3
      <4> QED BY <4>3, <4>4
    <3> QED BY <1>3, <1>4, <3>1, <3>2
  <2> QED BY <1>6, <2>1 DEF Restores, Running
<1>11. Frames'
  <2>1. \A i \in 1..n : request' = request
    BY <1>1, <1>3, <1>7 DEF Begins
  <2>2. ASSUME NEW i \in 1..Len(stack')
        PROVE  FrameOK(stack[i])'
    <3>1. CASE i \in 1..n
      <4>1. FrameOK(stack[i]) /\ stack'[i] = stack[i] /\ request' = request
        BY <1>3, <2>1, <3>1 DEF Inv, Frames, n
      <4> QED BY <1>1, <4>1 DEF FrameOK, Tracked
    <3>2. CASE i = n + 1
      <4>1. stack'[i] = f
        BY <1>3, <3>2
      <4>2. as = "singleton" => of \notin Tracked
        BY DEF Inv, Disposal, Begins
      <4> QED BY <1>1, <1>5, <4>1, <4>2 DEF FrameOK, Tracked, Begins
    <3> QED BY <1>3, <1>4, <3>1, <3>2
  <2> QED BY <2>2 DEF Frames
<1>12. Instances' /\ Disposal' /\ Remembered'
  BY <1>1 DEF Inv, Instances, Disposal, DependenciesFirst, Tracked, Remembered,
              ReadyMeansInitialized
<1> QED BY <1>8, <1>9, <1>10, <1>11, <1>12 DEF Inv

-----------------------------------------------------------------------------
(* Constructions end. *)

(* The finally leaves the stack without its top frame, in the state in      *)
(* which that frame found the rest.                                         *)
LEMMA PopContext ==
  ASSUME Inv, Running, Pop, resolving' = resolving \ {Top.of}
  PROVE  /\ stack' \in Seq(Frame)
         /\ Len(stack) \in Nat \ {0} /\ Len(stack') = Len(stack) - 1
         /\ \A i \in 1..(Len(stack) - 1) : stack'[i] = stack[i]
         /\ active' \in BOOLEAN /\ resolving' \subseteq Classes /\ request' \in Holders
         /\ Len(stack) > 1 => request' = request
         /\ ContextMatchesStack' /\ Restores'
<1> DEFINE n == Len(stack)
<1>1. /\ stack' = SubSeq(stack, 1, n - 1) /\ active' = Top.previous
      /\ request' = IF n = 1 THEN "none" ELSE request
  BY DEF Pop
<1>2. /\ stack' \in Seq(Frame) /\ n \in Nat \ {0} /\ Len(stack') = n - 1
      /\ \A i \in 1..(n - 1) : stack'[i] = stack[i]
      /\ Top \in Frame
  BY <1>1, Popped DEF Inv, TypeOK, Running, Top
<1>3. n \in 1..n /\ 1..n = 1..(n - 1) \cup {n} /\ n \notin 1..(n - 1)
  BY <1>2
<1>4. n > 1 => request' = request
  <2>1. n > 1 => n # 1
    BY <1>2
  <2> QED BY <1>1, <2>1, Zenon
<1> HIDE DEF n
<1>5. active' \in BOOLEAN /\ resolving' \subseteq Classes /\ request' \in Holders
  BY <1>1, <1>2 DEF Inv, TypeOK, Frame, Holders
<1>6. stack' # <<>> <=> n > 1
  <2>1. Len(<<>>) = 0
    OBVIOUS
  <2>2. stack' # <<>> => n - 1 # 0
    BY <1>2, EmptySeq
  <2>3. n > 1 => stack' # <<>>
    BY <1>2, <2>1
  <2> QED BY <1>2, <2>2, <2>3
<1>7. active' = Running'
  <2>1. Top.previous = (n > 1)
    BY <1>3 DEF Inv, Restores, Top, n
  <2>2. CASE n > 1
    BY <1>1, <1>6, <2>1, <2>2 DEF Running
  <2>3. CASE ~ (n > 1)
    BY <1>1, <1>6, <2>1, <2>3 DEF Running
  <2> QED BY <2>2, <2>3
<1>8. resolving' = {stack'[i].of : i \in {j \in 1..Len(stack') : IsClassFrame(j)'}}
  <2>1. resolving = {stack[i].of : i \in {j \in 1..n : stack[j].as # "factory"}}
    BY DEF Inv, ContextMatchesStack, IsClassFrame, n
  <2>2. \A i \in 1..(n - 1) : stack[i].as # "factory" => stack[i].of # Top.of
    <3> SUFFICES ASSUME NEW i \in 1..(n - 1), stack[i].as # "factory",
                        stack[i].of = Top.of
                 PROVE  FALSE
      OBVIOUS
    <3>1. stack[i].of \in Classes
      BY <1>3 DEF Inv, Frames, FrameOK, n
    <3>2. Top.as # "factory"
      BY <3>1, TopIs
    <3> QED BY <1>3, <3>2 DEF Inv, ContextMatchesStack, IsClassFrame, Top, n
  <2>3. {stack[i].of : i \in {j \in 1..n : stack[j].as # "factory"}} \ {Top.of}
          = {stack[i].of : i \in {j \in 1..(n - 1) : stack[j].as # "factory"}}
    BY <1>3, <2>2 DEF Top, n
  <2>4. {stack'[i].of : i \in {j \in 1..(n - 1) : stack'[j].as # "factory"}}
          = {stack[i].of : i \in {j \in 1..(n - 1) : stack[j].as # "factory"}}
    BY <1>2
  <2> QED BY <1>2, <2>1, <2>3, <2>4 DEF IsClassFrame
<1>9. \A i, j \in 1..Len(stack') :
        IsClassFrame(i)' /\ IsClassFrame(j)' /\ stack'[i].of = stack'[j].of => i = j
  BY <1>2, <1>3 DEF Inv, ContextMatchesStack, IsClassFrame, n
<1>10. Restores'
  <2>1. \A i \in 1..Len(stack') : stack'[i].previous = (i > 1)
    BY <1>2, <1>3 DEF Inv, Restores, n
  <2>2. ~ (n > 1) => n = 1
    BY <1>2
  <2>3. ~ Running' => request' = "none"
    BY <1>1, <1>6, <2>2 DEF Running
  <2> QED BY <2>1, <2>3 DEF Restores
<1> QED BY <1>2, <1>4, <1>5, <1>7, <1>8, <1>9, <1>10 DEF ContextMatchesStack, n

(* Something is thrown: what was cached or tracked stays. *)
LEMMA ThrowStep ==
  ASSUME Inv, Throw
  PROVE  Inv'
<1>1. Running /\ Pop /\ resolving' = resolving \ {Top.of}
  BY DEF Throw
<1>2. /\ UNCHANGED <<cached, factories, held, made, hook, initPromises, awaited, atBoot,
                     disposables, uses, builds>>
      /\ boot' = boot \/ boot' = "failed"
  BY DEF Throw, table
<1>3. TypeOK' /\ ContextMatchesStack' /\ Restores'
  BY <1>1, <1>2, PopContext DEF Inv, TypeOK
<1>4. Frames'
  <2> SUFFICES ASSUME NEW i \in 1..Len(stack')
               PROVE  FrameOK(stack[i])'
    BY DEF Frames
  <2>1. i \in 1..Len(stack) /\ stack'[i] = stack[i] /\ request' = request
    BY <1>1, PopContext
  <2>2. FrameOK(stack[i])
    BY <2>1 DEF Inv, Frames
  <2> QED BY <1>2, <2>1, <2>2 DEF FrameOK, Tracked
<1>5. Instances' /\ Disposal'
  BY <1>2 DEF Inv, Instances, Disposal, DependenciesFirst, Tracked
<1>6. Remembered'
  BY <1>2 DEF Inv, Remembered, ReadyMeansInitialized
<1> QED BY <1>3, <1>4, <1>5, <1>6 DEF Inv

(* A factory returns its value. *)
LEMMA FactoryStep ==
  ASSUME Inv, FactoryReturns
  PROVE  Inv'
<1>1. Running /\ Pop /\ Top.as = "factory" /\ Top.of \in Factories
  BY TopIs DEF FactoryReturns, FrameOK
<1>2. /\ UNCHANGED <<cached, held, made, hook, initPromises, awaited, atBoot, boot,
                     disposables, uses, builds>>
      /\ factories' = factories \cup {Top.of}
  BY DEF FactoryReturns, loading
<1>3. resolving' = resolving \ {Top.of}
  <2>1. Top.of \notin resolving
    BY <1>1, TopIs DEF Inv, TypeOK
  <2> QED BY <2>1 DEF FactoryReturns
<1>4. TypeOK' /\ ContextMatchesStack' /\ Restores'
  BY <1>1, <1>2, <1>3, PopContext DEF Inv, TypeOK
<1>5. Frames'
  <2> SUFFICES ASSUME NEW i \in 1..Len(stack')
               PROVE  FrameOK(stack[i])'
    BY DEF Frames
  <2>1. i \in 1..Len(stack) /\ stack'[i] = stack[i] /\ request' = request
    BY <1>1, <1>3, PopContext
  <2>2. FrameOK(stack[i])
    BY <2>1 DEF Inv, Frames
  <2> QED BY <1>2, <2>1, <2>2 DEF FrameOK, Tracked
<1>6. Instances' /\ Disposal'
  BY <1>2 DEF Inv, Instances, Disposal, DependenciesFirst, Tracked
<1>7. Remembered'
  BY <1>2 DEF Inv, Remembered, ReadyMeansInitialized
<1> QED BY <1>4, <1>5, <1>6, <1>7 DEF Inv

(* The finished bean goes into the cache or the request, and to the frame   *)
(* below, which has to be destroyed before it.                              *)
LEMMA FinishStep ==
  ASSUME Inv, Finish
  PROVE  Inv'
<1> DEFINE n == Len(stack)
           c == Top.of
<1>1. /\ Running /\ Top.phase = "process" /\ Pop /\ resolving' = resolving \ {c}
      /\ UNCHANGED <<factories, hook, initPromises, awaited, atBoot, boot, disposables, builds>>
      /\ cached' = IF Top.as = "singleton" THEN [cached EXCEPT ![c] = "done"] ELSE cached
      /\ uses' = IF Top.as = "singleton" /\ n > 1 THEN uses \cup Given(Below, c) ELSE uses
      /\ IF Top.as = "held"
         THEN /\ held' = [held EXCEPT ![request] = @ \cup {c}]
              /\ made' = [made EXCEPT ![request][c] = @ + 1]
         ELSE UNCHANGED <<held, made>>
  BY DEF Finish, loading
<1>2. /\ n \in Nat \ {0} /\ n \in 1..n /\ Top = stack[n] /\ Top \in Frame /\ FrameOK(Top)
      /\ Top.as # "factory" => c \in Classes /\ c \in resolving
      /\ Top.as = "factory" => c \in Factories /\ c \notin Classes
  BY <1>1, TopIs DEF FrameOK, Top
<1>3. /\ stack' \in Seq(Frame) /\ Len(stack') = n - 1
      /\ \A i \in 1..(n - 1) : stack'[i] = stack[i]
      /\ active' \in BOOLEAN /\ resolving' \subseteq Classes /\ request' \in Holders
      /\ n > 1 => request' = request
      /\ ContextMatchesStack' /\ Restores'
  BY <1>1, PopContext
<1>4. Top.as = "held" => request \in Requests /\ request # "none" /\ c \notin held[request]
                         /\ c \in Classes
  BY <1>2, ConstantsAssumption DEF FrameOK
<1>5. Top.as = "singleton" => c \in Classes /\ cached[c] # "none" /\ c \in Tracked
  BY <1>1, <1>2 DEF FrameOK
<1>6. n > 1 => n - 1 \in 1..n /\ Below \in Frame /\ FrameOK(Below) /\ Below = stack[n - 1]
  BY <1>2 DEF Inv, TypeOK, Frames, Below
<1>7. \A i \in 1..(n - 1) : i \in 1..n /\ i # n
  BY <1>2
<1> HIDE DEF n
<1>8. /\ uses' \subseteq Classes \X Classes
      /\ \A x, y \in Classes : <<x, y>> \in uses' =>
           \/ <<x, y>> \in uses
           \/ y = c /\ c \in Tracked /\ x \notin Tracked
  <2>1. CASE Top.as = "singleton" /\ n > 1 /\ Below.as = "singleton"
             /\ Below.phase \in {"new", "hooks"}
    <3>1. uses' = uses \cup {<<Below.of, c>>}
      BY <1>1, <2>1 DEF Given, n
    <3>2. Below.of \in Classes /\ Below.of \notin Tracked
      BY <1>6, <2>1 DEF FrameOK
    <3> QED BY <1>5, <2>1, <3>1, <3>2 DEF Inv, TypeOK
  <2>2. CASE ~ (Top.as = "singleton" /\ n > 1 /\ Below.as = "singleton"
                /\ Below.phase \in {"new", "hooks"})
    <3>1. uses' = uses
      BY <1>1, <2>2 DEF Given, n
    <3> QED BY <3>1 DEF Inv, TypeOK
  <2> QED BY <2>1, <2>2
<1>9. /\ cached' \in [Classes -> {"none", "raw", "done"}]
      /\ \A d \in Classes : d # c \/ Top.as # "singleton" => cached'[d] = cached[d]
      /\ Top.as = "singleton" => cached'[c] = "done"
  BY <1>1, <1>5 DEF Inv, TypeOK
<1>10. /\ held' \in [Requests -> SUBSET Classes] /\ made' \in [Holders -> [Classes -> Nat]]
       /\ made'["none"] = made["none"]
       /\ \A q \in Requests : q # request \/ Top.as # "held" =>
            held'[q] = held[q] /\ made'[q] = made[q]
       /\ Top.as = "held" =>
            /\ held'[request] = held[request] \cup {c}
            /\ made'[request][c] = made[request][c] + 1
            /\ \A d \in Classes : d # c => made'[request][d] = made[request][d]
  <2>1. CASE Top.as = "held"
    <3>1. request \in Requests /\ request \in Holders /\ request # "none" /\ "none" \in Holders
          /\ c \in Classes /\ \A q \in Requests : q \in Holders
      BY <1>4, <2>1 DEF Holders
    <3>2. held' = [held EXCEPT ![request] = @ \cup {c}]
          /\ made' = [made EXCEPT ![request][c] = @ + 1]
      BY <1>1, <2>1
    <3>3. held \in [Requests -> SUBSET Classes] /\ made \in [Holders -> [Classes -> Nat]]
      BY DEF Inv, TypeOK
    <3> HIDE DEF c
    <3>4. /\ held' \in [Requests -> SUBSET Classes]
          /\ held'[request] = held[request] \cup {c}
          /\ \A q \in Requests : q # request => held'[q] = held[q]
      BY <3>1, <3>2, <3>3
    <3>5. made' \in [Holders -> [Classes -> Nat]]
      BY <3>1, <3>2, <3>3
    <3>6. /\ made'[request][c] = made[request][c] + 1
          /\ \A d \in Classes : d # c => made'[request][d] = made[request][d]
          /\ \A q \in Holders : q # request => made'[q] = made[q]
      BY <3>1, <3>2, <3>3
    <3> QED BY <2>1, <3>1, <3>4, <3>5, <3>6
  <2>2. CASE Top.as # "held"
    BY <1>1, <2>2 DEF Inv, TypeOK
  <2> QED BY <2>1, <2>2
<1>11. TypeOK'
  <2>1. disposables' \in Seq(Classes) /\ factories' \subseteq Factories /\ builds' \in Nat
    BY <1>1 DEF Inv, TypeOK
  <2> QED BY <1>1, <1>3, <1>8, <1>9, <1>10, <2>1 DEF Inv, TypeOK
<1>12. Frames'
  <2> SUFFICES ASSUME NEW i \in 1..Len(stack')
               PROVE  FrameOK(stack[i])'
    BY DEF Frames
  <2> DEFINE f == stack[i]
  <2>1. i \in 1..(n - 1) /\ i \in 1..n /\ i # n /\ stack'[i] = f /\ request' = request
    BY <1>2, <1>3, <1>7
  <2>2. FrameOK(f)
    BY <2>1 DEF Inv, Frames, n
  <2>3. f.as # "factory" => f.of \in Classes /\ f.of # c
    <3> SUFFICES ASSUME f.as # "factory", f.of = c
                 PROVE  FALSE
      BY <2>2 DEF FrameOK
    <3>1. Top.as # "factory"
      BY <1>2, <2>2 DEF FrameOK
    <3> QED BY <1>2, <2>1, <3>1 DEF Inv, ContextMatchesStack, IsClassFrame, n
  <2>4. f.as # "factory" => cached'[f.of] = cached[f.of]
    BY <1>9, <2>3
  <2>5. f.as = "held" => request \in Requests /\ f.of \notin held'[request]
    <3>1. f.as = "held" => request \in Requests /\ f.of \notin held[request] /\ f.of # c
      BY <2>2, <2>3 DEF FrameOK
    <3> QED BY <1>10, <3>1
  <2>6. Tracked' = Tracked
    BY <1>1 DEF Tracked
  <2> HIDE DEF f
  <2> QED BY <2>1, <2>2, <2>4, <2>5, <2>6 DEF FrameOK
<1>13. Instances'
  <2>1. ASSUME NEW d \in Classes
        PROVE  made'["none"][d] = IF cached'[d] = "none" THEN 0 ELSE 1
    BY <1>5, <1>9, <1>10 DEF Inv, Instances
  <2>2. ASSUME NEW q \in Requests, NEW d \in Classes
        PROVE  made'[q][d] = IF d \in held'[q] THEN 1 ELSE 0
    <3>1. made[q][d] = IF d \in held[q] THEN 1 ELSE 0
      BY DEF Inv, Instances
    <3>2. CASE q # request \/ Top.as # "held"
      BY <1>10, <3>1, <3>2
    <3>3. CASE q = request /\ Top.as = "held" /\ d = c
      BY <1>4, <1>10, <3>1, <3>3
    <3>4. CASE q = request /\ Top.as = "held" /\ d # c
      BY <1>10, <3>1, <3>4
    <3> QED BY <3>2, <3>3, <3>4
  <2> QED BY <2>1, <2>2 DEF Instances
<1>14. Disposal'
  <2>1. Tracked' = Tracked
    BY <1>1 DEF Tracked
  <2>2. \A d \in Classes : cached'[d] = "done" => d \in Tracked'
    BY <1>5, <1>9, <2>1 DEF Inv, Disposal
  <2>3. \A d \in Classes : d \in Tracked' => cached'[d] # "none"
    BY <1>5, <1>9, <2>1 DEF Inv, Disposal
  <2>4. \A x, y \in Classes : <<x, y>> \in uses' => y \in Tracked'
    BY <1>8, <2>1 DEF Inv, Disposal
  <2>5. DependenciesFirst'
    <3> SUFFICES ASSUME NEW i \in 1..Len(disposables), NEW d \in Classes,
                        <<disposables[i], d>> \in uses'
                 PROVE  \E j \in 1..(i - 1) : disposables[j] = d
      BY <1>1 DEF DependenciesFirst
    <3>1. disposables[i] \in Classes /\ disposables[i] \in Tracked
      BY DEF Inv, TypeOK, Tracked
    <3>2. <<disposables[i], d>> \in uses
      BY <1>8, <3>1
    <3> QED BY <3>2 DEF Inv, Disposal, DependenciesFirst
  <2> QED BY <2>2, <2>3, <2>4, <2>5 DEF Disposal
<1>15. Remembered'
  BY <1>1 DEF Inv, Remembered, ReadyMeansInitialized
<1> QED BY <1>3, <1>11, <1>12, <1>13, <1>14, <1>15 DEF Inv

-----------------------------------------------------------------------------
(* The frame on top goes on. *)

(* Only the phase of the top frame changes, so the context stays what it is. *)
LEMMA MarkContext ==
  ASSUME Inv, Running, NEW p \in {"new", "hooks", "process"},
         stack' = [stack EXCEPT ![Len(stack)].phase = p],
         UNCHANGED <<resolving, active, request>>
  PROVE  /\ stack' \in Seq(Frame) /\ Len(stack') = Len(stack)
         /\ \A i \in 1..Len(stack) : i # Len(stack) => stack'[i] = stack[i]
         /\ \A i \in 1..Len(stack) : stack'[i].of = stack[i].of /\ stack'[i].as = stack[i].as
         /\ stack'[Len(stack)].phase = p
         /\ ContextMatchesStack' /\ Restores'
<1> DEFINE n == Len(stack)
<1>1. /\ stack' \in Seq(Frame) /\ n \in Nat \ {0} /\ Len(stack') = n
      /\ \A i \in 1..n : i # n => stack'[i] = stack[i]
      /\ stack'[n].of = stack[n].of /\ stack'[n].as = stack[n].as
      /\ stack'[n].previous = stack[n].previous /\ stack'[n].phase = p
  <2> DEFINE f == [stack[n] EXCEPT !.phase = p]
  <2>1. n \in Nat \ {0} /\ stack[n] \in Frame /\ stack \in Seq(Frame)
    BY TopIs DEF Top, Inv, TypeOK
  <2>2. f \in Frame /\ f.of = stack[n].of /\ f.as = stack[n].as
        /\ f.previous = stack[n].previous /\ f.phase = p
    BY <2>1 DEF Frame
  <2>3. stack' = [stack EXCEPT ![n] = f]
    OBVIOUS
  <2>4. /\ stack' \in Seq(Frame) /\ Len(stack') = n /\ stack'[n] = f
        /\ \A i \in 1..n : i # n => stack'[i] = stack[i]
    <3> HIDE DEF f, n
    <3>1. n = Len(stack)
      BY DEF n
    <3> QED BY <2>1, <2>2, <2>3, <3>1
  <2> QED BY <2>1, <2>2, <2>4
<1>2. \A i \in 1..n : /\ stack'[i].of = stack[i].of /\ stack'[i].as = stack[i].as
                      /\ stack'[i].previous = stack[i].previous
  BY <1>1
<1>3. stack' # <<>>
  <2>1. Len(<<>>) = 0
    OBVIOUS
  <2> QED BY <1>1, <2>1
<1> HIDE DEF n
<1>4. active' = Running'
  <2>1. active = Running
    BY DEF Inv, ContextMatchesStack
  <2>2. Running = TRUE /\ Running' = TRUE
    BY <1>3 DEF Running
  <2> QED BY <2>1, <2>2
<1>5. resolving' = {stack'[i].of : i \in {j \in 1..Len(stack') : IsClassFrame(j)'}}
  <2>1. resolving = {stack[i].of : i \in {j \in 1..n : stack[j].as # "factory"}}
    BY DEF Inv, ContextMatchesStack, IsClassFrame, n
  <2>2. {stack'[i].of : i \in {j \in 1..n : stack'[j].as # "factory"}}
          = {stack[i].of : i \in {j \in 1..n : stack[j].as # "factory"}}
    BY <1>2
  <2> QED BY <1>1, <2>1, <2>2 DEF IsClassFrame
<1>6. \A i, j \in 1..Len(stack') :
        IsClassFrame(i)' /\ IsClassFrame(j)' /\ stack'[i].of = stack'[j].of => i = j
  BY <1>1, <1>2 DEF Inv, ContextMatchesStack, IsClassFrame, n
<1>7. Restores'
  BY <1>1, <1>2, <1>3 DEF Inv, Restores, Running, n
<1> QED BY <1>1, <1>2, <1>4, <1>5, <1>6, <1>7 DEF ContextMatchesStack, n

(* Another class frame than the top one is of another class. *)
LEMMA OtherClass ==
  ASSUME Inv, Running, NEW i \in 1..Len(stack), i # Len(stack),
         stack[i].as # "factory", Top.as # "factory"
  PROVE  stack[i].of # Top.of
BY TopIs DEF Inv, ContextMatchesStack, IsClassFrame, Top

(* A constructor returned: the raw instance of a singleton is its only one. *)
LEMMA ConstructedStep ==
  ASSUME Inv, Constructed
  PROVE  Inv'
<1> DEFINE n == Len(stack)
           c == Top.of
<1>1. /\ Running /\ Top.as # "factory" /\ Top.phase = "new"
      /\ stack' = [stack EXCEPT ![n].phase = "hooks"]
      /\ UNCHANGED <<factories, held, hook, initPromises, awaited, atBoot, boot, resolving,
                     active, request, disposables, uses, builds>>
      /\ Top.as = "singleton" => cached' = [cached EXCEPT ![c] = "raw"]
                                 /\ made' = [made EXCEPT !["none"][c] = @ + 1]
      /\ Top.as # "singleton" => UNCHANGED <<cached, made>>
  BY DEF Constructed, loading
<1>2. n \in 1..n /\ Top = stack[n] /\ FrameOK(Top) /\ c \in Classes
  BY <1>1, TopIs DEF Top
<1>3. /\ stack' \in Seq(Frame) /\ Len(stack') = n
      /\ \A i \in 1..n : i # n => stack'[i] = stack[i]
      /\ \A i \in 1..n : stack'[i].of = stack[i].of /\ stack'[i].as = stack[i].as
      /\ stack'[n].phase = "hooks"
      /\ ContextMatchesStack' /\ Restores'
  BY <1>1, MarkContext
<1>4. Top.as = "singleton" => cached[c] = "none" /\ c \notin Tracked
  BY <1>1, <1>2 DEF FrameOK
<1>5. \A i \in 1..n : i # n /\ stack[i].as # "factory" => stack[i].of # c
  BY <1>1, OtherClass
<1>6. Tracked' = Tracked
  BY <1>1 DEF Tracked
<1> HIDE DEF n, c
<1>7. /\ cached' \in [Classes -> {"none", "raw", "done"}]
      /\ \A d \in Classes : d # c \/ Top.as # "singleton" => cached'[d] = cached[d]
      /\ Top.as = "singleton" => cached'[c] = "raw"
  BY <1>1, <1>2 DEF Inv, TypeOK
<1>8. /\ made' \in [Holders -> [Classes -> Nat]]
      /\ \A q \in Requests : made'[q] = made[q]
      /\ \A d \in Classes : d # c \/ Top.as # "singleton" => made'["none"][d] = made["none"][d]
      /\ Top.as = "singleton" => made'["none"][c] = made["none"][c] + 1
  <2>1. "none" \in Holders /\ \A q \in Requests : q \in Holders /\ q # "none"
    BY ConstantsAssumption DEF Holders
  <2>2. made \in [Holders -> [Classes -> Nat]]
    BY DEF Inv, TypeOK
  <2>3. CASE Top.as = "singleton"
    <3>1. made' = [made EXCEPT !["none"][c] = @ + 1]
      BY <1>1, <2>3
    <3>2. made' \in [Holders -> [Classes -> Nat]]
      BY <1>2, <2>1, <2>2, <3>1
    <3>3. /\ made'["none"][c] = made["none"][c] + 1
          /\ \A d \in Classes : d # c => made'["none"][d] = made["none"][d]
          /\ \A q \in Requests : made'[q] = made[q]
      BY <1>2, <2>1, <2>2, <3>1
    <3> QED BY <2>3, <3>2, <3>3
  <2>4. CASE Top.as # "singleton"
    BY <1>1, <2>2, <2>4
  <2> QED BY <2>3, <2>4
<1>9. TypeOK'
  BY <1>1, <1>3, <1>7, <1>8 DEF Inv, TypeOK
<1>10. Frames'
  <2> SUFFICES ASSUME NEW i \in 1..n
               PROVE  FrameOK(stack[i])'
    BY <1>3 DEF Frames
  <2>1. FrameOK(stack[i])
    BY DEF Inv, Frames, n
  <2>2. CASE i = n
    BY <1>1, <1>2, <1>3, <1>4, <1>6, <1>7, <2>1, <2>2 DEF FrameOK, c, n
  <2>3. CASE i # n
    <3>1. stack'[i] = stack[i]
      BY <1>3, <2>3
    <3>2. stack[i].as # "factory" => stack[i].of \in Classes /\ stack[i].of # c
      BY <1>5, <2>1, <2>3 DEF FrameOK
    <3>3. stack[i].as # "factory" => cached'[stack[i].of] = cached[stack[i].of]
      BY <1>7, <3>2
    <3>4. held' = held /\ request' = request
      BY <1>1
    <3>5. stack[i].as = "singleton" => cached'[stack[i].of] = cached[stack[i].of]
      BY <3>3
    <3> QED BY <1>6, <2>1, <3>1, <3>4, <3>5 DEF FrameOK
  <2> QED BY <2>2, <2>3
<1>11. Instances'
  <2>1. ASSUME NEW d \in Classes
        PROVE  made'["none"][d] = IF cached'[d] = "none" THEN 0 ELSE 1
    <3>1. made["none"][d] = IF cached[d] = "none" THEN 0 ELSE 1
      BY DEF Inv, Instances
    <3>2. CASE d # c \/ Top.as # "singleton"
      BY <1>7, <1>8, <3>1, <3>2
    <3>3. CASE d = c /\ Top.as = "singleton"
      BY <1>4, <1>7, <1>8, <3>1, <3>3
    <3> QED BY <3>2, <3>3
  <2>2. \A q \in Requests, d \in Classes : made'[q][d] = IF d \in held'[q] THEN 1 ELSE 0
    BY <1>1, <1>8 DEF Inv, Instances
  <2> QED BY <2>1, <2>2 DEF Instances
<1>12. Disposal'
  <2>1. \A d \in Classes : cached'[d] = "done" => d \in Tracked'
    BY <1>6, <1>7 DEF Inv, Disposal
  <2>2. \A d \in Classes : d \in Tracked' => cached'[d] # "none"
    BY <1>6, <1>7 DEF Inv, Disposal
  <2>3. \A x, y \in Classes : <<x, y>> \in uses' => y \in Tracked'
    BY <1>1, <1>6 DEF Inv, Disposal
  <2>4. DependenciesFirst'
    BY <1>1 DEF Inv, Disposal, DependenciesFirst
  <2> QED BY <2>1, <2>2, <2>3, <2>4 DEF Disposal
<1>13. Remembered'
  BY <1>1 DEF Inv, Remembered, ReadyMeansInitialized
<1> QED BY <1>3, <1>9, <1>10, <1>11, <1>12, <1>13 DEF Inv

(* The hooks have run: a singleton is tracked after all it was given. *)
LEMMA EndHooksStep ==
  ASSUME Inv, EndHooks
  PROVE  Inv'
<1> DEFINE n == Len(stack)
           c == Top.of
<1>1. /\ Running /\ Top.phase = "hooks"
      /\ stack' = [stack EXCEPT ![n].phase = "process"]
      /\ UNCHANGED <<cached, factories, held, made, hook, initPromises, awaited, atBoot, boot,
                     resolving, active, request, uses, builds>>
      /\ disposables' = IF Top.as = "singleton" THEN Append(disposables, c) ELSE disposables
  BY DEF EndHooks, loading, table
<1>2. /\ n \in 1..n /\ Top = stack[n] /\ FrameOK(Top)
      /\ Top.as = "singleton" => c \in Classes
      /\ Top.as = "singleton" => cached[c] # "none"
      /\ Top.as = "singleton" => c \notin Tracked
  BY <1>1, TopIs DEF Top, FrameOK
<1>3. /\ stack' \in Seq(Frame) /\ Len(stack') = n
      /\ \A i \in 1..n : i # n => stack'[i] = stack[i]
      /\ \A i \in 1..n : stack'[i].of = stack[i].of /\ stack'[i].as = stack[i].as
      /\ stack'[n].phase = "process"
      /\ ContextMatchesStack' /\ Restores'
  BY <1>1, MarkContext
<1>4. \A i \in 1..n : i # n /\ stack[i].as = "singleton" /\ Top.as = "singleton" =>
        stack[i].of # c
  BY <1>1, OtherClass
<1>5. disposables \in Seq(Classes)
  BY DEF Inv, TypeOK
<1> HIDE DEF n, c
<1>6. disposables' \in Seq(Classes)
      /\ Tracked' = IF Top.as = "singleton" THEN Tracked \cup {c} ELSE Tracked
  <2>1. CASE Top.as = "singleton"
    <3>1. disposables' = Append(disposables, c)
      BY <1>1, <2>1
    <3>2. disposables' \in Seq(Classes)
      BY <1>2, <1>5, <2>1, <3>1
    <3>3. {disposables'[i] : i \in 1..Len(disposables')}
            = {disposables[i] : i \in 1..Len(disposables)} \cup {c}
      BY <1>2, <1>5, <2>1, <3>1, AppendTracks
    <3> QED BY <2>1, <3>2, <3>3 DEF Tracked
  <2>2. CASE Top.as # "singleton"
    BY <1>1, <1>5, <2>2 DEF Tracked
  <2> QED BY <2>1, <2>2
<1>7. TypeOK'
  BY <1>1, <1>3, <1>6 DEF Inv, TypeOK
<1>8. Frames'
  <2> SUFFICES ASSUME NEW i \in 1..n
               PROVE  FrameOK(stack[i])'
    BY <1>3 DEF Frames
  <2>1. FrameOK(stack[i])
    BY DEF Inv, Frames, n
  <2>2. CASE i = n
    BY <1>1, <1>2, <1>3, <1>6, <2>1, <2>2 DEF FrameOK, c, n
  <2>3. CASE i # n
    <3>1. stack'[i] = stack[i]
      BY <1>3, <2>3
    <3>2. stack[i].as = "singleton" => (stack[i].of \in Tracked' <=> stack[i].of \in Tracked)
      BY <1>4, <1>6, <2>3
    <3> QED BY <1>1, <2>1, <3>1, <3>2 DEF FrameOK
  <2> QED BY <2>2, <2>3
<1>9. Instances'
  BY <1>1 DEF Inv, Instances
<1>10. Disposal'
  <2>1. \A d \in Classes : cached'[d] = "done" => d \in Tracked'
    BY <1>1, <1>6 DEF Inv, Disposal
  <2>2. \A d \in Classes : d \in Tracked' => cached'[d] # "none"
    BY <1>1, <1>2, <1>6 DEF Inv, Disposal
  <2>3. \A x, y \in Classes : <<x, y>> \in uses' => y \in Tracked'
    BY <1>1, <1>6 DEF Inv, Disposal
  <2>4. DependenciesFirst'
    <3>1. CASE Top.as # "singleton"
      BY <1>1, <3>1 DEF Inv, Disposal, DependenciesFirst
    <3>2. CASE Top.as = "singleton"
      <4>1. /\ Len(disposables) \in Nat /\ Len(disposables') = Len(disposables) + 1
            /\ \A i \in 1..Len(disposables) : disposables'[i] = disposables[i]
            /\ disposables'[Len(disposables) + 1] = c
        BY <1>1, <1>2, <1>5, <3>2, Pushed
      <4> SUFFICES ASSUME NEW i \in 1..Len(disposables'), NEW d \in Classes,
                          <<disposables'[i], d>> \in uses
                   PROVE  \E j \in 1..(i - 1) : disposables'[j] = d
        BY <1>1 DEF DependenciesFirst
      <4>2. CASE i \in 1..Len(disposables)
        <5>1. <<disposables[i], d>> \in uses
          BY <4>1, <4>2
        <5>2. PICK j \in 1..(i - 1) : disposables[j] = d
          BY <4>2, <5>1 DEF Inv, Disposal, DependenciesFirst
        <5> QED BY <4>1, <4>2, <5>2
      <4>3. CASE i = Len(disposables) + 1
        <5>1. d \in Tracked
          BY <1>2, <3>2, <4>1, <4>3 DEF Inv, Disposal
        <5>2. PICK j \in 1..Len(disposables) : disposables[j] = d
          BY <5>1 DEF Tracked
        <5> QED BY <4>1, <4>3, <5>2
      <4> QED BY <4>1, <4>2, <4>3
    <3> QED BY <3>1, <3>2
  <2> QED BY <2>1, <2>2, <2>3, <2>4 DEF Disposal
<1>11. Remembered'
  BY <1>1 DEF Inv, Remembered, ReadyMeansInitialized
<1> QED BY <1>3, <1>7, <1>8, <1>9, <1>10, <1>11 DEF Inv

-----------------------------------------------------------------------------
(* Steps that leave the stack alone. *)

(* A finished singleton is found in the cache. *)
LEMMA FindStep ==
  ASSUME Inv, NEW c \in Classes, Finds(c)
  PROVE  Inv'
<1>1. /\ Running
      /\ UNCHANGED <<cached, factories, held, made, hook, initPromises, awaited, atBoot, boot,
                     resolving, active, stack, request, disposables, builds>>
      /\ uses' = uses \cup (IF cached[c] = "done" THEN Given(Top, c) ELSE {})
  BY DEF Finds, table, loading, context
<1>2. /\ uses' \subseteq Classes \X Classes
      /\ \A x, y \in Classes : <<x, y>> \in uses' =>
           \/ <<x, y>> \in uses
           \/ y = c /\ c \in Tracked /\ x \notin Tracked
  <2>1. CASE cached[c] = "done" /\ Top.as = "singleton" /\ Top.phase \in {"new", "hooks"}
    <3>1. uses' = uses \cup {<<Top.of, c>>}
      BY <1>1, <2>1 DEF Given
    <3>2. Top.of \in Classes /\ Top.of \notin Tracked
      BY <1>1, <2>1, TopIs DEF FrameOK
    <3>3. c \in Tracked
      BY <2>1 DEF Inv, Disposal
    <3> QED BY <3>1, <3>2, <3>3 DEF Inv, TypeOK
  <2>2. CASE ~ (cached[c] = "done" /\ Top.as = "singleton" /\ Top.phase \in {"new", "hooks"})
    <3>1. uses' = uses
      BY <1>1, <2>2 DEF Given
    <3> QED BY <3>1 DEF Inv, TypeOK
  <2> QED BY <2>1, <2>2
<1>3. TypeOK'
  BY <1>1, <1>2 DEF Inv, TypeOK
<1>4. ContextMatchesStack' /\ Restores'
  BY <1>1 DEF Inv, ContextMatchesStack, IsClassFrame, Running, Restores
<1>5. Frames' /\ Instances' /\ Remembered'
  BY <1>1 DEF Inv, Frames, FrameOK, Tracked, Instances, Remembered, ReadyMeansInitialized
<1>6. Disposal'
  <2>1. Tracked' = Tracked
    BY <1>1 DEF Tracked
  <2>2. \A d \in Classes : (cached'[d] = "done" => d \in Tracked')
                           /\ (d \in Tracked' => cached'[d] # "none")
    BY <1>1, <2>1 DEF Inv, Disposal
  <2>3. \A x, y \in Classes : <<x, y>> \in uses' => y \in Tracked'
    BY <1>2, <2>1 DEF Inv, Disposal
  <2>4. DependenciesFirst'
    <3> SUFFICES ASSUME NEW i \in 1..Len(disposables), NEW d \in Classes,
                        <<disposables[i], d>> \in uses'
                 PROVE  \E j \in 1..(i - 1) : disposables[j] = d
      BY <1>1 DEF DependenciesFirst
    <3>1. disposables[i] \in Classes /\ disposables[i] \in Tracked
      BY DEF Inv, TypeOK, Tracked
    <3>2. <<disposables[i], d>> \in uses
      BY <1>2, <3>1
    <3> QED BY <3>2 DEF Inv, Disposal, DependenciesFirst
  <2> QED BY <2>2, <2>3, <2>4 DEF Disposal
<1> QED BY <1>3, <1>4, <1>5, <1>6 DEF Inv

(* Hooks and init() concern neither the stack nor the instances. *)
LEMMA LoadingOnly ==
  ASSUME Inv, UNCHANGED <<table, context, disposables, uses, builds>>,
         hook' \in [Classes -> {"none", "running", "settled", "rejected"}],
         initPromises' \subseteq Classes, awaited' \subseteq Classes, atBoot' \subseteq Classes,
         boot' \in {"mounting", "init", "ready", "failed"},
         Remembered'
  PROVE  Inv'
<1>1. UNCHANGED <<cached, factories, held, made, resolving, active, stack, request,
                  disposables, uses, builds>>
  BY DEF table, context
<1>2. TypeOK'
  BY <1>1 DEF Inv, TypeOK
<1>3. ContextMatchesStack' /\ Restores'
  BY <1>1 DEF Inv, ContextMatchesStack, IsClassFrame, Running, Restores
<1>4. Frames' /\ Instances'
  BY <1>1 DEF Inv, Frames, FrameOK, Tracked, Instances
<1>5. Disposal'
  BY <1>1 DEF Inv, Disposal, DependenciesFirst, Tracked
<1> QED BY <1>2, <1>3, <1>4, <1>5 DEF Inv

(* A hook that returns a promise is remembered until it settles. *)
LEMMA HookStarts ==
  ASSUME Inv, AsyncHook
  PROVE  Inv'
<1> DEFINE c == Top.of
<1>1. /\ Running /\ Top.as = "singleton" /\ hook[c] = "none"
      /\ hook' = [hook EXCEPT ![c] = "running"]
      /\ initPromises' = initPromises \cup {c}
      /\ atBoot' = IF boot = "ready" THEN atBoot ELSE atBoot \cup {c}
      /\ UNCHANGED <<awaited, boot>>
      /\ UNCHANGED <<table, context, disposables, uses, builds>>
  BY DEF AsyncHook
<1>2. c \in Classes
  BY <1>1, TopIs
<1> HIDE DEF c
<1>3. /\ hook' \in [Classes -> {"none", "running", "settled", "rejected"}]
      /\ \A d \in Classes : d # c => hook'[d] = hook[d]
      /\ hook'[c] = "running"
      /\ hook \in [Classes -> {"none", "running", "settled", "rejected"}]
  BY <1>1, <1>2 DEF Inv, TypeOK
<1>4. /\ initPromises' \subseteq Classes /\ awaited' \subseteq Classes
      /\ atBoot' \subseteq Classes /\ atBoot \subseteq Classes
      /\ boot' \in {"mounting", "init", "ready", "failed"}
  BY <1>1, <1>2 DEF Inv, TypeOK
<1>5. c \notin atBoot
  BY <1>1 DEF Inv, Remembered
<1>6. Remembered'
  <2>1. \A d \in atBoot' : hook'[d] # "none"
    BY <1>1, <1>3, <1>4 DEF Inv, Remembered
  <2>2. boot' # "ready" => \A d \in atBoot' :
          hook'[d] = "settled" \/ d \in initPromises' \/ d \in awaited'
    BY <1>1, <1>3, <1>4 DEF Inv, Remembered
  <2>3. ReadyMeansInitialized'
    BY <1>1, <1>3, <1>4, <1>5 DEF Inv, Remembered, ReadyMeansInitialized
  <2> QED BY <2>1, <2>2, <2>3 DEF Remembered
<1> QED BY <1>1, <1>3, <1>4, <1>6, LoadingOnly

(* A hook settles. *)
LEMMA HookStops ==
  ASSUME Inv, NEW c \in Classes, NEW how \in {"settled", "rejected"}, HookEnds(c, how)
  PROVE  Inv'
<1>1. /\ hook[c] = "running" /\ hook' = [hook EXCEPT ![c] = how]
      /\ UNCHANGED <<initPromises, awaited, atBoot, boot>>
      /\ UNCHANGED <<table, context, disposables, uses, builds>>
  BY DEF HookEnds
<1>2. /\ hook' \in [Classes -> {"none", "running", "settled", "rejected"}]
      /\ \A d \in Classes : d # c => hook'[d] = hook[d]
      /\ hook'[c] = how
  BY <1>1 DEF Inv, TypeOK
<1>3. /\ initPromises' \subseteq Classes /\ awaited' \subseteq Classes
      /\ atBoot' \subseteq Classes /\ atBoot \subseteq Classes
      /\ boot' \in {"mounting", "init", "ready", "failed"}
  BY <1>1 DEF Inv, TypeOK
<1>4. Remembered'
  <2>1. \A d \in atBoot' : hook'[d] # "none"
    BY <1>1, <1>2, <1>3 DEF Inv, Remembered
  <2>2. boot' # "ready" => \A d \in atBoot' :
          hook'[d] = "settled" \/ d \in initPromises' \/ d \in awaited'
    BY <1>1, <1>2, <1>3 DEF Inv, Remembered
  <2>3. ReadyMeansInitialized'
    BY <1>1, <1>2, <1>3 DEF Inv, Remembered, ReadyMeansInitialized
  <2> QED BY <2>1, <2>2, <2>3 DEF Remembered
<1> QED BY <1>1, <1>2, <1>3, <1>4, LoadingOnly

(* init() takes the hooks that are not awaited yet, or is done. *)
LEMMA InitSteps ==
  ASSUME Inv, InitStep
  PROVE  Inv'
<1>1. UNCHANGED <<table, context, disposables, uses, builds>> /\ UNCHANGED <<hook, atBoot>>
  BY DEF InitStep, StartInit, InitRound, InitFails
<1>2. /\ hook' \in [Classes -> {"none", "running", "settled", "rejected"}]
      /\ initPromises' \subseteq Classes /\ awaited' \subseteq Classes
      /\ atBoot' \subseteq Classes
      /\ boot' \in {"mounting", "init", "ready", "failed"}
  BY DEF InitStep, StartInit, InitRound, InitFails, Inv, TypeOK
<1>3. Remembered'
  <2>1. CASE StartInit
    BY <2>1 DEF StartInit, Inv, Remembered, ReadyMeansInitialized
  <2>2. CASE InitFails
    BY <2>2 DEF InitFails, Inv, Remembered, ReadyMeansInitialized
  <2>3. CASE InitRound
    <3>1. boot = "init" /\ (\A c \in awaited : hook[c] = "settled") /\ UNCHANGED <<hook, atBoot>>
      BY <2>3 DEF InitRound
    <3>2. \A c \in atBoot : hook[c] = "settled" \/ c \in initPromises
      BY <3>1 DEF Inv, Remembered
    <3>3. CASE initPromises # {}
      <4>1. awaited' = initPromises /\ boot' = "init"
        BY <2>3, <3>1, <3>3 DEF InitRound
      <4> QED BY <3>1, <3>2, <4>1 DEF Inv, Remembered, ReadyMeansInitialized
    <3>4. CASE initPromises = {}
      <4>1. boot' = "ready"
        BY <2>3, <3>4 DEF InitRound
      <4> QED BY <3>1, <3>2, <3>4, <4>1 DEF Inv, Remembered, ReadyMeansInitialized
    <3> QED BY <3>3, <3>4
  <2> QED BY <2>1, <2>2, <2>3 DEF InitStep
<1> QED BY <1>1, <1>2, <1>3, LoadingOnly

-----------------------------------------------------------------------------
(* The theorems. *)

(* Before anything is resolved. *)
LEMMA InvInit == Init => Inv
<1> SUFFICES ASSUME Init
             PROVE  Inv
  OBVIOUS
<1>1. Len(<<>>) = 0 /\ <<>> \in Seq(Frame) /\ <<>> \in Seq(Classes) /\ 1..0 = {}
  OBVIOUS
<1>2. "none" \in Holders /\ \A q \in Requests : q \in Holders
  BY DEF Holders
<1>3. TypeOK
  BY <1>1, <1>2 DEF Init, TypeOK
<1>4. ContextMatchesStack /\ Restores
  BY <1>1 DEF Init, ContextMatchesStack, Restores, Running
<1>5. Frames
  BY <1>1 DEF Init, Frames
<1>6. Instances
  BY <1>2 DEF Init, Instances
<1>7. Disposal /\ Remembered
  BY <1>1 DEF Init, Disposal, DependenciesFirst, Tracked, Remembered, ReadyMeansInitialized
<1> QED BY <1>3, <1>4, <1>5, <1>6, <1>7 DEF Inv

(* Every step keeps the invariant. *)
LEMMA InvNext == Inv /\ [Next]_vars => Inv'
<1> SUFFICES ASSUME Inv, [Next]_vars
             PROVE  Inv'
  OBVIOUS
<1>1. CASE Ask
  <2>1. CASE \E c \in Classes : Finds(c)
    BY <2>1, FindStep
  <2>2. CASE \E of \in Classes \cup Factories,
                as \in {"singleton", "transient", "held", "factory"},
                r \in Holders : Begins(of, as, r)
    BY <2>2, BeginStep
  <2> QED BY <1>1, <2>1, <2>2, AskBeginsOrFinds
<1>2. CASE Return
  BY <1>2, ConstructedStep, EndHooksStep, FinishStep, FactoryStep, ThrowStep DEF Return
<1>3. CASE AsyncHook
  BY <1>3, HookStarts
<1>4. CASE HookStep
  BY <1>4, HookStops DEF HookStep
<1>5. CASE InitStep
  BY <1>5, InitSteps
<1>6. CASE UNCHANGED vars
  <2>1. UNCHANGED <<table, context, disposables, uses, builds>>
        /\ UNCHANGED <<hook, initPromises, awaited, atBoot, boot>>
    BY <1>6 DEF vars, loading
  <2>2. Remembered'
    BY <2>1 DEF Inv, Remembered, ReadyMeansInitialized
  <2> QED BY <2>1, <2>2, LoadingOnly DEF Inv, TypeOK
<1> QED BY <1>1, <1>2, <1>3, <1>4, <1>5, <1>6 DEF Next

(* The invariant holds for any classes, bindings, factories and requests. *)
LEMMA Invariance == Spec => []Inv
BY InvInit, InvNext, PTL DEF Spec

(* Every variable keeps its type. *)
THEOREM TypeCorrect == Spec => []TypeOK
<1>1. Inv => TypeOK
  BY DEF Inv
<1> QED BY <1>1, Invariance, PTL

(* A singleton is constructed at most once, and a request bean at most once *)
(* per request (di.ts, construct and currentRequestInstance), however       *)
(* resolutions nest and whatever throws.                                    *)
THEOREM AtMostOneInstance == Spec => []OneInstance
<1>1. Inv => OneInstance
  BY DEF Inv, OneInstance, Instances, Holders
<1> QED BY <1>1, Invariance, PTL

(* inject() works exactly while something is constructed, and the classes   *)
(* held to be under construction are (the finally blocks of di.ts).         *)
THEOREM ContextAlwaysMatches == Spec => []ContextMatchesStack
<1>1. Inv => ContextMatchesStack
  BY DEF Inv
<1> QED BY <1>1, Invariance, PTL

(* dispose(), which goes backwards, destroys a singleton before the         *)
(* singletons it was given (di.ts, trackDisposables and dispose).           *)
THEOREM DependenciesTrackedFirst == Spec => []DependenciesFirst
<1>1. Inv => DependenciesFirst
  BY DEF Inv, Disposal
<1> QED BY <1>1, Invariance, PTL

(* createApp resolves only once every hook begun before has settled.        *)
THEOREM ReadyIsInitialized == Spec => []ReadyMeansInitialized
<1>1. Inv => ReadyMeansInitialized
  BY DEF Inv, Remembered
<1> QED BY <1>1, Invariance, PTL
=============================================================================
