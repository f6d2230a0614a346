--------------------------- MODULE DegrainProofs ---------------------------
(***************************************************************************)
(* Proofs about Degrain, for every reach of the references, output delay,  *)
(* pipeline depth and cache size: the variables keep their types, every    *)
(* output is made from the right frames as long as no more calls failed    *)
(* than the cache has slots to spare, the lag is constant, vectors that    *)
(* are not shared are the frame's own, and every step is one of Pass.      *)
(*                                                                         *)
(* The argument: a frame that waits is at most so far behind the next      *)
(* frame to be worked on as frames wait in front of that one and calls     *)
(* have failed; and the next frame to be worked on is outputDelay() behind *)
(* the newest.                                                             *)
(***************************************************************************)
EXTENDS Degrain, RingArithmetic

(* The next frame to be worked on. *)
NextFrame == FirstToDrain + drainCount

(* The frames of q wait, where u is the next to be worked on, f calls have *)
(* failed, and n frames were taken.                                        *)
InQueue(q, u, f, n) ==
  \A i \in 1 .. Len(q) :
    /\ q[i].frame < u
    /\ q[i].frame + (Len(q) - i + 1) + f >= u
    /\ q[i].known <= n
    /\ q[i].known > q[i].frame + Delta \/ q[i].known = n

(* The references of the frames of q had all arrived. *)
Early(q) == \A i \in 1 .. Len(q) : q[i].known > q[i].frame + Delta

(* The latest frames but one cache's length are where they belong.  The    *)
(* slot that comes next is left out: a copy into it may have broken off.   *)
CacheRight ==
  \A k \in 0 .. inputCount - 1 : k > inputCount - CacheSize => cache[Slot(k)] = k

(* An output whose references had not all arrived is one of the drain's. *)
MadeSettled ==
  \A i \in 1 .. Len(made) : asked \/ made[i].frame + Delta < inputCount

(* Nothing is lost, and only a full pipeline puts out. *)
Counted ==
  fails = 0 =>
    /\ Len(made) + Len(pending) = NextFrame
    /\ ~ asked => made = << >> \/ Len(pending) = PipelineDepth

(* Before the drain it has not drained, and frames wait with all their     *)
(* references.                                                             *)
Feeding == asked \/ (drainCount = 0 /\ Early(pending))

DegrainInv ==
  /\ TypeOK
  /\ CacheRight
  /\ InQueue(pending, NextFrame, fails, inputCount)
  /\ Feeding
  /\ MadeRight
  /\ MadeSettled
  /\ Counted
  /\ OwnVectors

-----------------------------------------------------------------------------

(* The delay and the depth are numbers, and the settings do not change. *)
LEMMA Delays ==
  TypeOK => OutputDelay \in Nat \ {0} /\ OutputDelay >= Delta /\ PipelineDepth \in Nat
BY DeltaAssumption DEF OutputDelay, PipelineDepth

LEMMA SettingsStay ==
  UNCHANGED setting => UNCHANGED << OutputDelay, PipelineDepth, Spare, mode, lowLatency, shared >>
BY DEF setting, OutputDelay, PipelineDepth, Spare

(* What the drain begins with. *)
LEMMA DrainCounts ==
  TypeOK => /\ DrainFrameCount \in 0 .. inputCount /\ DrainFrameCount <= OutputDelay
            /\ FirstToDrain \in 0 .. inputCount /\ FirstToDrain + DrainFrameCount = inputCount
            /\ NextFrame \in 0 .. inputCount
BY Delays DEF TypeOK, DrainFrameCount, FirstToDrain, NextFrame

(* What waits is a frame and a count. *)
LEMMA EntryAt ==
  ASSUME NEW q \in Seq(Entry), NEW i \in 1 .. Len(q)
  PROVE  q[i] \in Entry /\ q[i].frame \in Nat /\ q[i].known \in Nat
<1>1. q[i] \in Entry
  OBVIOUS
<1>2. QED
  BY <1>1 DEF Entry

(* A frame to be worked on joins those that wait. *)
LEMMA QueueAppend ==
  ASSUME NEW q \in Seq(Entry), NEW u \in Nat, NEW f \in Nat, NEW n \in Nat,
         NEW k \in Nat, InQueue(q, u, f, n), k <= n, k > u + Delta \/ k = n
  PROVE  LET r == Append(q, [frame |-> u, known |-> k])
         IN  /\ r \in Seq(Entry) /\ Len(r) = Len(q) + 1
             /\ InQueue(r, u + 1, f, n)
<1> DEFINE e == [frame |-> u, known |-> k]
           r == Append(q, e)
<1>1. e \in Entry /\ e.frame = u /\ e.known = k
  BY DEF Entry
<1> HIDE DEF e
<1>2. r \in Seq(Entry) /\ Len(r) = Len(q) + 1 /\ Len(q) \in Nat
  BY <1>1
<1>3. ASSUME NEW i \in 1 .. Len(r)
      PROVE  /\ r[i].frame < u + 1
             /\ r[i].frame + (Len(r) - i + 1) + f >= u + 1
             /\ r[i].known <= n
             /\ r[i].known > r[i].frame + Delta \/ r[i].known = n
  <2>1. CASE i = Len(q) + 1
    <3>1. r[i] = e
      BY <1>2, <2>1
    <3>2. QED
      BY <1>1, <1>2, <2>1, <3>1
  <2>2. CASE i # Len(q) + 1
    <3>1. i \in 1 .. Len(q) /\ r[i] = q[i]
      BY <1>2, <2>2
    <3>2. q[i].frame \in Nat /\ q[i].known \in Nat
      BY <3>1, EntryAt
    <3>3. QED
      BY <1>2, <3>1, <3>2 DEF InQueue
  <2>3. QED
    BY <2>1, <2>2
<1>4. QED
  BY <1>2, <1>3 DEF InQueue, e

(* The head leaves, and the others move up. *)
LEMMA QueueTail ==
  ASSUME NEW q \in Seq(Entry), q # << >>, NEW u \in Nat, NEW f \in Nat, NEW n \in Nat,
         InQueue(q, u, f, n)
  PROVE  /\ Tail(q) \in Seq(Entry) /\ Len(Tail(q)) = Len(q) - 1
         /\ InQueue(Tail(q), u, f, n)
         /\ Early(q) => Early(Tail(q))
<1>1. Tail(q) \in Seq(Entry) /\ Len(Tail(q)) = Len(q) - 1 /\ Len(q) \in Nat \ {0}
  OBVIOUS
<1>2. ASSUME NEW i \in 1 .. Len(Tail(q))
      PROVE  i + 1 \in 1 .. Len(q) /\ Tail(q)[i] = q[i + 1] /\ q[i + 1].frame \in Nat
  <2>1. i + 1 \in 1 .. Len(q) /\ Tail(q)[i] = q[i + 1]
    BY <1>1
  <2>2. QED
    BY <2>1, EntryAt
<1>3. InQueue(Tail(q), u, f, n)
  BY <1>1, <1>2 DEF InQueue
<1>4. Early(q) => Early(Tail(q))
  BY <1>2 DEF Early
<1>5. QED
  BY <1>1, <1>3, <1>4

(* Where the head of the queue is. *)
LEMMA QueueHead ==
  ASSUME NEW q \in Seq(Entry), q # << >>, NEW u \in Nat, NEW f \in Nat, NEW n \in Nat,
         InQueue(q, u, f, n)
  PROVE  /\ Head(q) \in Entry
         /\ Head(q).frame < u
         /\ Head(q).frame + Len(q) + f >= u
         /\ Head(q).known <= n
         /\ Head(q).known > Head(q).frame + Delta \/ Head(q).known = n
         /\ Early(q) => Head(q).known > Head(q).frame + Delta
<1>1. Len(q) \in Nat \ {0} /\ 1 \in 1 .. Len(q) /\ Head(q) = q[1] /\ q[1] \in Entry
  OBVIOUS
<1>2. q[1].frame \in Nat
  BY <1>1 DEF Entry
<1>3. QED
  BY <1>1, <1>2 DEF InQueue, Early

(* Another frame is taken while all that wait have their references. *)
LEMMA QueueGrows ==
  ASSUME NEW q \in Seq(Entry), NEW u \in Nat, NEW f \in Nat, NEW n \in Nat, NEW m \in Nat,
         InQueue(q, u, f, n), Early(q), n <= m
  PROVE  InQueue(q, u, f, m)
<1>1. ASSUME NEW i \in 1 .. Len(q) PROVE q[i].known \in Nat
  BY EntryAt
<1>2. QED
  BY <1>1 DEF InQueue, Early

(* A call that fails may pass a frame over. *)
LEMMA QueueFails ==
  ASSUME NEW q \in Seq(Entry), NEW u \in Nat, NEW f \in Nat, NEW n \in Nat,
         InQueue(q, u, f, n)
  PROVE  InQueue(q, u, f + 1, n) /\ InQueue(q, u + 1, f + 1, n)
<1>1. ASSUME NEW i \in 1 .. Len(q) PROVE q[i].frame \in Nat /\ Len(q) \in Nat
  BY EntryAt
<1>2. QED
  BY <1>1 DEF InQueue

(* A frame none of whose references are missing, or that is resolved when  *)
(* all frames there are have come, has the references it should have.      *)
LEMMA ResolvedSettled ==
  ASSUME NEW k \in Nat, NEW n \in Nat, NEW m \in Nat, n <= m, n > k + Delta \/ n = m
  PROVE  Resolved(k, n) = Resolved(k, m)
BY DeltaAssumption DEF Resolved

(* An output is right when what it refers to is in the cache. *)
LEMMA OutputRight ==
  ASSUME NEW p \in Entry, NEW n \in Nat, p.frame < n, p.known <= n,
         p.known > p.frame + Delta \/ p.known = n,
         \A k \in 0 .. n - 1 : k >= p.frame - Delta => cache'[Slot(k)] = k
  PROVE  Output(p).refs = Resolved(p.frame, n)
<1>1. p.frame \in Nat /\ p.known \in Nat
  BY DEF Entry
<1>2. Resolved(p.frame, p.known) = Resolved(p.frame, n)
  BY <1>1, ResolvedSettled
<1>3. ASSUME NEW d \in -Delta .. Delta
      PROVE  cache'[Slot(Resolved(p.frame, n)[d])] = Resolved(p.frame, n)[d]
  <2>1. Resolved(p.frame, n)[d] \in 0 .. n - 1 /\ Resolved(p.frame, n)[d] >= p.frame - Delta
    BY <1>1, DeltaAssumption DEF Resolved
  <2>2. QED
    BY <2>1
<1>4. Output(p).refs = [d \in -Delta .. Delta |-> Resolved(p.frame, n)[d]]
  BY <1>2, <1>3 DEF Output
<1>5. QED
  BY <1>4 DEF Resolved

-----------------------------------------------------------------------------

(* What was put out has a frame, references and vectors. *)
LEMMA MadeAt ==
  ASSUME NEW s \in Seq(Made), NEW i \in 1 .. Len(s)
  PROVE  s[i] \in Made /\ s[i].frame \in Nat
<1>1. s[i] \in Made
  OBVIOUS
<1>2. QED
  BY <1>1 DEF Made

(* What was put out stays right when another frame comes, or none. *)
LEMMA MadeKept ==
  ASSUME DegrainInv, UNCHANGED << setting, made >>, fails' \in Nat, fails' >= fails,
         asked => asked',
         \/ inputCount' = inputCount
         \/ (~ asked /\ inputCount' = inputCount + 1)
  PROVE  MadeRight' /\ MadeSettled' /\ OwnVectors'
<1>1. UNCHANGED << PipelineDepth, Spare, shared >>
  BY SettingsStay
<1>a. made \in Seq(Made) /\ inputCount \in Nat /\ fails \in Nat
  BY SizeAssumption DEF DegrainInv, TypeOK
<1>b. Spare \in Int
  BY Delays, SizeAssumption, DeltaAssumption DEF DegrainInv, Spare
<1>2. made \in Seq(Made) /\ inputCount \in Nat /\ fails \in Nat /\ Spare \in Int
  BY <1>a, <1>b
<1>3. MadeSettled'
  BY <1>2, MadeAt, DeltaAssumption DEF DegrainInv, MadeSettled
<1>4. ASSUME fails' <= Spare, NEW i \in 1 .. Len(made)
      PROVE  made[i].refs = Resolved(made[i].frame, inputCount')
  <2>1. made[i].frame \in Nat
    BY <1>2, MadeAt
  <2>2. made[i].refs = Resolved(made[i].frame, inputCount)
    BY <1>2, <1>4 DEF DegrainInv, MadeRight
  <2>3. inputCount' = inputCount \/ inputCount > made[i].frame + Delta
    BY <1>2, <2>1, DeltaAssumption DEF DegrainInv, MadeSettled
  <2>4. inputCount' \in Nat /\ inputCount <= inputCount'
    BY <1>2
  <2>5. Resolved(made[i].frame, inputCount) = Resolved(made[i].frame, inputCount')
    BY <1>2, <2>1, <2>3, <2>4, ResolvedSettled
  <2>6. QED
    BY <2>2, <2>5
<1>5. MadeRight'
  BY <1>1, <1>4 DEF MadeRight
<1>6. OwnVectors'
  BY <1>1 DEF DegrainInv, OwnVectors, VectorsOfTheFrame
<1>7. QED
  BY <1>3, <1>5, <1>6

(* The slots of the frames that count are places of the cache. *)
LEMMA SlotInCache ==
  ASSUME NEW n \in Nat PROVE Slot(n) \in 0 .. CacheSize - 1
BY SizeAssumption DEF Slot

(* An output has its type. *)
LEMMA OutputType ==
  ASSUME NEW p \in Entry, cache' \in [0 .. CacheSize - 1 -> Int], workspace' \in Int
  PROVE  Output(p) \in Made /\ Output(p).frame = p.frame
<1>1. p.frame \in Nat /\ p.known \in Nat
  BY DEF Entry
<1>2. VectorsUsed(p) \in Int
  BY <1>1 DEF VectorsUsed
<1>3. ASSUME NEW d \in -Delta .. Delta
      PROVE  cache'[Slot(Resolved(p.frame, p.known)[d])] \in Int
  <2>1. Resolved(p.frame, p.known)[d] \in Nat
    BY <1>1, DeltaAssumption DEF Resolved
  <2>2. QED
    BY <2>1, SlotInCache
<1>4. [d \in -Delta .. Delta |-> cache'[Slot(Resolved(p.frame, p.known)[d])]]
        \in [-Delta .. Delta -> Int]
  BY <1>3
<1>5. QED
  BY <1>1, <1>2, <1>4 DEF Output, Made

(* What is put out by a call that succeeds is right. *)
LEMMA Emitted ==
  ASSUME DegrainInv, UNCHANGED << setting, asked, fails >>,
         \/ inputCount' = inputCount
         \/ (~ asked /\ inputCount' = inputCount + 1),
         cache' \in [0 .. CacheSize - 1 -> Int], workspace' \in Int,
         NEW p \in Entry, p.frame < inputCount', p.known <= inputCount',
         p.known > p.frame + Delta \/ (asked /\ p.known = inputCount'),
         fails <= Spare =>
           \A k \in 0 .. inputCount' - 1 : k >= p.frame - Delta => cache'[Slot(k)] = k,
         shared /\ PipelineDepth = 0 => workspace' = p.frame,
         made' = Append(made, Output(p))
  PROVE  made' \in Seq(Made) /\ MadeRight' /\ MadeSettled' /\ OwnVectors'
<1>1. UNCHANGED << PipelineDepth, Spare, shared >>
  BY SettingsStay
<1>2. made \in Seq(Made) /\ Len(made) \in Nat /\ inputCount \in Nat /\ fails \in Nat
  BY DEF DegrainInv, TypeOK
<1>3. Output(p) \in Made /\ Output(p).frame = p.frame /\ p.frame \in Nat /\ p.known \in Nat
  BY OutputType DEF Entry
<1>4. made' \in Seq(Made) /\ Len(made') = Len(made) + 1
  BY <1>2, <1>3
<1>5. ASSUME NEW i \in 1 .. Len(made')
      PROVE  \/ i = Len(made') /\ made'[i] = Output(p)
             \/ i \in 1 .. Len(made) /\ made'[i] = made[i]
  BY <1>2, <1>3, <1>4, <1>5
<1>6. inputCount' \in Nat /\ inputCount <= inputCount'
  BY <1>2
<1>7. ASSUME NEW i \in 1 .. Len(made')
      PROVE  asked' \/ made'[i].frame + Delta < inputCount'
  <2>1. CASE made'[i] = Output(p)
    BY <1>3, <1>6, <2>1, DeltaAssumption
  <2>2. CASE i \in 1 .. Len(made) /\ made'[i] = made[i]
    <3>1. made[i].frame \in Nat
      BY <1>2, <2>2, MadeAt
    <3>2. QED
      BY <1>2, <1>6, <2>2, <3>1, DeltaAssumption DEF DegrainInv, MadeSettled
  <2>3. QED
    BY <1>5, <2>1, <2>2
<1>8. ASSUME fails <= Spare, NEW i \in 1 .. Len(made')
      PROVE  made'[i].refs = Resolved(made'[i].frame, inputCount')
  <2>1. CASE made'[i] = Output(p)
    BY <1>3, <1>6, <1>8, <2>1, OutputRight
  <2>2. CASE i \in 1 .. Len(made) /\ made'[i] = made[i]
    <3>1. made[i].frame \in Nat
      BY <1>2, <2>2, MadeAt
    <3>2. made[i].refs = Resolved(made[i].frame, inputCount)
      BY <1>8, <2>2 DEF DegrainInv, MadeRight
    <3>3. inputCount' = inputCount \/ inputCount > made[i].frame + Delta
      BY <1>2, <2>2, <3>1, DeltaAssumption DEF DegrainInv, MadeSettled
    <3>4. Resolved(made[i].frame, inputCount) = Resolved(made[i].frame, inputCount')
      BY <1>2, <1>6, <3>1, <3>3, ResolvedSettled
    <3>5. QED
      BY <2>2, <3>2, <3>4
  <2>3. QED
    BY <1>5, <2>1, <2>2
<1>9. ASSUME PipelineDepth = 0 \/ ~ shared, NEW i \in 1 .. Len(made')
      PROVE  made'[i].vectors = made'[i].frame
  <2>1. CASE made'[i] = Output(p)
    BY <1>9, <2>1 DEF Output, VectorsUsed
  <2>2. CASE i \in 1 .. Len(made) /\ made'[i] = made[i]
    BY <1>9, <2>2 DEF DegrainInv, OwnVectors, VectorsOfTheFrame
  <2>3. QED
    BY <1>5, <2>1, <2>2
<1>10. MadeRight' /\ MadeSettled' /\ OwnVectors'
  BY <1>1, <1>7, <1>8, <1>9 DEF MadeRight, MadeSettled, OwnVectors, VectorsOfTheFrame
<1>11. QED
  BY <1>4, <1>10

-----------------------------------------------------------------------------

(* A frame is worked on, by a call with a frame or a drain call. *)
LEMMA RunResolvedKeeps ==
  ASSUME DegrainInv, UNCHANGED << setting, asked, fails >>,
         \/ inputCount' = inputCount
         \/ (~ asked /\ inputCount' = inputCount + 1),
         inputCount' <= MaxIn,
         cache' \in [0 .. CacheSize - 1 -> -1 .. MaxIn - 1],
         NextFrame < inputCount', NextFrame' = NextFrame + 1,
         asked \/ (drainCount' = 0 /\ inputCount' > NextFrame + Delta),
         \A k \in 0 .. inputCount' - 1 :
           k > NextFrame + OutputDelay - CacheSize => cache'[Slot(k)] = k,
         RunResolved(NextFrame)
  PROVE  /\ pending' \in Seq(Entry) /\ Len(pending') <= PipelineDepth'
         /\ workspace' \in -1 .. MaxIn - 1
         /\ made' \in Seq(Made)
         /\ InQueue(pending, NextFrame, fails, inputCount)'
         /\ Feeding' /\ MadeRight' /\ MadeSettled' /\ Counted' /\ OwnVectors'
<1> DEFINE e == [frame |-> NextFrame, known |-> inputCount']
           q == Append(pending, e)
<1>1. UNCHANGED << OutputDelay, PipelineDepth, Spare, shared >>
  BY SettingsStay
<1>2. /\ OutputDelay \in Nat \ {0} /\ PipelineDepth \in Nat /\ NextFrame \in Nat
      /\ inputCount \in Nat /\ inputCount' \in Nat /\ inputCount <= inputCount'
      /\ fails \in Nat /\ CacheSize \in Nat \ {0} /\ MaxIn \in Nat /\ Delta \in Nat \ {0}
      /\ pending \in Seq(Entry) /\ Len(pending) <= PipelineDepth
      /\ workspace \in -1 .. MaxIn - 1
      /\ made \in Seq(Made) /\ Len(made) \in Nat /\ Len(pending) \in Nat
  <2>1. TypeOK
    BY DEF DegrainInv
  <2>2. /\ OutputDelay \in Nat \ {0} /\ PipelineDepth \in Nat /\ NextFrame \in Nat
        /\ CacheSize \in Nat \ {0} /\ MaxIn \in Nat /\ Delta \in Nat \ {0}
    BY <2>1, Delays, DrainCounts, SizeAssumption, DeltaAssumption
  <2>3. /\ inputCount \in Nat /\ fails \in Nat
        /\ pending \in Seq(Entry) /\ Len(pending) <= PipelineDepth
        /\ workspace \in -1 .. MaxIn - 1
        /\ made \in Seq(Made)
    BY <2>1 DEF TypeOK
  <2>4. QED
    BY <2>2, <2>3
<1>3. workspace' \in -1 .. MaxIn - 1 /\ (shared => workspace' = NextFrame)
  <2>1. NextFrame \in -1 .. MaxIn - 1
    BY <1>2
  <2>2. workspace' = IF shared THEN NextFrame ELSE workspace
    BY DEF RunResolved
  <2>3. QED
    BY <1>2, <2>1, <2>2
<1>4. InQueue(pending, NextFrame, fails, inputCount')
  <2>1. CASE inputCount' = inputCount
    BY <2>1 DEF DegrainInv
  <2>2. CASE ~ asked
    BY <1>2, <2>2, QueueGrows DEF DegrainInv, Feeding
  <2>3. QED
    BY <2>1, <2>2
<1>5. /\ q \in Seq(Entry) /\ Len(q) = Len(pending) + 1
      /\ InQueue(q, NextFrame + 1, fails, inputCount')
  BY <1>2, <1>4, QueueAppend
<1>6. asked \/ Early(q)
  <2>1. SUFFICES ASSUME ~ asked PROVE Early(q)
    OBVIOUS
  <2>2. Early(pending) /\ e.known > e.frame + Delta
    BY <2>1 DEF DegrainInv, Feeding
  <2>3. ASSUME NEW i \in 1 .. Len(q)
        PROVE  \/ q[i] = e
               \/ i \in 1 .. Len(pending) /\ q[i] = pending[i]
    BY <1>2, <1>5, <2>3
  <2>4. QED
    BY <2>2, <2>3 DEF Early
<1> HIDE DEF q, e
<1>7. q # << >> /\ Len(q) \in Nat \ {0}
  BY <1>2, <1>5
<1>8. IF Full(q)
      THEN pending' = Tail(q) /\ made' = Append(made, Output(Head(q)))
      ELSE pending' = q /\ made' = made
  BY DEF RunResolved, q, e
<1>9. CASE Full(q)
  <2>1. Len(q) = PipelineDepth + 1
    BY <1>2, <1>5, <1>9 DEF Full
  <2>2. /\ Head(q) \in Entry
        /\ Head(q).frame < NextFrame + 1
        /\ Head(q).frame + Len(q) + fails >= NextFrame + 1
        /\ Head(q).known <= inputCount'
        /\ Head(q).known > Head(q).frame + Delta \/ Head(q).known = inputCount'
        /\ Early(q) => Head(q).known > Head(q).frame + Delta
    BY <1>2, <1>5, <1>7, QueueHead
  <2>3. Head(q).frame \in Nat
    BY <2>2 DEF Entry
  <2>4. Head(q).known > Head(q).frame + Delta \/ (asked /\ Head(q).known = inputCount')
    BY <1>6, <2>2
  <2>5. ASSUME fails <= Spare, NEW k \in 0 .. inputCount' - 1, k >= Head(q).frame - Delta
        PROVE  cache'[Slot(k)] = k
    <3>1. Head(q).frame + PipelineDepth + fails >= NextFrame
      BY <1>2, <2>1, <2>2, <2>3
    <3>2. fails + OutputDelay + PipelineDepth + Delta + 1 <= CacheSize
      BY <1>2, <2>5 DEF Spare
    <3>3. k \in Int /\ k + Delta >= Head(q).frame
      BY <1>2, <2>3, <2>5
    <3>4. k > NextFrame + OutputDelay - CacheSize
      BY <1>2, <2>3, <3>1, <3>2, <3>3
    <3>5. QED
      BY <2>5, <3>4
  <2>6. ASSUME shared, PipelineDepth = 0 PROVE workspace' = Head(q).frame
    <3>1. Len(pending) = 0
      BY <1>2, <2>6
    <3>2. pending = << >>
      BY <1>2, <3>1
    <3>3. Head(q) = e
      BY <3>2 DEF q
    <3>4. QED
      BY <1>3, <2>6, <3>3 DEF e
  <2>7. cache' \in [0 .. CacheSize - 1 -> Int] /\ workspace' \in Int /\ Head(q).frame < inputCount'
    BY <1>2, <1>3, <2>2, <2>3
  <2>8. made' \in Seq(Made) /\ MadeRight' /\ MadeSettled' /\ OwnVectors'
    BY <1>8, <1>9, <2>2, <2>4, <2>5, <2>6, <2>7, Emitted
  <2>9. /\ pending' \in Seq(Entry) /\ Len(pending') = PipelineDepth
        /\ InQueue(pending', NextFrame', fails', inputCount')
        /\ asked \/ Early(pending')
    <3>1. pending' = Tail(q) /\ NextFrame' = NextFrame + 1 /\ fails' = fails
      BY <1>8, <1>9
    <3>2. /\ Tail(q) \in Seq(Entry) /\ Len(Tail(q)) = Len(q) - 1
          /\ InQueue(Tail(q), NextFrame + 1, fails, inputCount')
          /\ Early(q) => Early(Tail(q))
      BY <1>2, <1>5, <1>7, QueueTail
    <3>3. QED
      BY <1>2, <1>6, <2>1, <3>1, <3>2
  <2>10. Len(made') = Len(made) + 1
    BY <1>2, <1>3, <1>8, <1>9, <2>2, <2>7, OutputType
  <2>11. Counted'
    <3>1. ASSUME fails = 0 PROVE Len(made') + Len(pending') = NextFrame + 1
      <4>1. Len(made) + Len(pending) = NextFrame
        BY <3>1 DEF DegrainInv, Counted
      <4>2. QED
        BY <1>2, <1>5, <2>1, <2>9, <2>10, <4>1
    <3>2. QED
      BY <1>1, <2>9, <3>1 DEF Counted
  <2>12. QED
    BY <1>1, <1>2, <1>3, <2>8, <2>9, <2>11 DEF Feeding
<1>10. CASE ~ Full(q)
  <2>1. /\ pending' = q /\ made' = made /\ Len(q) <= PipelineDepth
    BY <1>2, <1>7, <1>8, <1>10 DEF Full
  <2>2. MadeRight' /\ MadeSettled' /\ OwnVectors'
    BY <1>2, <2>1, MadeKept
  <2>3. Counted'
    BY <1>1, <1>2, <1>5, <2>1 DEF DegrainInv, Counted
  <2>4. QED
    BY <1>1, <1>2, <1>3, <1>5, <1>6, <2>1, <2>2, <2>3 DEF Feeding
<1>11. QED
  BY <1>9, <1>10

(* The oldest frame that waits goes out when all were worked on. *)
LEMMA DrainPendingKeeps ==
  ASSUME DegrainInv, asked, UNCHANGED << setting, asked, fails, inputCount, drainCount >>,
         DrainPending
  PROVE  /\ pending' \in Seq(Entry) /\ Len(pending') <= PipelineDepth'
         /\ workspace' \in -1 .. MaxIn - 1
         /\ made' \in Seq(Made)
         /\ InQueue(pending, NextFrame, fails, inputCount)'
         /\ Feeding' /\ MadeRight' /\ MadeSettled' /\ Counted' /\ OwnVectors'
<1>1. UNCHANGED << OutputDelay, PipelineDepth, Spare, shared >>
  BY SettingsStay
<1>2. /\ TypeOK /\ OutputDelay \in Nat \ {0} /\ PipelineDepth \in Nat /\ NextFrame = inputCount
      /\ CacheSize \in Nat \ {0} /\ MaxIn \in Nat /\ Delta \in Nat \ {0}
  <2>1. TypeOK
    BY DEF DegrainInv
  <2>2. drainCount = DrainFrameCount
    BY <2>1, DrainCounts DEF TypeOK, DrainPending
  <2>3. QED
    BY <2>1, <2>2, Delays, DrainCounts, SizeAssumption, DeltaAssumption DEF NextFrame
<1>3. /\ inputCount \in Nat /\ fails \in Nat
      /\ pending \in Seq(Entry) /\ Len(pending) <= PipelineDepth /\ pending # << >>
      /\ workspace \in -1 .. MaxIn - 1 /\ cache \in [0 .. CacheSize - 1 -> -1 .. MaxIn - 1]
      /\ made \in Seq(Made) /\ Len(made) \in Nat
  BY <1>2 DEF TypeOK, DrainPending
<1>4. Len(pending) \in Nat \ {0}
  BY <1>3
<1>5. /\ Head(pending) \in Entry
      /\ Head(pending).frame < inputCount
      /\ Head(pending).frame + Len(pending) + fails >= inputCount
      /\ Head(pending).known <= inputCount
      /\ Head(pending).known > Head(pending).frame + Delta \/ Head(pending).known = inputCount
  BY <1>2, <1>3, QueueHead DEF DegrainInv
<1>6. Head(pending).frame \in Nat
  BY <1>5 DEF Entry
<1>7. ASSUME fails <= Spare, NEW k \in 0 .. inputCount' - 1, k >= Head(pending).frame - Delta
      PROVE  cache'[Slot(k)] = k
  <2>1. Head(pending).frame + PipelineDepth + fails >= inputCount
    BY <1>2, <1>3, <1>4, <1>5, <1>6
  <2>2. fails + OutputDelay + PipelineDepth + Delta + 1 <= CacheSize
    BY <1>2, <1>3, <1>7 DEF Spare
  <2>3. k \in 0 .. inputCount - 1 /\ k + Delta >= Head(pending).frame
    BY <1>2, <1>3, <1>6, <1>7
  <2>4. k > inputCount - CacheSize
    BY <1>2, <1>3, <1>6, <2>1, <2>2, <2>3
  <2>5. QED
    BY <2>3, <2>4 DEF DegrainInv, CacheRight, DrainPending
<1>8. /\ cache' \in [0 .. CacheSize - 1 -> Int] /\ workspace' \in Int
      /\ ~ (shared /\ PipelineDepth = 0)
  BY <1>2, <1>3, <1>4 DEF DrainPending
<1>9. made' = Append(made, Output(Head(pending)))
  BY DEF DrainPending
<1>10. made' \in Seq(Made) /\ MadeRight' /\ MadeSettled' /\ OwnVectors'
  BY <1>5, <1>7, <1>8, <1>9, Emitted
<1>11. /\ pending' \in Seq(Entry) /\ Len(pending') = Len(pending) - 1
       /\ InQueue(pending', inputCount, fails, inputCount)
  BY <1>2, <1>3, QueueTail DEF DrainPending, DegrainInv
<1>12. NextFrame' = inputCount
  BY <1>1, <1>2 DEF NextFrame, FirstToDrain, DrainFrameCount
<1>13. Counted'
  <2>1. Len(made') = Len(made) + 1
    BY <1>3, <1>5, <1>8, <1>9, OutputType
  <2>2. fails = 0 => Len(made) + Len(pending) = inputCount
    BY <1>2 DEF DegrainInv, Counted
  <2>3. fails = 0 => Len(made') + Len(pending') = inputCount
    BY <1>3, <1>4, <1>11, <2>1, <2>2
  <2>4. QED
    BY <1>12, <2>3 DEF Counted
<1>14. QED
  BY <1>1, <1>2, <1>3, <1>4, <1>10, <1>11, <1>12, <1>13 DEF Feeding, DrainPending

(* A call that fails takes at most the head off the queue. *)
LEMMA ResolvedFailsKeeps ==
  ASSUME DegrainInv, UNCHANGED << setting, asked >>, fails' = fails + 1,
         \/ inputCount' = inputCount
         \/ (~ asked /\ inputCount' = inputCount + 1),
         inputCount' <= MaxIn,
         NextFrame < inputCount', NextFrame' = NextFrame + 1,
         asked \/ drainCount' = 0,
         ResolvedFails(NextFrame)
  PROVE  /\ pending' \in Seq(Entry) /\ Len(pending') <= PipelineDepth'
         /\ workspace' \in -1 .. MaxIn - 1
         /\ made' \in Seq(Made)
         /\ InQueue(pending, NextFrame, fails, inputCount)'
         /\ Feeding' /\ MadeRight' /\ MadeSettled' /\ Counted' /\ OwnVectors'
<1>1. UNCHANGED << OutputDelay, PipelineDepth, Spare, shared >>
  BY SettingsStay
<1>2. /\ TypeOK /\ PipelineDepth \in Nat /\ NextFrame \in Nat
      /\ MaxIn \in Nat /\ Delta \in Nat \ {0}
  <2>1. TypeOK
    BY DEF DegrainInv
  <2>2. QED
    BY <2>1, Delays, DrainCounts, SizeAssumption, DeltaAssumption
<1>3. /\ inputCount \in Nat /\ inputCount' \in Nat /\ inputCount <= inputCount' /\ fails \in Nat
      /\ pending \in Seq(Entry) /\ Len(pending) <= PipelineDepth /\ Len(pending) \in Nat
      /\ workspace \in -1 .. MaxIn - 1
      /\ made \in Seq(Made)
  BY <1>2 DEF TypeOK
<1>4. workspace' \in -1 .. MaxIn - 1 /\ made' = made
  <2>1. NextFrame \in -1 .. MaxIn - 1
    BY <1>2, <1>3
  <2>2. QED
    BY <1>3, <2>1 DEF ResolvedFails
<1>5. InQueue(pending, NextFrame + 1, fails + 1, inputCount')
  <2>1. InQueue(pending, NextFrame, fails, inputCount')
    <3>1. CASE inputCount' = inputCount
      BY <3>1 DEF DegrainInv
    <3>2. CASE ~ asked
      BY <1>2, <1>3, <3>2, QueueGrows DEF DegrainInv, Feeding
    <3>3. QED
      BY <3>1, <3>2
  <2>2. QED
    BY <1>2, <1>3, <2>1, QueueFails
<1>6. pending' = pending \/ (pending # << >> /\ pending' = Tail(pending))
  BY DEF ResolvedFails
<1>7. /\ pending' \in Seq(Entry) /\ Len(pending') <= PipelineDepth
      /\ InQueue(pending', NextFrame + 1, fails + 1, inputCount')
      /\ Early(pending) => Early(pending')
  <2>1. CASE pending' = pending
    BY <1>3, <1>5, <2>1
  <2>2. CASE pending # << >> /\ pending' = Tail(pending)
    <3>1. /\ Tail(pending) \in Seq(Entry) /\ Len(Tail(pending)) = Len(pending) - 1
          /\ InQueue(Tail(pending), NextFrame + 1, fails + 1, inputCount')
          /\ Early(pending) => Early(Tail(pending))
      <4>1. NextFrame + 1 \in Nat /\ fails + 1 \in Nat
        BY <1>2, <1>3
      <4>2. QED
        BY <1>3, <1>5, <2>2, <4>1, QueueTail
    <3>2. QED
      BY <1>2, <1>3, <2>2, <3>1
  <2>3. QED
    BY <1>6, <2>1, <2>2
<1>8. MadeRight' /\ MadeSettled' /\ OwnVectors'
  BY <1>3, <1>4, MadeKept
<1>9. Counted'
  BY <1>3 DEF Counted
<1>10. QED
  BY <1>1, <1>3, <1>4, <1>7, <1>8, <1>9 DEF Feeding, DegrainInv

(* A frame written into its slot leaves the ones before it in place. *)
LEMMA CacheWritten ==
  ASSUME DegrainInv, inputCount < MaxIn
  PROVE  LET c == [cache EXCEPT ![Slot(inputCount)] = inputCount]
         IN  /\ c \in [0 .. CacheSize - 1 -> -1 .. MaxIn - 1]
             /\ \A k \in 0 .. inputCount : k > inputCount - CacheSize => c[Slot(k)] = k
<1> DEFINE c == [cache EXCEPT ![Slot(inputCount)] = inputCount]
<1>1. /\ inputCount \in Nat /\ CacheSize \in Nat \ {0} /\ MaxIn \in Nat
      /\ cache \in [0 .. CacheSize - 1 -> -1 .. MaxIn - 1]
  BY SizeAssumption DEF DegrainInv, TypeOK
<1>2. inputCount \in -1 .. MaxIn - 1
  BY <1>1
<1>3. ASSUME NEW k \in 0 .. inputCount, k > inputCount - CacheSize
      PROVE  c[Slot(k)] = k
  <2>1. Slot(k) \in 0 .. CacheSize - 1
    BY <1>1, SlotInCache
  <2>2. CASE k = inputCount
    BY <1>1, <2>1, <2>2
  <2>3. CASE k # inputCount
    <3>1. k \in Nat /\ k < inputCount /\ inputCount < k + CacheSize
      BY <1>1, <1>3, <2>3
    <3>2. Slot(k) # Slot(inputCount)
      BY <1>1, <3>1, NeighboursApart DEF Slot
    <3>3. cache[Slot(k)] = k
      BY <1>1, <1>3, <3>1 DEF DegrainInv, CacheRight
    <3>4. QED
      BY <1>1, <2>1, <3>2, <3>3
  <2>4. QED
    BY <2>2, <2>3
<1>4. QED
  BY <1>1, <1>2, <1>3

(* What a call with a frame does to the frame and drain counts. *)
LEMMA FrameTaken ==
  ASSUME DegrainInv, ~ asked, UNCHANGED << setting, asked >>, inputCount < MaxIn,
         inputCount' = inputCount + 1, drainCount' = 0,
         cache' = [cache EXCEPT ![Slot(inputCount)] = inputCount]
  PROVE  /\ inputCount' \in 0 .. MaxIn /\ drainCount' \in 0 .. DrainFrameCount'
         /\ cache' \in [0 .. CacheSize - 1 -> -1 .. MaxIn - 1]
         /\ \A k \in 0 .. inputCount' - 1 : k > inputCount - CacheSize => cache'[Slot(k)] = k
         /\ CacheRight'
         /\ inputCount' < OutputDelay + 1 => NextFrame = 0 /\ NextFrame' = 0
         /\ inputCount' >= OutputDelay + 1 =>
              /\ NextFrame = inputCount' - OutputDelay - 1
              /\ NextFrame' = NextFrame + 1
<1>1. UNCHANGED OutputDelay
  BY SettingsStay
<1>2. /\ TypeOK /\ OutputDelay \in Nat \ {0} /\ inputCount \in Nat /\ MaxIn \in Nat
      /\ CacheSize \in Nat \ {0} /\ drainCount = 0
  BY Delays, SizeAssumption DEF DegrainInv, TypeOK, Feeding
<1>3. /\ cache' \in [0 .. CacheSize - 1 -> -1 .. MaxIn - 1]
      /\ \A k \in 0 .. inputCount : k > inputCount - CacheSize => cache'[Slot(k)] = k
  BY CacheWritten
<1>4. \A k \in 0 .. inputCount' - 1 : k > inputCount - CacheSize => cache'[Slot(k)] = k
  BY <1>2, <1>3
<1>5. CacheRight'
  BY <1>2, <1>4 DEF CacheRight
<1>6. NextFrame = IF OutputDelay < inputCount THEN inputCount - OutputDelay ELSE 0
  BY <1>2 DEF NextFrame, FirstToDrain, DrainFrameCount
<1>7. NextFrame' = IF OutputDelay < inputCount + 1 THEN inputCount + 1 - OutputDelay ELSE 0
  BY <1>1, <1>2 DEF NextFrame, FirstToDrain, DrainFrameCount
<1>8. 0 \in 0 .. DrainFrameCount'
  BY <1>1, <1>2 DEF DrainFrameCount
<1>9. QED
  BY <1>2, <1>3, <1>4, <1>5, <1>6, <1>7, <1>8

LEMMA RunFrameStep == DegrainInv /\ RunFrame => DegrainInv'
<1> SUFFICES ASSUME DegrainInv, RunFrame PROVE DegrainInv'
  OBVIOUS
<1>1. /\ ~ asked /\ inputCount < MaxIn /\ inputCount' = inputCount + 1 /\ drainCount' = 0
      /\ cache' = [cache EXCEPT ![Slot(inputCount)] = inputCount]
      /\ UNCHANGED << setting, asked, ended, fails >>
  BY DEF RunFrame
<1>2. /\ inputCount' \in 0 .. MaxIn /\ drainCount' \in 0 .. DrainFrameCount'
      /\ cache' \in [0 .. CacheSize - 1 -> -1 .. MaxIn - 1]
      /\ \A k \in 0 .. inputCount' - 1 : k > inputCount - CacheSize => cache'[Slot(k)] = k
      /\ CacheRight'
      /\ inputCount' < OutputDelay + 1 => NextFrame = 0 /\ NextFrame' = 0
      /\ inputCount' >= OutputDelay + 1 =>
           /\ NextFrame = inputCount' - OutputDelay - 1
           /\ NextFrame' = NextFrame + 1
  BY <1>1, FrameTaken
<1>3. UNCHANGED << OutputDelay, PipelineDepth, mode, lowLatency, shared >>
  BY <1>1, SettingsStay
<1>4. /\ TypeOK /\ OutputDelay \in Nat \ {0} /\ PipelineDepth \in Nat /\ inputCount \in Nat
      /\ inputCount' \in Nat /\ MaxIn \in Nat /\ CacheSize \in Nat \ {0} /\ Delta \in Nat
      /\ pending \in Seq(Entry) /\ Len(pending) <= PipelineDepth /\ fails \in 0 .. MaxFails
      /\ workspace \in -1 .. MaxIn - 1 /\ made \in Seq(Made) /\ Early(pending)
      /\ mode \in Modes /\ lowLatency \in BOOLEAN /\ shared \in BOOLEAN
      /\ asked \in BOOLEAN /\ ended \in BOOLEAN
  <2>1. TypeOK
    BY DEF DegrainInv
  <2>2. OutputDelay \in Nat \ {0} /\ PipelineDepth \in Nat
    BY <2>1, Delays
  <2>3. QED
    BY <1>1, <2>1, <2>2, SizeAssumption, DeltaAssumption DEF DegrainInv, TypeOK, Feeding
<1>5. /\ pending' \in Seq(Entry) /\ Len(pending') <= PipelineDepth'
      /\ workspace' \in -1 .. MaxIn - 1
      /\ made' \in Seq(Made)
      /\ InQueue(pending, NextFrame, fails, inputCount)'
      /\ Feeding' /\ MadeRight' /\ MadeSettled' /\ Counted' /\ OwnVectors'
  <2>1. CASE inputCount' < OutputDelay + 1
    <3>1. UNCHANGED << pending, workspace, made >> /\ NextFrame = 0 /\ NextFrame' = 0
      BY <1>2, <2>1 DEF RunFrame
    <3>2. InQueue(pending, 0, fails, inputCount')
      BY <1>1, <1>4, <3>1, QueueGrows DEF DegrainInv
    <3>3. MadeRight' /\ MadeSettled' /\ OwnVectors'
      BY <1>1, <1>4, <3>1, MadeKept
    <3>4. Counted'
      BY <1>1, <1>3, <3>1 DEF DegrainInv, Counted
    <3>5. Feeding'
      BY <1>1, <1>4, <3>1 DEF Feeding
    <3>6. QED
      BY <1>1, <1>3, <1>4, <3>1, <3>2, <3>3, <3>4, <3>5
  <2>2. CASE inputCount' >= OutputDelay + 1
    <3>1. NextFrame = inputCount' - OutputDelay - 1 /\ NextFrame' = NextFrame + 1
      BY <1>2, <2>2
    <3>2. RunResolved(NextFrame)
      BY <1>4, <2>2, <3>1 DEF RunFrame
    <3>3. NextFrame < inputCount' /\ NextFrame + OutputDelay = inputCount /\ NextFrame \in Nat
      BY <1>1, <1>4, <3>1, DrainCounts
    <3>4. inputCount' > NextFrame + Delta
      <4>1. OutputDelay >= Delta
        BY <1>4, Delays
      <4>2. QED
        BY <1>1, <1>4, <3>3, <4>1
    <3>5. \A k \in 0 .. inputCount' - 1 :
            k > NextFrame + OutputDelay - CacheSize => cache'[Slot(k)] = k
      <4>1. NextFrame + OutputDelay - CacheSize = inputCount - CacheSize
        BY <1>4, <3>3
      <4>2. QED
        BY <1>2, <4>1
    <3>6. QED
      BY <1>1, <1>2, <3>1, <3>2, <3>3, <3>4, <3>5, RunResolvedKeeps
  <2>3. QED
    BY <1>4, <2>1, <2>2
<1>6. TypeOK'
  BY <1>1, <1>2, <1>3, <1>4, <1>5 DEF TypeOK
<1>7. QED
  BY <1>2, <1>5, <1>6 DEF DegrainInv

LEMMA FrameFailsStep == DegrainInv /\ FrameFails => DegrainInv'
<1> SUFFICES ASSUME DegrainInv, FrameFails PROVE DegrainInv'
  OBVIOUS
<1>1. /\ ~ asked /\ inputCount < MaxIn /\ inputCount' = inputCount + 1 /\ drainCount' = 0
      /\ cache' = [cache EXCEPT ![Slot(inputCount)] = inputCount]
      /\ fails < MaxFails /\ fails' = fails + 1
      /\ UNCHANGED << setting, asked, ended >>
  BY DEF FrameFails
<1>2. /\ inputCount' \in 0 .. MaxIn /\ drainCount' \in 0 .. DrainFrameCount'
      /\ cache' \in [0 .. CacheSize - 1 -> -1 .. MaxIn - 1]
      /\ CacheRight'
      /\ inputCount' < OutputDelay + 1 => NextFrame = 0 /\ NextFrame' = 0
      /\ inputCount' >= OutputDelay + 1 =>
           /\ NextFrame = inputCount' - OutputDelay - 1
           /\ NextFrame' = NextFrame + 1
  BY <1>1, FrameTaken
<1>3. UNCHANGED << OutputDelay, PipelineDepth, mode, lowLatency, shared >>
  BY <1>1, SettingsStay
<1>4. /\ TypeOK /\ OutputDelay \in Nat \ {0} /\ PipelineDepth \in Nat /\ inputCount \in Nat
      /\ inputCount' \in Nat /\ MaxIn \in Nat /\ MaxFails \in Nat
      /\ pending \in Seq(Entry) /\ Len(pending) <= PipelineDepth /\ fails \in 0 .. MaxFails
      /\ workspace \in -1 .. MaxIn - 1 /\ made \in Seq(Made) /\ Early(pending)
      /\ mode \in Modes /\ lowLatency \in BOOLEAN /\ shared \in BOOLEAN
      /\ asked \in BOOLEAN /\ ended \in BOOLEAN
  <2>1. TypeOK
    BY DEF DegrainInv
  <2>2. OutputDelay \in Nat \ {0} /\ PipelineDepth \in Nat
    BY <2>1, Delays
  <2>3. QED
    BY <1>1, <2>1, <2>2, SizeAssumption DEF DegrainInv, TypeOK, Feeding
<1>5. /\ pending' \in Seq(Entry) /\ Len(pending') <= PipelineDepth'
      /\ workspace' \in -1 .. MaxIn - 1
      /\ made' \in Seq(Made)
      /\ InQueue(pending, NextFrame, fails, inputCount)'
      /\ Feeding' /\ MadeRight' /\ MadeSettled' /\ Counted' /\ OwnVectors'
  <2>1. CASE inputCount' < OutputDelay + 1
    <3>1. UNCHANGED << pending, workspace, made >> /\ NextFrame = 0 /\ NextFrame' = 0
      BY <1>2, <2>1 DEF FrameFails
    <3>2. InQueue(pending, 0, fails, inputCount')
      BY <1>1, <1>4, <3>1, QueueGrows DEF DegrainInv
    <3>3. InQueue(pending, 0, fails', inputCount')
      BY <1>1, <1>4, <3>2, QueueFails
    <3>4. MadeRight' /\ MadeSettled' /\ OwnVectors'
      BY <1>1, <1>4, <3>1, MadeKept
    <3>5. Counted'
      BY <1>1, <1>4 DEF Counted
    <3>6. Feeding'
      BY <1>1, <1>4, <3>1 DEF Feeding
    <3>7. QED
      BY <1>1, <1>3, <1>4, <3>1, <3>3, <3>4, <3>5, <3>6
  <2>2. CASE inputCount' >= OutputDelay + 1
    <3>1. NextFrame = inputCount' - OutputDelay - 1 /\ NextFrame' = NextFrame + 1
      BY <1>2, <2>2
    <3>2. ResolvedFails(NextFrame)
      BY <1>4, <2>2, <3>1 DEF FrameFails
    <3>3. NextFrame < inputCount'
      BY <1>1, <1>4, <3>1
    <3>4. QED
      BY <1>1, <1>2, <3>1, <3>2, <3>3, ResolvedFailsKeeps
  <2>3. QED
    BY <1>4, <2>1, <2>2
<1>6. fails' \in 0 .. MaxFails
  BY <1>1, <1>4
<1>7. TypeOK'
  BY <1>1, <1>2, <1>3, <1>4, <1>5, <1>6 DEF TypeOK
<1>8. QED
  BY <1>2, <1>5, <1>7 DEF DegrainInv

LEMMA PushFailsStep == DegrainInv /\ PushFails => DegrainInv'
<1> SUFFICES ASSUME DegrainInv, PushFails PROVE DegrainInv'
  OBVIOUS
<1>1. /\ ~ asked /\ drainCount' = 0 /\ fails < MaxFails /\ fails' = fails + 1
      /\ cache' \in {cache, [cache EXCEPT ![Slot(inputCount)] = -1]}
      /\ UNCHANGED << setting, inputCount, pending, workspace, asked, ended, made >>
  BY DEF PushFails
<1>2. UNCHANGED << OutputDelay, PipelineDepth, mode, lowLatency, shared >>
  BY <1>1, SettingsStay
<1>3. /\ TypeOK /\ inputCount \in 0 .. MaxIn /\ MaxIn \in Nat /\ MaxFails \in Nat
      /\ CacheSize \in Nat \ {0} /\ fails \in 0 .. MaxFails /\ drainCount = 0
      /\ cache \in [0 .. CacheSize - 1 -> -1 .. MaxIn - 1] /\ pending \in Seq(Entry)
  <2>1. TypeOK
    BY DEF DegrainInv
  <2>2. QED
    BY <1>1, <2>1, SizeAssumption DEF DegrainInv, TypeOK, Feeding
<1>4. /\ cache' \in [0 .. CacheSize - 1 -> -1 .. MaxIn - 1]
      /\ \A k \in 0 .. inputCount - 1 : k > inputCount - CacheSize => cache'[Slot(k)] = k
  <2>1. CASE cache' = cache
    BY <1>3, <2>1 DEF DegrainInv, CacheRight
  <2>2. CASE cache' = [cache EXCEPT ![Slot(inputCount)] = -1]
    <3>1. -1 \in -1 .. MaxIn - 1
      BY <1>3
    <3>2. ASSUME NEW k \in 0 .. inputCount - 1, k > inputCount - CacheSize
          PROVE  cache'[Slot(k)] = k
      <4>2. k \in Nat /\ inputCount \in Nat /\ k < inputCount /\ inputCount < k + CacheSize
        BY <1>3, <3>2
      <4>1. Slot(k) \in 0 .. CacheSize - 1
        BY <4>2, SlotInCache
      <4>3. Slot(k) # Slot(inputCount)
        BY <1>3, <4>2, NeighboursApart DEF Slot
      <4>4. cache[Slot(k)] = k
        BY <3>2 DEF DegrainInv, CacheRight
      <4>5. QED
        BY <1>3, <2>2, <4>1, <4>3, <4>4
    <3>3. QED
      BY <1>3, <2>2, <3>1, <3>2
  <2>3. QED
    BY <1>1, <2>1, <2>2
<1>5. CacheRight'
  BY <1>1, <1>4 DEF CacheRight
<1>6. NextFrame' = NextFrame /\ DrainFrameCount' = DrainFrameCount /\ NextFrame \in Nat
  BY <1>1, <1>2, <1>3, DrainCounts DEF NextFrame, FirstToDrain, DrainFrameCount
<1>7. InQueue(pending, NextFrame, fails, inputCount)'
  BY <1>1, <1>3, <1>6, QueueFails DEF DegrainInv
<1>8. MadeRight' /\ MadeSettled' /\ OwnVectors'
  BY <1>1, <1>3, MadeKept
<1>9. Counted' /\ Feeding'
  BY <1>1, <1>3 DEF DegrainInv, Counted, Feeding
<1>10. TypeOK'
  BY <1>1, <1>2, <1>3, <1>4, <1>6 DEF TypeOK
<1>11. QED
  BY <1>5, <1>7, <1>8, <1>9, <1>10 DEF DegrainInv

LEMMA AskStep == DegrainInv /\ Ask => DegrainInv'
<1> SUFFICES ASSUME DegrainInv, Ask PROVE DegrainInv'
  OBVIOUS
<1>1. /\ asked' = TRUE /\ ended' = FALSE
      /\ UNCHANGED << setting, inputCount, drainCount, cache, pending, workspace, made, fails >>
  BY DEF Ask
<1>2. UNCHANGED << OutputDelay, PipelineDepth, mode, lowLatency, shared >>
  BY <1>1, SettingsStay
<1>3. TypeOK /\ fails \in Nat
  BY DEF DegrainInv, TypeOK
<1>4. NextFrame' = NextFrame /\ DrainFrameCount' = DrainFrameCount
  BY <1>1, <1>2 DEF NextFrame, FirstToDrain, DrainFrameCount
<1>5. TypeOK'
  BY <1>1, <1>2, <1>3, <1>4 DEF TypeOK
<1>6. CacheRight' /\ InQueue(pending, NextFrame, fails, inputCount)'
  BY <1>1, <1>4 DEF DegrainInv, CacheRight
<1>7. MadeRight' /\ MadeSettled' /\ OwnVectors'
  BY <1>1, <1>3, MadeKept
<1>8. Counted' /\ Feeding'
  BY <1>1, <1>4 DEF DegrainInv, Counted, Feeding
<1>9. QED
  BY <1>5, <1>6, <1>7, <1>8 DEF DegrainInv

(* A drain call leaves what was taken, and the cache, alone. *)
LEMMA DrainStays ==
  ASSUME DegrainInv, UNCHANGED << setting, inputCount, cache >>
  PROVE  /\ UNCHANGED << OutputDelay, PipelineDepth, mode, lowLatency, shared, FirstToDrain,
                        DrainFrameCount >>
         /\ CacheRight'
         /\ inputCount \in 0 .. MaxIn /\ inputCount \in Nat
         /\ cache \in [0 .. CacheSize - 1 -> -1 .. MaxIn - 1]
         /\ drainCount \in 0 .. DrainFrameCount /\ DrainFrameCount \in Nat
         /\ FirstToDrain + DrainFrameCount = inputCount /\ FirstToDrain \in Nat
         /\ DrainFrameCount <= OutputDelay
         /\ OutputDelay \in Nat \ {0}
<1>1. UNCHANGED << OutputDelay, PipelineDepth, mode, lowLatency, shared >>
  BY SettingsStay
<1>2. TypeOK
  BY DEF DegrainInv
<1>3. UNCHANGED << FirstToDrain, DrainFrameCount >>
  BY <1>1 DEF FirstToDrain, DrainFrameCount
<1>4. CacheRight'
  BY DEF DegrainInv, CacheRight
<1>5. QED
  BY <1>1, <1>2, <1>3, <1>4, Delays, DrainCounts, SizeAssumption DEF TypeOK

LEMMA RunDrainStep == DegrainInv /\ RunDrain => DegrainInv'
<1> SUFFICES ASSUME DegrainInv, RunDrain PROVE DegrainInv'
  OBVIOUS
<1>1. /\ asked /\ UNCHANGED << setting, asked, fails, inputCount, cache >>
      /\ ended' \in BOOLEAN
      /\ DrainFrame \/ DrainPending \/ DrainNothing
  BY DEF RunDrain, DrainFrame, DrainPending, DrainNothing
<1>2. /\ UNCHANGED << OutputDelay, PipelineDepth, mode, lowLatency, shared, FirstToDrain,
                     DrainFrameCount >>
      /\ CacheRight'
      /\ inputCount \in 0 .. MaxIn /\ inputCount \in Nat
      /\ cache \in [0 .. CacheSize - 1 -> -1 .. MaxIn - 1]
      /\ drainCount \in 0 .. DrainFrameCount /\ DrainFrameCount \in Nat
      /\ FirstToDrain + DrainFrameCount = inputCount /\ FirstToDrain \in Nat
      /\ DrainFrameCount <= OutputDelay
      /\ OutputDelay \in Nat \ {0}
  BY <1>1, DrainStays
<1>3. /\ pending' \in Seq(Entry) /\ Len(pending') <= PipelineDepth'
      /\ workspace' \in -1 .. MaxIn - 1
      /\ made' \in Seq(Made)
      /\ InQueue(pending, NextFrame, fails, inputCount)'
      /\ Feeding' /\ MadeRight' /\ MadeSettled' /\ Counted' /\ OwnVectors'
      /\ drainCount' \in 0 .. DrainFrameCount
  <2>1. CASE DrainFrame
    <3>1. /\ drainCount < DrainFrameCount /\ drainCount' = drainCount + 1
          /\ RunResolved(NextFrame)
      BY <2>1 DEF DrainFrame, NextFrame
    <3>2. NextFrame < inputCount /\ NextFrame' = NextFrame + 1 /\ NextFrame \in Nat
      BY <1>2, <3>1 DEF NextFrame
    <3>3. NextFrame + OutputDelay >= inputCount
      BY <1>2, <3>1 DEF NextFrame
    <3>4. CacheSize \in Nat
      BY SizeAssumption
    <3>5. ASSUME NEW k \in 0 .. inputCount' - 1, k > NextFrame + OutputDelay - CacheSize
          PROVE  cache'[Slot(k)] = k
      <4>1. k \in 0 .. inputCount - 1
        BY <1>1, <3>5
      <4>2. k > inputCount - CacheSize
        BY <1>2, <3>2, <3>3, <3>4, <3>5, <4>1
      <4>3. QED
        BY <1>1, <4>1, <4>2 DEF DegrainInv, CacheRight
    <3>6. inputCount' <= MaxIn /\ NextFrame < inputCount'
          /\ cache' \in [0 .. CacheSize - 1 -> -1 .. MaxIn - 1]
      BY <1>1, <1>2, <3>2, SizeAssumption
    <3>7. drainCount' \in 0 .. DrainFrameCount
      BY <1>2, <3>1
    <3>8. QED
      BY <1>1, <3>1, <3>2, <3>5, <3>6, <3>7, RunResolvedKeeps
  <2>2. CASE DrainPending
    <3>1. UNCHANGED drainCount
      BY <2>2 DEF DrainPending
    <3>2. QED
      BY <1>1, <1>2, <2>2, <3>1, DrainPendingKeeps
  <2>3. CASE DrainNothing
    <3>1. UNCHANGED << drainCount, workspace, pending, made >>
      BY <2>3 DEF DrainNothing
    <3>2. NextFrame' = NextFrame
      BY <1>2, <3>1 DEF NextFrame
    <3>3. TypeOK /\ fails \in Nat
      BY DEF DegrainInv, TypeOK
    <3>4. MadeRight' /\ MadeSettled' /\ OwnVectors'
      BY <1>1, <3>1, <3>3, MadeKept
    <3>5. InQueue(pending, NextFrame, fails, inputCount)' /\ Counted' /\ Feeding'
      BY <1>1, <1>2, <3>1, <3>2 DEF DegrainInv, Counted, Feeding
    <3>6. QED
      BY <1>2, <3>1, <3>3, <3>4, <3>5 DEF TypeOK
  <2>4. QED
    BY <1>1, <2>1, <2>2, <2>3
<1>4. TypeOK
  BY DEF DegrainInv
<1>5. TypeOK'
  BY <1>1, <1>2, <1>3, <1>4 DEF TypeOK
<1>6. QED
  BY <1>2, <1>3, <1>5 DEF DegrainInv

LEMMA DrainFailsStep == DegrainInv /\ DrainFails => DegrainInv'
<1> SUFFICES ASSUME DegrainInv, DrainFails PROVE DegrainInv'
  OBVIOUS
<1>1. /\ asked /\ UNCHANGED << setting, asked, ended, inputCount, cache >>
      /\ fails < MaxFails /\ fails' = fails + 1
  BY DEF DrainFails
<1>2. /\ UNCHANGED << OutputDelay, PipelineDepth, mode, lowLatency, shared, FirstToDrain,
                     DrainFrameCount >>
      /\ CacheRight'
      /\ inputCount \in 0 .. MaxIn /\ inputCount \in Nat
      /\ cache \in [0 .. CacheSize - 1 -> -1 .. MaxIn - 1]
      /\ drainCount \in 0 .. DrainFrameCount /\ DrainFrameCount \in Nat
      /\ FirstToDrain + DrainFrameCount = inputCount /\ FirstToDrain \in Nat
      /\ DrainFrameCount <= OutputDelay
      /\ OutputDelay \in Nat \ {0}
  BY <1>1, DrainStays
<1>3. /\ TypeOK /\ fails \in 0 .. MaxFails /\ MaxFails \in Nat /\ pending \in Seq(Entry)
      /\ Len(pending) <= PipelineDepth /\ PipelineDepth \in Nat /\ MaxIn \in Nat
      /\ workspace \in -1 .. MaxIn - 1 /\ made \in Seq(Made) /\ NextFrame \in Nat
  <2>1. TypeOK
    BY DEF DegrainInv
  <2>2. QED
    BY <2>1, Delays, DrainCounts, SizeAssumption DEF TypeOK
<1>4. /\ pending' \in Seq(Entry) /\ Len(pending') <= PipelineDepth'
      /\ workspace' \in -1 .. MaxIn - 1
      /\ made' \in Seq(Made)
      /\ InQueue(pending, NextFrame, fails, inputCount)'
      /\ Feeding' /\ MadeRight' /\ MadeSettled' /\ Counted' /\ OwnVectors'
      /\ drainCount' \in 0 .. DrainFrameCount
  <2>1. CASE /\ drainCount < DrainFrameCount
             /\ drainCount' = drainCount + 1 /\ ResolvedFails(FirstToDrain + drainCount)
    <3>1. ResolvedFails(NextFrame)
      BY <2>1 DEF NextFrame
    <3>2. NextFrame < inputCount /\ NextFrame' = NextFrame + 1
      BY <1>2, <2>1 DEF NextFrame
    <3>3. inputCount' <= MaxIn /\ NextFrame < inputCount'
      BY <1>1, <1>2, <3>2, SizeAssumption
    <3>4. drainCount' \in 0 .. DrainFrameCount
      BY <1>2, <2>1
    <3>5. QED
      BY <1>1, <3>1, <3>2, <3>3, <3>4, ResolvedFailsKeeps
  <2>2. CASE UNCHANGED << drainCount, workspace, pending, made >>
    <3>1. NextFrame' = NextFrame
      BY <1>2, <2>2 DEF NextFrame
    <3>2. InQueue(pending, NextFrame, fails, inputCount)'
      BY <1>1, <1>2, <1>3, <2>2, <3>1, QueueFails DEF DegrainInv
    <3>3. MadeRight' /\ MadeSettled' /\ OwnVectors'
      BY <1>1, <1>3, <2>2, MadeKept
    <3>4. Counted' /\ Feeding'
      BY <1>1, <1>3 DEF Counted, Feeding
    <3>5. QED
      BY <1>2, <1>3, <2>2, <3>2, <3>3, <3>4
  <2>3. CASE /\ pending # << >> /\ pending' = Tail(pending)
             /\ UNCHANGED << drainCount, workspace, made >>
    <3>1. NextFrame' = NextFrame
      BY <1>2, <2>3 DEF NextFrame
    <3>2. InQueue(pending, NextFrame, fails + 1, inputCount) /\ fails + 1 \in Nat
      BY <1>2, <1>3, QueueFails DEF DegrainInv
    <3>3. /\ Tail(pending) \in Seq(Entry) /\ Len(Tail(pending)) = Len(pending) - 1
          /\ InQueue(Tail(pending), NextFrame, fails + 1, inputCount)
      BY <1>2, <1>3, <2>3, <3>2, QueueTail
    <3>4. MadeRight' /\ MadeSettled' /\ OwnVectors'
      BY <1>1, <1>3, <2>3, MadeKept
    <3>5. Counted' /\ Feeding'
      BY <1>1, <1>3 DEF Counted, Feeding
    <3>6. QED
      BY <1>1, <1>2, <1>3, <2>3, <3>1, <3>3, <3>4, <3>5
  <2>4. QED
    BY <2>1, <2>2, <2>3 DEF DrainFails
<1>5. fails' \in 0 .. MaxFails
  BY <1>1, <1>3
<1>6. TypeOK'
  BY <1>1, <1>2, <1>3, <1>4, <1>5 DEF TypeOK
<1>7. QED
  BY <1>2, <1>4, <1>6 DEF DegrainInv

LEMMA InitStep == Init => DegrainInv
<1> SUFFICES ASSUME Init PROVE DegrainInv
  OBVIOUS
<1>1. /\ inputCount = 0 /\ drainCount = 0 /\ pending = << >> /\ made = << >> /\ fails = 0
      /\ workspace = -1 /\ asked = FALSE /\ ended = FALSE
      /\ cache = [s \in 0 .. CacheSize - 1 |-> -1]
      /\ mode \in Modes /\ lowLatency \in BOOLEAN /\ shared \in BOOLEAN
  BY SharedAssumption DEF Init
<1>2. OutputDelay \in Nat \ {0} /\ PipelineDepth \in Nat
  BY DeltaAssumption DEF OutputDelay, PipelineDepth
<1>3. DrainFrameCount = 0 /\ FirstToDrain = 0 /\ NextFrame = 0
  <2>1. inputCount = 0 /\ drainCount = 0
    BY <1>1
  <2>2. DrainFrameCount = 0
    BY <1>2, <2>1 DEF DrainFrameCount
  <2>3. FirstToDrain = 0
    BY <2>1, <2>2 DEF FirstToDrain
  <2>4. QED
    BY <2>1, <2>2, <2>3 DEF NextFrame
<1>4. -1 \in -1 .. MaxIn - 1 /\ 0 \in 0 .. MaxIn /\ 0 \in 0 .. MaxFails
  BY SizeAssumption
<1>5. TypeOK
  <2>1. /\ pending \in Seq(Entry) /\ Len(pending) <= PipelineDepth /\ made \in Seq(Made)
        /\ drainCount \in 0 .. DrainFrameCount
    BY <1>1, <1>2, <1>3
  <2>2. cache \in [0 .. CacheSize - 1 -> -1 .. MaxIn - 1] /\ workspace \in -1 .. MaxIn - 1
    BY <1>1, <1>4
  <2>3. QED
    BY <1>1, <1>4, <2>1, <2>2 DEF TypeOK
<1>6. CacheRight /\ MadeRight /\ MadeSettled /\ OwnVectors
  BY <1>1 DEF CacheRight, MadeRight, MadeSettled, OwnVectors, VectorsOfTheFrame
<1>7. InQueue(pending, NextFrame, fails, inputCount) /\ Feeding /\ Counted
  BY <1>1, <1>3 DEF InQueue, Feeding, Early, Counted
<1>8. QED
  BY <1>5, <1>6, <1>7 DEF DegrainInv

LEMMA StutterStep == DegrainInv /\ UNCHANGED vars => DegrainInv'
<1> SUFFICES ASSUME DegrainInv, UNCHANGED vars PROVE DegrainInv'
  OBVIOUS
<1>1. /\ UNCHANGED << setting, inputCount, drainCount, cache, pending, workspace, asked, ended,
                     made, fails >>
  BY DEF vars
<1>2. /\ UNCHANGED << OutputDelay, PipelineDepth, mode, lowLatency, shared, FirstToDrain,
                     DrainFrameCount >>
      /\ CacheRight'
  BY <1>1, DrainStays
<1>3. NextFrame' = NextFrame
  BY <1>1, <1>2 DEF NextFrame
<1>4. TypeOK /\ fails \in Nat
  BY DEF DegrainInv, TypeOK
<1>5. TypeOK'
  BY <1>1, <1>2, <1>4 DEF TypeOK
<1>6. MadeRight' /\ MadeSettled' /\ OwnVectors'
  BY <1>1, <1>4, MadeKept
<1>7. InQueue(pending, NextFrame, fails, inputCount)' /\ Counted' /\ Feeding'
  BY <1>1, <1>2, <1>3 DEF DegrainInv, Counted, Feeding
<1>8. QED
  BY <1>2, <1>5, <1>6, <1>7 DEF DegrainInv

(* The invariant the others follow from: what is in the cache, which       *)
(* frames wait and since when, and that what was put out is right.         *)
THEOREM DegrainInvariant == Spec => []DegrainInv
<1>1. DegrainInv /\ [Next]_vars => DegrainInv'
  BY RunFrameStep, PushFailsStep, FrameFailsStep, AskStep, RunDrainStep, DrainFailsStep,
     StutterStep DEF Next
<1>2. QED
  BY InitStep, <1>1, PTL DEF Spec

(* The variables keep their types, and no more frames wait than the        *)
(* pipeline is deep (NVEncFilterDegrain::runDegrainMode).                  *)
THEOREM TypeCorrect == Spec => []TypeOK
<1>1. DegrainInv => TypeOK
  BY DEF DegrainInv
<1>2. QED
  BY DegrainInvariant, <1>1, PTL

(* Every output is made from the frames it should be made from, as long as *)
(* no more calls have failed than the cache has slots to spare             *)
(* (NVEncFilterDegrain::cacheIndex, resolveFrameSet).                      *)
THEOREM SourcesCorrect == Spec => []MadeRight
<1>1. DegrainInv => MadeRight
  BY DEF DegrainInv
<1>2. QED
  BY DegrainInvariant, <1>1, PTL

(* Vectors that stay where the analysis put them, or are used at once, are *)
(* those of the frame put out (NVEncFilterDegrain::bindAnalyzeResult).     *)
THEOREM VectorsCorrect == Spec => []OwnVectors
<1>1. DegrainInv => OwnVectors
  BY DEF DegrainInv
<1>2. QED
  BY DegrainInvariant, <1>1, PTL

(* As long as no call fails the stage is a fixed number of frames behind   *)
(* its input (NVEncFilterDegrain::run_filter).                             *)
THEOREM LagCorrect == Spec => []ConstantLag
<1>1. DegrainInv => ConstantLag
  <2>1. SUFFICES ASSUME DegrainInv, fails = 0, ~ asked
                 PROVE  Len(made) = IF inputCount > OutputDelay + PipelineDepth
                                    THEN inputCount - (OutputDelay + PipelineDepth) ELSE 0
    BY DEF ConstantLag
  <2>2. /\ TypeOK /\ OutputDelay \in Nat \ {0} /\ PipelineDepth \in Nat /\ inputCount \in Nat
        /\ Len(pending) \in Nat /\ Len(pending) <= PipelineDepth /\ made \in Seq(Made)
        /\ drainCount = 0
    <3>1. TypeOK
      BY <2>1 DEF DegrainInv
    <3>2. QED
      BY <2>1, <3>1, Delays DEF DegrainInv, TypeOK, Feeding
  <2>3. NextFrame = IF OutputDelay < inputCount THEN inputCount - OutputDelay ELSE 0
    BY <2>2 DEF NextFrame, FirstToDrain, DrainFrameCount
  <2>4. /\ Len(made) + Len(pending) = NextFrame
        /\ made = << >> \/ Len(pending) = PipelineDepth
    BY <2>1 DEF DegrainInv, Counted
  <2>5. Len(made) \in Nat /\ (made = << >> => Len(made) = 0)
    BY <2>2
  <2>6. QED
    BY <2>2, <2>3, <2>4, <2>5
<1>2. QED
  BY DegrainInvariant, <1>1, PTL

-----------------------------------------------------------------------------
(* The pass the stage is                                                   *)

(* The frames of q wait and those from u on have not been worked on, of n. *)
Holding(q, u, n) == {q[i].frame : i \in 1 .. Len(q)} \cup (u .. n - 1)

(* The frames of q come in order, and before u. *)
Sorted(q, u) ==
  \A i \in 1 .. Len(q) : q[i].frame < u /\ \A j \in 1 .. i - 1 : q[j].frame < q[i].frame

(* Once a frame has come out the pipeline is full, until the drain has     *)
(* worked on all there are: a drain call that answers nothing before was   *)
(* made of a stream of which nothing has come out.                         *)
Primed ==
  fails = 0 =>
    \/ made = << >> \/ Len(pending) = PipelineDepth
    \/ asked /\ drainCount = DrainFrameCount

PassInv == Sorted(pending, NextFrame) /\ Primed

LEMMA OldestIsLeast ==
  ASSUME NEW S, S \subseteq Nat, NEW k \in S, \A j \in S : k <= j
  PROVE  AsPass!Oldest(S) = k
<1>1. \A m \in S : (\A j \in S : m <= j) => m = k
  OBVIOUS
<1>2. QED
  BY <1>1 DEF AsPass!Oldest

(* A frame that is worked on waits with the others. *)
LEMMA WaitsWithThem ==
  ASSUME NEW q \in Seq(Entry), NEW u \in Nat, NEW n \in Nat, u < n, NEW k \in Nat, Sorted(q, u)
  PROVE  LET r == Append(q, [frame |-> u, known |-> k])
         IN  /\ r \in Seq(Entry) /\ r # << >> /\ Len(r) = Len(q) + 1
             /\ Sorted(r, u + 1)
             /\ Holding(r, u + 1, n) = Holding(q, u, n)
<1> DEFINE e == [frame |-> u, known |-> k]
           r == Append(q, e)
<1>1. e \in Entry /\ e.frame = u
  BY DEF Entry
<1> HIDE DEF e
<1>2. r \in Seq(Entry) /\ r # << >> /\ Len(r) = Len(q) + 1 /\ Len(q) \in Nat
  BY <1>1
<1>3. r[Len(q) + 1] = e /\ \A i \in 1 .. Len(q) : r[i] = q[i]
  BY <1>1
<1>4. \A i \in 1 .. Len(q) : q[i].frame \in Nat
  BY EntryAt
<1> HIDE DEF r
<1>5. Sorted(r, u + 1)
  <2>1. ASSUME NEW i \in 1 .. Len(q)
        PROVE  r[i].frame < u + 1 /\ \A j \in 1 .. i - 1 : r[j].frame < r[i].frame
    <3>1. q[i].frame < u /\ \A j \in 1 .. i - 1 : q[j].frame < q[i].frame
      BY DEF Sorted
    <3>2. \A j \in 1 .. i - 1 : r[j] = q[j]
      BY <1>2, <1>3
    <3>3. QED
      BY <1>3, <1>4, <3>1, <3>2
  <2>2. u < u + 1 /\ \A j \in 1 .. Len(q) : r[j].frame < u
    BY <1>3 DEF Sorted
  <2>3. ASSUME NEW i \in 1 .. Len(r)
        PROVE  r[i].frame < u + 1 /\ \A j \in 1 .. i - 1 : r[j].frame < r[i].frame
    <3>1. CASE i \in 1 .. Len(q)
      BY <2>1, <3>1
    <3>2. CASE i = Len(q) + 1
      BY <1>1, <1>2, <1>3, <2>2, <3>2
    <3>3. QED
      BY <1>2, <3>1, <3>2
  <2>4. QED
    BY <2>3 DEF Sorted
<1>6. {r[i].frame : i \in 1 .. Len(r)} = {q[i].frame : i \in 1 .. Len(q)} \cup {u}
  <2>1. 1 .. Len(r) = (1 .. Len(q)) \cup {Len(q) + 1}
    BY <1>2
  <2>2. QED
    BY <1>1, <1>3, <2>1
<1>7. u .. n - 1 = {u} \cup (u + 1 .. n - 1)
  OBVIOUS
<1>8. Holding(r, u + 1, n) = Holding(q, u, n)
  BY <1>6, <1>7 DEF Holding
<1>9. QED
  BY <1>2, <1>5, <1>8 DEF r, e

(* The frame that waits longest is the oldest the stage has. *)
LEMMA OldestLeaves ==
  ASSUME NEW q \in Seq(Entry), q # << >>, NEW u \in Nat, NEW n \in Nat, Sorted(q, u)
  PROVE  /\ Head(q).frame \in Holding(q, u, n)
         /\ AsPass!Oldest(Holding(q, u, n)) = Head(q).frame
         /\ Holding(Tail(q), u, n) = Holding(q, u, n) \ {Head(q).frame}
         /\ Sorted(Tail(q), u)
<1> DEFINE f == Head(q).frame
           H == Holding(q, u, n)
<1>1. Len(q) \in Nat \ {0} /\ Len(Tail(q)) = Len(q) - 1 /\ f = q[1].frame
  OBVIOUS
<1>2. \A i \in 1 .. Len(Tail(q)) : Tail(q)[i] = q[i + 1] /\ i + 1 \in 1 .. Len(q)
  BY <1>1
<1>3. \A i \in 1 .. Len(q) : q[i].frame \in Nat /\ q[i].frame < u
  BY EntryAt DEF Sorted
<1>4. \A i \in 2 .. Len(q) : f < q[i].frame
  BY <1>1 DEF Sorted
<1>5. f \in H /\ H \subseteq Nat /\ \A j \in H : f <= j
  <2>1. f \in {q[i].frame : i \in 1 .. Len(q)} /\ f \in Nat /\ f < u
    BY <1>1, <1>3
  <2>2. \A j \in {q[i].frame : i \in 1 .. Len(q)} : j \in Nat /\ f <= j
    BY <1>1, <1>3, <1>4
  <2>3. \A j \in u .. n - 1 : j \in Nat /\ f <= j
    BY <2>1
  <2>4. QED
    BY <2>1, <2>2, <2>3 DEF Holding
<1>6. AsPass!Oldest(H) = f
  BY <1>5, OldestIsLeast
<1>7. {Tail(q)[i].frame : i \in 1 .. Len(Tail(q))} = {q[i].frame : i \in 1 .. Len(q)} \ {f}
  <2>1. \A i \in 2 .. Len(q) : i - 1 \in 1 .. Len(Tail(q)) /\ Tail(q)[i - 1] = q[i]
    BY <1>1, <1>2
  <2>2. \A i \in 1 .. Len(Tail(q)) : i + 1 \in 2 .. Len(q)
    BY <1>1
  <2>3. 1 .. Len(q) = {1} \cup (2 .. Len(q))
    BY <1>1
  <2>4. {Tail(q)[i].frame : i \in 1 .. Len(Tail(q))} = {q[i].frame : i \in 2 .. Len(q)}
    <3>1. ASSUME NEW i \in 1 .. Len(Tail(q))
          PROVE  Tail(q)[i].frame \in {q[k].frame : k \in 2 .. Len(q)}
      BY <1>2, <2>2
    <3>2. ASSUME NEW i \in 2 .. Len(q)
          PROVE  q[i].frame \in {Tail(q)[k].frame : k \in 1 .. Len(Tail(q))}
      <4>1. i - 1 \in 1 .. Len(Tail(q)) /\ Tail(q)[i - 1] = q[i]
        BY <2>1
      <4>2. q[i].frame = Tail(q)[i - 1].frame
        BY <4>1
      <4>3. QED
        BY <4>1, <4>2
    <3>3. QED
      BY <3>1, <3>2
  <2>5. {q[i].frame : i \in 2 .. Len(q)} = {q[i].frame : i \in 1 .. Len(q)} \ {f}
    <3>1. \A i \in 2 .. Len(q) : q[i].frame # f /\ i \in 1 .. Len(q)
      BY <1>1, <1>3, <1>4
    <3>2. \A i \in 1 .. Len(q) : q[i].frame # f => i \in 2 .. Len(q)
      BY <1>1, <2>3
    <3>3. QED
      BY <3>1, <3>2
  <2>6. QED
    BY <2>4, <2>5
<1>8. f \notin u .. n - 1
  BY <1>1, <1>3
<1>9. Holding(Tail(q), u, n) = H \ {f}
  BY <1>7, <1>8 DEF Holding
<1>10. Sorted(Tail(q), u)
  <2> SUFFICES ASSUME NEW i \in 1 .. Len(Tail(q))
               PROVE  /\ Tail(q)[i].frame < u
                      /\ \A j \in 1 .. i - 1 : Tail(q)[j].frame < Tail(q)[i].frame
    BY DEF Sorted
  <2>1. Tail(q)[i] = q[i + 1] /\ i + 1 \in 1 .. Len(q)
    BY <1>2
  <2>2. \A j \in 1 .. i - 1 : Tail(q)[j] = q[j + 1] /\ j + 1 \in 1 .. (i + 1) - 1
    BY <1>1, <1>2
  <2>3. QED
    BY <2>1, <2>2 DEF Sorted
<1>11. QED
  BY <1>5, <1>6, <1>9, <1>10

(* What the stage holds. *)
LEMMA HeldIs ==
  Held = Holding(pending, NextFrame, inputCount) /\ Held' = Holding(pending', NextFrame', inputCount')
BY DEF Held, Holding, NextFrame

(* A frame more is taken. *)
LEMMA HoldsOneMore ==
  ASSUME NEW q, NEW u \in Nat, NEW n \in Nat, u <= n
  PROVE  Holding(q, u, n + 1) = Holding(q, u, n) \cup {n}
<1>1. u .. (n + 1) - 1 = (u .. n - 1) \cup {n}
  OBVIOUS
<1>2. QED
  BY <1>1 DEF Holding

(* What Put becomes when an output is appended. *)
LEMMA PutGrows ==
  ASSUME made \in Seq(Made), NEW m \in Made, made' = Append(made, m)
  PROVE  Put' = Append(Put, m.frame) /\ made' # made
<1>1. Len(made') = Len(made) + 1 /\ Len(made) \in Nat /\ made' \in Seq(Made)
  OBVIOUS
<1>2. \A i \in 1 .. Len(made) : made[i].frame \in Nat
  BY MadeAt
<1>3. Put \in Seq(Nat) /\ Len(Put) = Len(made) /\ m.frame \in Nat
  BY <1>1, <1>2 DEF Put, Made
<1>4. \A i \in 1 .. Len(made) + 1 : Put'[i] = Append(Put, m.frame)[i]
  <2> SUFFICES ASSUME NEW i \in 1 .. Len(made) + 1 PROVE Put'[i] = Append(Put, m.frame)[i]
    OBVIOUS
  <2>1. Put'[i] = made'[i].frame
    BY <1>1 DEF Put
  <2>2. QED
    BY <1>1, <1>3, <2>1 DEF Put
<1>5. Put' = Append(Put, m.frame)
  BY <1>1, <1>3, <1>4 DEF Put
<1>6. QED
  BY <1>1, <1>5

(* The oldest of the frames q goes out. *)
LEMMA OldestReleased ==
  ASSUME made \in Seq(Made), NEW q \in Seq(Entry), q # << >>, NEW u \in Nat, NEW n \in Nat,
         Sorted(q, u), NEW G, G = Holding(q, u, n),
         cache' \in [0 .. CacheSize - 1 -> Int], workspace' \in Int,
         pending' = Tail(q), NextFrame' = u, inputCount' = n,
         made' = Append(made, Output(Head(q)))
  PROVE  AsPass!Release(G) /\ Sorted(pending, NextFrame)' /\ made' # made
<1>1. Head(q) \in Entry
  OBVIOUS
<1>2. Output(Head(q)) \in Made /\ Output(Head(q)).frame = Head(q).frame
  BY <1>1, OutputType
<1>3. Put' = Append(Put, Head(q).frame) /\ made' # made
  BY <1>2, PutGrows
<1>4. /\ Head(q).frame \in G /\ AsPass!Oldest(G) = Head(q).frame
      /\ Holding(Tail(q), u, n) = G \ {Head(q).frame}
      /\ Sorted(Tail(q), u)
  BY OldestLeaves
<1>5. Held' = Holding(pending', NextFrame', inputCount')
  BY HeldIs
<1>6. Sorted(pending, NextFrame)' = Sorted(Tail(q), u)
  BY DEF Sorted
<1>7. QED
  BY <1>3, <1>4, <1>5, <1>6 DEF AsPass!Release

(* A frame is worked on: the oldest goes out, or all are kept. *)
LEMMA RunResolvedPasses ==
  ASSUME DegrainInv, PassInv, UNCHANGED setting, inputCount' \in Nat,
         NextFrame < inputCount', NextFrame' = NextFrame + 1,
         cache' \in [0 .. CacheSize - 1 -> -1 .. MaxIn - 1],
         NEW G, G = Holding(pending, NextFrame, inputCount'),
         RunResolved(NextFrame)
  PROVE  /\ Sorted(pending, NextFrame)'
         /\ \/ /\ AsPass!Release(G) /\ made' # made
               /\ Len(pending') = Len(pending) /\ Len(pending) = PipelineDepth
            \/ /\ Held' = G /\ UNCHANGED made
               /\ Len(pending') = Len(pending) + 1 /\ Len(pending) < PipelineDepth
<1> DEFINE e == [frame |-> NextFrame, known |-> inputCount']
           q == Append(pending, e)
<1>1. /\ TypeOK /\ NextFrame \in Nat /\ pending \in Seq(Entry) /\ made \in Seq(Made)
      /\ Len(pending) <= PipelineDepth /\ PipelineDepth \in Nat /\ Len(pending) \in Nat
      /\ workspace \in Int
  <2>1. TypeOK
    BY DEF DegrainInv
  <2>2. QED
    BY <2>1, Delays, DrainCounts DEF TypeOK
<1>2. PICK u \in Nat : u = NextFrame
  BY <1>1
<1>3. PICK n \in Nat : n = inputCount'
  OBVIOUS
<1>4. /\ q \in Seq(Entry) /\ q # << >> /\ Len(q) = Len(pending) + 1
      /\ Sorted(q, u + 1) /\ Holding(q, u + 1, n) = G
  <2>1. Sorted(pending, u) /\ u < n
    BY <1>2, <1>3 DEF PassInv
  <2>2. G = Holding(pending, u, n)
    BY <1>2, <1>3
  <2>3. q = Append(pending, [frame |-> u, known |-> n])
    BY <1>2, <1>3
  <2> HIDE DEF q
  <2>4. QED
    BY <1>1, <2>1, <2>2, <2>3, WaitsWithThem
<1>5. /\ workspace' = IF shared THEN NextFrame ELSE workspace
      /\ IF Full(q)
         THEN pending' = Tail(q) /\ made' = Append(made, Output(Head(q)))
         ELSE pending' = q /\ UNCHANGED made
  BY DEF RunResolved
<1> HIDE DEF q
<1>6. Full(q) <=> Len(pending) = PipelineDepth
  BY <1>1, <1>4 DEF Full
<1>7. CASE Full(q)
  <2>1. pending' = Tail(q) /\ made' = Append(made, Output(Head(q))) /\ workspace' \in Int
    BY <1>1, <1>5, <1>7
  <2>2. cache' \in [0 .. CacheSize - 1 -> Int]
    BY SizeAssumption
  <2>3. u + 1 \in Nat /\ NextFrame' = u + 1
    BY <1>2
  <2>4. AsPass!Release(G) /\ Sorted(pending, NextFrame)' /\ made' # made
    BY <1>1, <1>3, <1>4, <2>1, <2>2, <2>3, OldestReleased
  <2>5. Len(pending') = Len(pending)
    BY <1>1, <1>4, <2>1
  <2>6. QED
    BY <1>6, <1>7, <2>4, <2>5
<1>8. CASE ~ Full(q)
  <2>1. pending' = q /\ UNCHANGED made
    BY <1>5, <1>8
  <2>2. NextFrame' = u + 1 /\ inputCount' = n
    BY <1>2, <1>3
  <2>3. Held' = G
    BY <1>4, <2>1, <2>2, HeldIs
  <2>4. Sorted(pending, NextFrame)'
    BY <1>4, <2>1, <2>2 DEF Sorted
  <2>5. QED
    BY <1>1, <1>4, <1>6, <1>8, <2>1, <2>3, <2>4
<1>9. QED
  BY <1>7, <1>8

(* It fails: the frame is lost, and possibly the oldest that waited. *)
LEMMA ResolvedFailsPasses ==
  ASSUME DegrainInv, PassInv, UNCHANGED setting, inputCount' \in Nat,
         NextFrame < inputCount', NextFrame' = NextFrame + 1, ResolvedFails(NextFrame)
  PROVE  /\ Sorted(pending, NextFrame)' /\ UNCHANGED Put
         /\ Held' \subseteq Holding(pending, NextFrame, inputCount')
<1>1. NextFrame \in Nat /\ pending \in Seq(Entry)
  <2>1. TypeOK
    BY DEF DegrainInv
  <2>2. QED
    BY <2>1, DrainCounts DEF TypeOK
<1>2. PICK u \in Nat : u = NextFrame
  BY <1>1
<1>3. PICK n \in Nat : n = inputCount'
  OBVIOUS
<1>4. Sorted(pending, u)
  BY <1>2 DEF PassInv
<1>5. \A q \in Seq(Entry) : Sorted(q, u) => Sorted(q, u + 1)
  <2> SUFFICES ASSUME NEW q \in Seq(Entry), Sorted(q, u) PROVE Sorted(q, u + 1)
    OBVIOUS
  <2>1. \A i \in 1 .. Len(q) : q[i].frame \in Nat
    BY EntryAt
  <2>2. QED
    BY <2>1 DEF Sorted
<1>6. \A q : Holding(q, u + 1, n) \subseteq Holding(q, u, n)
  BY DEF Holding
<1>7. UNCHANGED Put
  BY DEF ResolvedFails, Put
<1>8. pending' = pending \/ (pending # << >> /\ pending' = Tail(pending))
  BY DEF ResolvedFails
<1>9. Held' = Holding(pending', u + 1, n)
  BY <1>2, <1>3, HeldIs
<1>10. Sorted(pending, NextFrame)' <=> Sorted(pending', u + 1)
  BY <1>2 DEF Sorted
<1>11. CASE pending' = pending
  BY <1>1, <1>2, <1>3, <1>4, <1>5, <1>6, <1>7, <1>9, <1>10, <1>11
<1>12. CASE pending # << >> /\ pending' = Tail(pending)
  <2>1. /\ Holding(Tail(pending), u, n) \subseteq Holding(pending, u, n)
        /\ Sorted(Tail(pending), u)
    BY <1>1, <1>4, <1>12, OldestLeaves
  <2>2. Tail(pending) \in Seq(Entry)
    BY <1>1, <1>12
  <2>3. Sorted(Tail(pending), u + 1)
    BY <1>5, <2>1, <2>2
  <2>4. Held' \subseteq Holding(pending, u, n)
    BY <1>6, <1>9, <1>12, <2>1
  <2>5. QED
    BY <1>2, <1>3, <1>7, <1>10, <1>12, <2>3, <2>4
<1>13. QED
  BY <1>8, <1>11, <1>12

LEMMA PassInit == Init => PassInv
<1> SUFFICES ASSUME Init PROVE PassInv
  OBVIOUS
<1>1. pending = << >> /\ made = << >>
  BY DEF Init
<1>2. QED
  BY <1>1 DEF PassInv, Sorted, Primed

(* With a frame, what the stage has is what it had and that frame.         *)
LEMMA FramePasses ==
  ASSUME DegrainInv, DegrainInv', PassInv, RunFrame \/ FrameFails
  PROVE  PassInv' /\ AsPass!Next
<1>1. /\ ~ asked /\ UNCHANGED << setting, asked, ended >> /\ inputCount < MaxIn
      /\ inputCount' = inputCount + 1 /\ drainCount' = 0
      /\ cache' = [cache EXCEPT ![Slot(inputCount)] = inputCount]
  BY DEF RunFrame, FrameFails
<1>2. UNCHANGED OutputDelay
  BY <1>1, SettingsStay
<1>3. /\ TypeOK /\ inputCount \in Nat /\ NextFrame \in Nat /\ NextFrame <= inputCount
      /\ fails \in Nat /\ OutputDelay \in Nat
  <2>1. TypeOK
    BY DEF DegrainInv
  <2>2. QED
    BY <2>1, Delays, DrainCounts DEF TypeOK
<1>4. /\ cache' \in [0 .. CacheSize - 1 -> -1 .. MaxIn - 1]
      /\ inputCount' < OutputDelay + 1 => NextFrame = 0 /\ NextFrame' = 0
      /\ inputCount' >= OutputDelay + 1 =>
           /\ NextFrame = inputCount' - OutputDelay - 1
           /\ NextFrame' = NextFrame + 1
  BY <1>1, FrameTaken
<1>5. PICK G : G = Held \cup {inputCount}
  OBVIOUS
<1>6. G = Holding(pending, NextFrame, inputCount')
  BY <1>1, <1>3, <1>5, HeldIs, HoldsOneMore
<1>7. Primed'
  BY <1>1 DEF DegrainInv, Counted, Primed
<1>8. Sorted(pending, NextFrame)
  BY DEF PassInv
<1>9. CASE inputCount' < OutputDelay + 1
  <2>1. UNCHANGED << pending, workspace, made >>
    BY <1>9 DEF RunFrame, FrameFails
  <2>2. NextFrame' = NextFrame
    BY <1>4, <1>9
  <2>3. Sorted(pending, NextFrame)'
    BY <1>8, <2>1, <2>2 DEF Sorted
  <2>4. Held' = G /\ UNCHANGED Put
    BY <1>6, <2>1, <2>2, HeldIs DEF Put
  <2>5. CASE RunFrame
    <3>1. UNCHANGED (fails > 0)
      BY <2>5 DEF RunFrame
    <3>2. AsPass!Feed
      BY <1>1, <1>5, <2>4, <3>1 DEF AsPass!Feed, AsPass!Retain
    <3>3. QED
      BY <1>7, <2>3, <3>2 DEF PassInv, AsPass!Next
  <2>6. CASE FrameFails
    <3>1. (fails > 0)' = TRUE
      BY <1>3, <2>6 DEF FrameFails
    <3>2. inputCount .. inputCount' - 1 = {inputCount}
      BY <1>1, <1>3
    <3>3. AsPass!Fail
      BY <1>1, <1>5, <2>4, <3>1, <3>2 DEF AsPass!Fail
    <3>4. QED
      BY <1>7, <2>3, <3>3 DEF PassInv, AsPass!Next
  <2>7. QED
    BY <2>5, <2>6
<1>10. CASE inputCount' >= OutputDelay + 1
  <2>1. ~ (inputCount' < OutputDelay + 1)
    BY <1>1, <1>3, <1>10
  <2>2. NextFrame < inputCount' /\ NextFrame' = NextFrame + 1 /\ inputCount' \in Nat
    BY <1>1, <1>3, <1>4, <1>10
  <2>3. NextFrame = inputCount' - OutputDelay - 1
    BY <1>4, <1>10
  <2>4. CASE RunFrame
    <3>1. RunResolved(NextFrame) /\ UNCHANGED (fails > 0)
      BY <2>1, <2>3, <2>4 DEF RunFrame
    <3>2. /\ Sorted(pending, NextFrame)'
          /\ AsPass!Release(G) \/ (Held' = G /\ UNCHANGED made)
      BY <1>1, <1>4, <1>6, <2>2, <3>1, RunResolvedPasses
    <3>3. AsPass!Release(G) \/ AsPass!Retain(G)
      BY <3>2 DEF AsPass!Retain, Put
    <3>4. AsPass!Feed
      BY <1>1, <1>5, <3>1, <3>3 DEF AsPass!Feed
    <3>5. QED
      BY <1>7, <3>2, <3>4 DEF PassInv, AsPass!Next
  <2>5. CASE FrameFails
    <3>1. ResolvedFails(NextFrame) /\ (fails > 0)' = TRUE
      BY <1>3, <2>1, <2>3, <2>5 DEF FrameFails
    <3>2. Sorted(pending, NextFrame)' /\ UNCHANGED Put /\ Held' \subseteq G
      BY <1>1, <1>6, <2>2, <3>1, ResolvedFailsPasses
    <3>3. inputCount .. inputCount' - 1 = {inputCount}
      BY <1>1, <1>3
    <3>4. AsPass!Fail
      BY <1>1, <1>5, <3>1, <3>2, <3>3 DEF AsPass!Fail
    <3>5. QED
      BY <1>7, <3>2, <3>4 DEF PassInv, AsPass!Next
  <2>6. QED
    BY <2>4, <2>5
<1>11. QED
  BY <1>1, <1>3, <1>9, <1>10

(* A drain call puts the oldest frame out, or has nothing, or is made of a *)
(* stream that is too short.                                               *)
LEMMA DrainPasses ==
  ASSUME DegrainInv, PassInv, RunDrain
  PROVE  PassInv' /\ AsPass!Next
<1>1. /\ asked /\ ~ ended /\ ended' = (made' = made)
      /\ UNCHANGED << setting, asked, fails, inputCount, cache >>
      /\ DrainFrame \/ DrainPending \/ DrainNothing
  BY DEF RunDrain, DrainFrame, DrainPending, DrainNothing
<1>2. /\ TypeOK /\ inputCount \in Nat /\ NextFrame \in Nat /\ NextFrame <= inputCount
      /\ drainCount \in 0 .. DrainFrameCount /\ DrainFrameCount \in Nat
      /\ FirstToDrain + DrainFrameCount = inputCount /\ FirstToDrain \in Nat
      /\ pending \in Seq(Entry) /\ made \in Seq(Made) /\ Len(pending) \in Nat
      /\ cache \in [0 .. CacheSize - 1 -> -1 .. MaxIn - 1] /\ workspace \in Int
      /\ PipelineDepth \in Nat /\ ended \in BOOLEAN /\ asked \in BOOLEAN
  <2>1. TypeOK
    BY DEF DegrainInv
  <2>2. QED
    BY <2>1, Delays, DrainCounts DEF TypeOK
<1>3. UNCHANGED << PipelineDepth, DrainFrameCount, FirstToDrain >>
  BY <1>1, SettingsStay DEF DrainFrameCount, FirstToDrain
<1>4. Held = Holding(pending, NextFrame, inputCount) /\ Sorted(pending, NextFrame)
  BY HeldIs DEF PassInv
<1>5. UNCHANGED (fails > 0)
  BY <1>1
<1>6. CASE DrainFrame
  <2>1. /\ drainCount < DrainFrameCount /\ drainCount' = drainCount + 1
        /\ RunResolved(NextFrame)
    BY <1>6 DEF DrainFrame, NextFrame
  <2>2. NextFrame < inputCount' /\ NextFrame' = NextFrame + 1
    BY <1>1, <1>2, <1>3, <2>1 DEF NextFrame
  <2>3. /\ Sorted(pending, NextFrame)'
        /\ \/ /\ AsPass!Release(Held) /\ made' # made
              /\ Len(pending') = Len(pending) /\ Len(pending) = PipelineDepth
           \/ /\ Held' = Held /\ UNCHANGED made
              /\ Len(pending') = Len(pending) + 1 /\ Len(pending) < PipelineDepth
    BY <1>1, <1>2, <1>4, <2>1, <2>2, RunResolvedPasses
  <2>4. CASE /\ AsPass!Release(Held) /\ made' # made
             /\ Len(pending') = Len(pending) /\ Len(pending) = PipelineDepth
    <3>1. Primed'
      BY <1>3, <2>4 DEF Primed
    <3>2. ended' = ended
      BY <1>1, <1>2, <2>4
    <3>3. AsPass!Drain
      BY <1>1, <1>5, <2>4, <3>2 DEF AsPass!Drain
    <3>4. QED
      BY <2>3, <3>1, <3>3 DEF PassInv, AsPass!Next
  <2>5. CASE /\ Held' = Held /\ UNCHANGED made
             /\ Len(pending') = Len(pending) + 1 /\ Len(pending) < PipelineDepth
    <3>1. fails = 0 => made = << >>
      <4>1. Len(pending) # PipelineDepth /\ drainCount # DrainFrameCount
        BY <1>2, <2>1, <2>5
      <4>2. QED
        BY <4>1 DEF PassInv, Primed
    <3>2. Primed'
      BY <1>1, <2>5, <3>1 DEF Primed
    <3>3. made = << >> => Put = << >>
      BY DEF Put
    <3>4. (fails > 0) \/ Put = << >>
      BY <1>2, <3>1, <3>3 DEF TypeOK
    <3>5. ended' = TRUE /\ UNCHANGED Put
      BY <1>1, <2>5 DEF Put
    <3>6. AsPass!DrainEnds
      BY <1>1, <1>5, <2>5, <3>4, <3>5 DEF AsPass!DrainEnds
    <3>7. QED
      BY <2>3, <3>2, <3>6 DEF PassInv, AsPass!Next
  <2>6. QED
    BY <2>3, <2>4, <2>5
<1>7. CASE DrainPending
  <2>1. /\ drainCount = DrainFrameCount /\ pending # << >> /\ UNCHANGED << drainCount, workspace >>
        /\ pending' = Tail(pending) /\ made' = Append(made, Output(Head(pending)))
    BY <1>2, <1>7 DEF DrainPending
  <2>2. NextFrame' = NextFrame
    BY <1>3, <2>1 DEF NextFrame
  <2>3. cache' \in [0 .. CacheSize - 1 -> Int] /\ workspace' \in Int
    BY <1>1, <1>2, <2>1, SizeAssumption
  <2>4. AsPass!Release(Held) /\ Sorted(pending, NextFrame)' /\ made' # made
    BY <1>1, <1>2, <1>4, <2>1, <2>2, <2>3, OldestReleased
  <2>5. Primed'
    BY <1>1, <1>3, <2>1 DEF Primed
  <2>6. ended' = ended
    BY <1>1, <1>2, <2>4
  <2>7. AsPass!Drain
    BY <1>1, <1>5, <2>4, <2>6 DEF AsPass!Drain
  <2>8. QED
    BY <2>4, <2>5, <2>7 DEF PassInv, AsPass!Next
<1>8. CASE DrainNothing
  <2>1. /\ drainCount = DrainFrameCount /\ pending = << >>
        /\ UNCHANGED << drainCount, pending, made >>
    BY <1>2, <1>8 DEF DrainNothing
  <2>2. NextFrame' = NextFrame /\ NextFrame = inputCount
    BY <1>2, <1>3, <2>1 DEF NextFrame
  <2>3. PassInv'
    BY <1>1, <1>3, <2>1, <2>2 DEF PassInv, Sorted, Primed
  <2>4. Held = {} /\ Held' = {}
    <3>1. inputCount .. inputCount - 1 = {}
      BY <1>2
    <3>2. Holding(<< >>, inputCount, inputCount) = {}
      BY <3>1 DEF Holding
    <3>3. QED
      BY <1>1, <2>1, <2>2, <3>2, HeldIs
  <2>5. ended' = TRUE /\ UNCHANGED Put
    BY <1>1, <2>1 DEF Put
  <2>6. AsPass!DrainEnds
    BY <1>1, <1>5, <2>4, <2>5 DEF AsPass!DrainEnds
  <2>7. QED
    BY <2>3, <2>6 DEF AsPass!Next
<1>9. QED
  BY <1>1, <1>6, <1>7, <1>8

(* A call that takes no frame and works on none. *)
LEMMA NothingMoves ==
  ASSUME DegrainInv, UNCHANGED << setting, inputCount, drainCount, pending, made >>
  PROVE  /\ UNCHANGED << Held, Put, NextFrame, PipelineDepth, DrainFrameCount >>
         /\ Sorted(pending, NextFrame)' = Sorted(pending, NextFrame)
<1>1. UNCHANGED << OutputDelay, PipelineDepth >>
  BY SettingsStay
<1>2. UNCHANGED << DrainFrameCount, FirstToDrain >>
  BY <1>1 DEF DrainFrameCount, FirstToDrain
<1>3. QED
  BY <1>1, <1>2 DEF Held, Put, NextFrame, Sorted

LEMMA PushFailsPasses ==
  ASSUME DegrainInv, PassInv, PushFails
  PROVE  PassInv' /\ AsPass!Next
<1>1. /\ fails' = fails + 1 /\ fails \in Nat /\ drainCount = 0
      /\ UNCHANGED << setting, inputCount, drainCount, pending, made, asked, ended >>
  BY DEF PushFails, DegrainInv, TypeOK, Feeding
<1>2. UNCHANGED << Held, Put >> /\ Sorted(pending, NextFrame)'
  BY <1>1, NothingMoves DEF PassInv
<1>3. (fails > 0)' = TRUE /\ Primed'
  BY <1>1 DEF Primed
<1>4. AsPass!Fail
  BY <1>1, <1>2, <1>3 DEF AsPass!Fail
<1>5. QED
  BY <1>2, <1>3, <1>4 DEF PassInv, AsPass!Next

LEMMA AskPasses ==
  ASSUME DegrainInv, PassInv, Ask
  PROVE  PassInv' /\ AsPass!Next
<1>1. /\ ~ asked \/ fails > 0
      /\ asked' = TRUE /\ ended' = FALSE /\ UNCHANGED fails
      /\ UNCHANGED << setting, inputCount, drainCount, pending, made >>
  BY DEF Ask
<1>2. /\ UNCHANGED << Held, Put, PipelineDepth, DrainFrameCount >>
      /\ Sorted(pending, NextFrame)'
  BY <1>1, NothingMoves DEF PassInv
<1>3. Primed'
  BY <1>1, <1>2 DEF PassInv, Primed
<1>4. AsPass!Ask
  BY <1>1, <1>2 DEF AsPass!Ask
<1>5. QED
  BY <1>2, <1>3, <1>4 DEF PassInv, AsPass!Next

LEMMA DrainFailsPasses ==
  ASSUME DegrainInv, PassInv, DrainFails
  PROVE  PassInv' /\ AsPass!Next
<1>1. /\ asked /\ ~ ended /\ fails' = fails + 1
      /\ UNCHANGED << setting, inputCount, cache, asked, ended, made >>
  BY DEF DrainFails, ResolvedFails
<1>2. /\ inputCount \in Nat /\ NextFrame \in Nat /\ pending \in Seq(Entry) /\ fails \in Nat
      /\ drainCount \in 0 .. DrainFrameCount /\ DrainFrameCount \in Nat
      /\ FirstToDrain + DrainFrameCount = inputCount /\ FirstToDrain \in Nat
  <2>1. TypeOK
    BY DEF DegrainInv
  <2>2. QED
    BY <2>1, DrainCounts DEF TypeOK
<1>3. UNCHANGED << DrainFrameCount, FirstToDrain >>
  BY <1>1, SettingsStay DEF DrainFrameCount, FirstToDrain
<1>4. (fails > 0)' = TRUE /\ Primed'
  BY <1>1, <1>2 DEF Primed
<1>5. Held = Holding(pending, NextFrame, inputCount) /\ Sorted(pending, NextFrame)
  BY HeldIs DEF PassInv
<1>6. Sorted(pending, NextFrame)' /\ UNCHANGED Put /\ Held' \subseteq Held
  <2>1. CASE /\ drainCount < DrainFrameCount
             /\ drainCount' = drainCount + 1 /\ ResolvedFails(FirstToDrain + drainCount)
    <3>1. ResolvedFails(NextFrame)
      BY <2>1 DEF NextFrame
    <3>2. NextFrame < inputCount' /\ NextFrame' = NextFrame + 1
      BY <1>1, <1>2, <1>3, <2>1 DEF NextFrame
    <3>3. QED
      BY <1>1, <1>2, <1>5, <3>1, <3>2, ResolvedFailsPasses
  <2>2. CASE UNCHANGED << drainCount, pending >>
    BY <1>1, <1>5, <2>2, NothingMoves
  <2>3. CASE pending # << >> /\ pending' = Tail(pending) /\ UNCHANGED drainCount
    <3>1. NextFrame' = NextFrame /\ UNCHANGED Put
      BY <1>1, <1>3, <2>3 DEF NextFrame, Put
    <3>2. Held' = Holding(Tail(pending), NextFrame, inputCount)
      BY <1>1, <2>3, <3>1, HeldIs
    <3>3. PICK u \in Nat, n \in Nat : u = NextFrame /\ n = inputCount
      BY <1>2
    <3>4. /\ Holding(Tail(pending), u, n) \subseteq Holding(pending, u, n)
          /\ Sorted(Tail(pending), u)
      BY <1>2, <1>5, <2>3, <3>3, OldestLeaves
    <3>5. Sorted(pending, NextFrame)' <=> Sorted(Tail(pending), u)
      BY <2>3, <3>1, <3>3 DEF Sorted
    <3>6. QED
      BY <1>5, <3>1, <3>2, <3>3, <3>4, <3>5
  <2>4. QED
    BY <2>1, <2>2, <2>3 DEF DrainFails
<1>7. AsPass!Fail
  BY <1>1, <1>4, <1>6 DEF AsPass!Fail
<1>8. QED
  BY <1>4, <1>6, <1>7 DEF PassInv, AsPass!Next

(* What a stage does is what a pass does: the safety half of               *)
(* ImplementsPass.                                                         *)
StepsOfPass == AsPass!Init /\ [][AsPass!Next]_(AsPass!vars)

(* Every step of a stage is a step of the pass RtgmDif takes it to be, or  *)
(* leaves that one as it is: frames leave once and in order, through any   *)
(* failures, and only a call that fails loses one                          *)
(* (NVEncFilterDegrain::run_filter).                                       *)
THEOREM StepsCorrect == Spec => StepsOfPass
<1>1. Init => AsPass!Init
  <2> SUFFICES ASSUME Init PROVE AsPass!Init
    OBVIOUS
  <2>1. inputCount = 0 /\ drainCount = 0 /\ pending = << >> /\ made = << >> /\ fails = 0
        /\ asked = FALSE /\ ended = FALSE
    BY DEF Init
  <2>2. NextFrame = 0
    <3>1. OutputDelay \in Nat
      BY DeltaAssumption DEF OutputDelay
    <3>2. DrainFrameCount = 0
      BY <2>1, <3>1 DEF DrainFrameCount
    <3>3. QED
      BY <2>1, <3>2 DEF NextFrame, FirstToDrain
  <2>3. Held = {}
    BY <2>1, <2>2, HeldIs DEF Holding
  <2>4. Put = << >>
    BY <2>1 DEF Put
  <2>5. QED
    BY <2>1, <2>3, <2>4 DEF AsPass!Init
<1>2. DegrainInv /\ DegrainInv' /\ PassInv /\ [Next]_vars
        => PassInv' /\ [AsPass!Next]_(AsPass!vars)
  <2> SUFFICES ASSUME DegrainInv, DegrainInv', PassInv, [Next]_vars
               PROVE  PassInv' /\ [AsPass!Next]_(AsPass!vars)
    OBVIOUS
  <2>1. CASE UNCHANGED vars
    <3>1. UNCHANGED << Held, Put, NextFrame, PipelineDepth, DrainFrameCount >>
          /\ Sorted(pending, NextFrame)' = Sorted(pending, NextFrame)
      BY <2>1, NothingMoves DEF vars
    <3>2. PassInv'
      BY <2>1, <3>1 DEF vars, PassInv, Primed
    <3>3. UNCHANGED AsPass!vars
      BY <2>1, <3>1 DEF vars, AsPass!vars
    <3>4. QED
      BY <3>2, <3>3
  <2>2. CASE Next
    BY <2>2, FramePasses, PushFailsPasses, AskPasses, DrainPasses, DrainFailsPasses DEF Next
  <2>3. QED
    BY <2>1, <2>2
<1>3. QED
  BY <1>1, <1>2, PassInit, DegrainInvariant, PTL DEF Spec, StepsOfPass
=============================================================================
