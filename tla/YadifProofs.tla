---------------------------- MODULE YadifProofs ----------------------------
(***************************************************************************)
(* Proofs about Yadif: no frame is passed over, whatever fails; with a     *)
(* ring of four frames or more, every output is made from the right frames *)
(* as long as no copy and one other call at most has failed; and every     *)
(* step is one of the cheap deinterlacer the split takes it to be.         *)
(***************************************************************************)
EXTENDS Yadif, RingArithmetic

(* What outputs may be. *)
Outs == [frame : Nat, prev : Int, cur : Int, next : Int]

(* What the ring may hold. *)
Rings == [0 .. Size - 1 -> -1 .. MaxIn - 1]

(* Before the drain a frame that has come is never out yet. *)
OneBehind == ~ asked /\ nFramesInput >= 1 => nFrame < nFramesInput

CountInv == TypeOK /\ NoFramePassedOver /\ OneBehind

-----------------------------------------------------------------------------
(* The count of the frames put out                                         *)

(* An output's frame is a number. *)
LEMMA OutFrame ==
  ASSUME NEW s \in Seq(Outs), NEW i \in 1 .. Len(s)
  PROVE  s[i].frame \in Nat
<1>1. s[i] \in Outs
  OBVIOUS
<1>2. QED
  BY <1>1 DEF Outs

(* get() finds its frame in the ring as soon as there is one. *)
LEMMA SourceIsInt ==
  ASSUME NEW n \in Int, NEW count \in Nat, count >= 1, NEW ring \in Rings
  PROVE  Source(n, count, ring) \in Int
<1>1. Clamped(n, count) \in Nat
  BY DEF Clamped
<1>2. Clamped(n, count) % Size \in 0 .. Size - 1
  BY <1>1, SizeAssumption
<1>3. ring[Clamped(n, count) % Size] \in -1 .. MaxIn - 1
  BY <1>2 DEF Rings
<1>4. QED
  BY <1>3, SizeAssumption DEF Source

(* What a ring of input frames gives is an output. *)
LEMMA MadeFromIsOut ==
  ASSUME NEW n \in Nat, NEW count \in Nat, count >= 1, NEW ring \in Rings
  PROVE  MadeFrom(n, count, ring) \in Outs /\ MadeFrom(n, count, ring).frame = n
<1>1. n - 1 \in Int /\ n \in Int /\ n + 1 \in Int
  OBVIOUS
<1>2. QED
  BY <1>1, SourceIsInt DEF MadeFrom, Outs

(* What the outputs and Put become when an output is appended. *)
LEMMA OutputAppended ==
  ASSUME made \in Seq(Outs), NEW m \in Outs, made' = Append(made, m)
  PROVE  /\ made' \in Seq(Outs)
         /\ Len(made') = Len(made) + 1
         /\ \A i \in 1 .. Len(made) : made'[i] = made[i]
         /\ made'[Len(made) + 1] = m
         /\ Put' = Append(Put, m.frame)
<1>1. /\ Len(made') = Len(made) + 1 /\ Len(made) \in Nat /\ made' \in Seq(Outs)
      /\ \A i \in 1 .. Len(made) : made'[i] = made[i]
      /\ made'[Len(made) + 1] = m
  OBVIOUS
<1>2. Put \in Seq(Nat) /\ Len(Put) = Len(made) /\ m.frame \in Nat
  BY <1>1, OutFrame DEF Put, Outs
<1>3. \A i \in 1 .. Len(made) + 1 : Put'[i] = Append(Put, m.frame)[i]
  <2> SUFFICES ASSUME NEW i \in 1 .. Len(made) + 1 PROVE Put'[i] = Append(Put, m.frame)[i]
    OBVIOUS
  <2>1. Put'[i] = made'[i].frame
    BY <1>1 DEF Put
  <2>2. QED
    BY <1>1, <1>2, <2>1 DEF Put
<1>4. Put' = Append(Put, m.frame)
  BY <1>1, <1>2, <1>3 DEF Put
<1>5. QED
  BY <1>1, <1>4

(* What a step that puts out the next frame does to the outputs. *)
LEMMA FramePutOut ==
  ASSUME CountInv, NEW count \in Nat, count >= 1, NEW ring \in Rings,
         made' = Append(made, MadeFrom(nFrame, count, ring)), nFrame' = nFrame + 1
  PROVE  made' \in Seq(Outs) /\ NoFramePassedOver' /\ Put' = Append(Put, nFrame)
<1>1. nFrame \in Nat /\ made \in Seq(Outs) /\ Len(made) = nFrame
      /\ \A i \in 1 .. Len(made) : made[i].frame = i - 1
  BY SizeAssumption DEF CountInv, TypeOK, NoFramePassedOver, Outs
<1> DEFINE m == MadeFrom(nFrame, count, ring)
<1>2. m \in Outs /\ m.frame = nFrame
  BY <1>1, MadeFromIsOut
<1> HIDE DEF m
<1>3. made' = Append(made, m)
  BY DEF m
<1>4. /\ made' \in Seq(Outs)
      /\ Len(made') = Len(made) + 1
      /\ \A i \in 1 .. Len(made) : made'[i] = made[i]
      /\ made'[Len(made) + 1] = m
      /\ Put' = Append(Put, m.frame)
  BY <1>1, <1>2, <1>3, OutputAppended
<1>5. ASSUME NEW i \in 1 .. nFrame + 1 PROVE made'[i].frame = i - 1
  <2>1. CASE i = nFrame + 1
    BY <1>1, <1>2, <1>4, <2>1
  <2>2. CASE i # nFrame + 1
    <3>1. i \in 1 .. Len(made)
      BY <1>1, <2>2
    <3>2. QED
      BY <1>1, <1>4, <3>1
  <2>3. QED
    BY <2>1, <2>2
<1>6. Len(made') = nFrame'
  BY <1>1, <1>4
<1>7. NoFramePassedOver'
  BY <1>1, <1>5, <1>6 DEF NoFramePassedOver
<1>8. QED
  BY <1>2, <1>4, <1>7

(* The ring that has taken frame n, or has not. *)
LEMMA RingWritten ==
  ASSUME NEW ring \in Rings, NEW n \in Nat, n < MaxIn, NEW content \in -1 .. MaxIn - 1
  PROVE  [ring EXCEPT ![n % Size] = content] \in Rings
BY DEF Rings

(* Types, and no frame is passed over: an invariant. *)
THEOREM CountInvariant == Spec => []CountInv
<1>0. Size \in Nat \ {0} /\ MaxIn \in Nat /\ MaxFails \in Nat
  BY SizeAssumption
<1>1. Init => CountInv
  <2> SUFFICES ASSUME Init PROVE CountInv
    OBVIOUS
  <2>1. made = << >> /\ made \in Seq(Outs) /\ Len(made) = 0
    BY DEF Init
  <2>2. buf \in Rings
    BY <1>0 DEF Init, Rings
  <2>3. 0 \in 0 .. MaxIn /\ 0 \in 0 .. MaxFails /\ 0 \in 0 .. 0
    BY <1>0
  <2>4. TypeOK
    BY <2>1, <2>2, <2>3 DEF Init, TypeOK, Outs, Rings
  <2>5. QED
    BY <2>1, <2>4 DEF Init, CountInv, NoFramePassedOver, OneBehind
<1>2. CountInv /\ [Next]_vars => CountInv'
  <2> SUFFICES ASSUME CountInv, [Next]_vars PROVE CountInv'
    OBVIOUS
  <2>0. /\ nFramesInput \in Nat /\ nFramesInput <= MaxIn
        /\ nFrame \in Nat /\ nFrame <= nFramesInput
        /\ buf \in Rings /\ made \in Seq(Outs)
        /\ asked \in BOOLEAN /\ copyFailed \in BOOLEAN
        /\ fails \in 0 .. MaxFails
        /\ NoFramePassedOver /\ OneBehind
    BY <1>0 DEF CountInv, TypeOK, Outs, Rings
  <2>s. ASSUME nFramesInput' \in Nat, nFramesInput' <= MaxIn,
               nFrame' \in Nat, nFrame' <= nFramesInput',
               buf' \in Rings, made' \in Seq(Outs),
               asked' \in BOOLEAN, copyFailed' \in BOOLEAN, fails' \in 0 .. MaxFails
        PROVE  TypeOK'
    BY <1>0, <2>s DEF TypeOK, Outs, Rings
  <2>k. nFramesInput < MaxIn => nFramesInput \in -1 .. MaxIn - 1
    BY <1>0, <2>0
  <2>1. CASE RunFrame
    <3>1. /\ ~ asked /\ UNCHANGED << asked, copyFailed, fails >>
          /\ nFramesInput < MaxIn /\ nFramesInput' = nFramesInput + 1
          /\ buf' = [buf EXCEPT ![nFramesInput % Size] = nFramesInput]
      BY <2>1 DEF RunFrame
    <3>2. buf' \in Rings
      BY <2>0, <2>k, <3>1, RingWritten
    <3>3. CASE nFramesInput >= 1
      <4>1. PICK count \in Nat : count = nFramesInput + 1
        BY <2>0
      <4>2. /\ made' = Append(made, MadeFrom(nFrame, count, buf'))
            /\ nFrame' = nFrame + 1
        BY <2>1, <3>1, <3>3, <4>1 DEF RunFrame, Ready
      <4>3. made' \in Seq(Outs) /\ NoFramePassedOver'
        BY <2>0, <3>2, <4>1, <4>2, FramePutOut
      <4>4. nFrame < nFramesInput
        BY <2>0, <3>1, <3>3 DEF OneBehind
      <4>5. /\ nFramesInput' \in Nat /\ nFramesInput' <= MaxIn
            /\ nFrame' \in Nat /\ nFrame' < nFramesInput' /\ nFrame' <= nFramesInput'
        BY <1>0, <2>0, <3>1, <4>2, <4>4
      <4>6. TypeOK'
        BY <2>0, <2>s, <3>1, <3>2, <4>3, <4>5
      <4>7. QED
        BY <4>3, <4>5, <4>6 DEF CountInv, OneBehind
    <3>4. CASE ~ (nFramesInput >= 1)
      <4>1. UNCHANGED << made, nFrame >>
        BY <2>1, <3>4 DEF RunFrame, Ready
      <4>2. /\ nFramesInput' \in Nat /\ nFramesInput' <= MaxIn
            /\ nFrame' \in Nat /\ nFrame' < nFramesInput' /\ nFrame' <= nFramesInput'
        BY <1>0, <2>0, <3>1, <4>1
      <4>3. TypeOK' /\ NoFramePassedOver'
        BY <2>0, <2>s, <3>1, <3>2, <4>1, <4>2 DEF NoFramePassedOver
      <4>4. QED
        BY <4>2, <4>3 DEF CountInv, OneBehind
    <3>5. QED
      BY <3>3, <3>4
  <2>2. CASE AddFails \/ FrameFails
    <3>1. /\ ~ asked /\ UNCHANGED << asked, nFrame, made >>
          /\ nFramesInput < MaxIn /\ nFramesInput' = nFramesInput + 1
      BY <2>2 DEF AddFails, FrameFails
    <3>2. copyFailed' \in BOOLEAN /\ fails' \in 0 .. MaxFails
      <4>1. CASE AddFails
        BY <2>0, <4>1 DEF AddFails
      <4>2. CASE FrameFails
        <5>1. fails < MaxFails /\ fails + 1 \in 0 .. MaxFails
          BY <1>0, <2>0, <4>2 DEF FrameFails
        <5>2. QED
          BY <2>0, <4>2, <5>1 DEF FrameFails
      <4>3. QED
        BY <2>2, <4>1, <4>2
    <3>3. buf' \in Rings
      <4>1. CASE FrameFails
        BY <2>0, <2>k, <4>1, RingWritten DEF FrameFails
      <4>2. CASE AddFails
        <5>1. PICK content \in {buf[nFramesInput % Size], -1} :
                buf' = [buf EXCEPT ![nFramesInput % Size] = content]
          BY <4>2 DEF AddFails
        <5>2. nFramesInput % Size \in 0 .. Size - 1
          BY <1>0, <2>0
        <5>3. content \in -1 .. MaxIn - 1
          BY <1>0, <2>0, <5>2 DEF Rings
        <5>4. QED
          BY <2>0, <3>1, <5>1, <5>3, RingWritten
      <4>3. QED
        BY <2>2, <4>1, <4>2
    <3>4. /\ nFramesInput' \in Nat /\ nFramesInput' <= MaxIn
          /\ nFrame' \in Nat /\ nFrame' < nFramesInput' /\ nFrame' <= nFramesInput'
      BY <1>0, <2>0, <3>1
    <3>5. TypeOK' /\ NoFramePassedOver'
      BY <2>0, <2>s, <3>1, <3>2, <3>3, <3>4 DEF NoFramePassedOver
    <3>6. QED
      BY <3>4, <3>5 DEF CountInv, OneBehind
  <2>3. CASE RunDrain
    <3>1. /\ asked /\ nFrame < nFramesInput
          /\ made' = Append(made, MadeFrom(nFrame, nFramesInput, buf))
          /\ nFrame' = nFrame + 1
          /\ UNCHANGED << nFramesInput, buf, asked, copyFailed, fails >>
      BY <2>3 DEF RunDrain, LeftOver, source
    <3>2. nFramesInput >= 1
      BY <2>0, <3>1
    <3>3. made' \in Seq(Outs) /\ NoFramePassedOver'
      BY <2>0, <3>1, <3>2, FramePutOut
    <3>4. nFrame' \in Nat /\ nFrame' <= nFramesInput'
      BY <2>0, <3>1
    <3>5. TypeOK'
      BY <2>0, <2>s, <3>1, <3>3, <3>4
    <3>6. QED
      BY <3>1, <3>3, <3>5 DEF CountInv, OneBehind
  <2>4. CASE DrainFails \/ Ask \/ UNCHANGED vars
    <3>1. UNCHANGED << nFramesInput, buf, nFrame, made, copyFailed >>
          /\ (asked' = TRUE \/ asked' = asked) /\ fails' \in 0 .. MaxFails
      BY <1>0, <2>0, <2>4 DEF DrainFails, Ask, vars, source
    <3>2. TypeOK'
      BY <2>0, <2>s, <3>1
    <3>3. QED
      BY <2>0, <3>1, <3>2 DEF CountInv, NoFramePassedOver, OneBehind
  <2>5. QED
    BY <2>1, <2>2, <2>3, <2>4 DEF Next
<1>3. QED
  BY <1>1, <1>2, PTL DEF Spec

-----------------------------------------------------------------------------
(* The frames in the ring                                                  *)

(* The ring's length of frames are where they belong. *)
RingRight ==
  \A k \in 0 .. nFramesInput - 1 : k >= nFramesInput - Size => buf[k % Size] = k

(* The filter lags behind by a frame, and by one more for each failure. *)
Lag == nFramesInput <= nFrame + 1 + fails

RingInv == ~ copyFailed => RingRight /\ Lag /\ (fails <= 1 => \A i \in 1 .. Len(made) : RightSources(made[i]))

(* An output made from the frame it stands for and its neighbours. *)
Right(n, count) ==
  [frame |-> n,
   prev  |-> IF n = 0 THEN 0 ELSE n - 1,
   cur   |-> n,
   next  |-> IF n + 1 < count THEN n + 1 ELSE n]

(* An output is right when the ring has the last four frames and the lag   *)
(* is two frames at most.                                                  *)
LEMMA MadeFromRight ==
  ASSUME Size >= 4, NEW count \in Nat, NEW n \in Nat, n < count, count <= n + 3, NEW ring,
         \A k \in 0 .. count - 1 : k >= count - Size => ring[k % Size] = k
  PROVE  MadeFrom(n, count, ring) = Right(n, count)
<1>0. Size \in Nat
  BY SizeAssumption
<1>1. Source(n, count, ring) = n
  <2>1. Clamped(n, count) = n /\ n \in 0 .. count - 1 /\ n >= count - Size
    BY <1>0 DEF Clamped
  <2>2. QED
    BY <2>1 DEF Source
<1>2. Source(n - 1, count, ring) = IF n = 0 THEN 0 ELSE n - 1
  <2>1. CASE n = 0
    <3>1. Clamped(n - 1, count) = 0 /\ 0 \in 0 .. count - 1 /\ 0 >= count - Size
      BY <1>0, <2>1 DEF Clamped
    <3>2. QED
      BY <2>1, <3>1 DEF Source
  <2>2. CASE n # 0
    <3>1. Clamped(n - 1, count) = n - 1 /\ n - 1 \in 0 .. count - 1 /\ n - 1 >= count - Size
      BY <1>0, <2>2 DEF Clamped
    <3>2. QED
      BY <2>2, <3>1 DEF Source
  <2>3. QED
    BY <2>1, <2>2
<1>3. Source(n + 1, count, ring) = IF n + 1 < count THEN n + 1 ELSE n
  <2>1. CASE n + 1 < count
    <3>1. Clamped(n + 1, count) = n + 1 /\ n + 1 \in 0 .. count - 1 /\ n + 1 >= count - Size
      BY <1>0, <2>1 DEF Clamped
    <3>2. QED
      BY <2>1, <3>1 DEF Source
  <2>2. CASE ~ (n + 1 < count)
    <3>1. Clamped(n + 1, count) = n /\ n \in 0 .. count - 1 /\ n >= count - Size
      BY <1>0, <2>2 DEF Clamped
    <3>2. QED
      BY <2>2, <3>1 DEF Source
  <2>3. QED
    BY <2>1, <2>2
<1>4. QED
  BY <1>1, <1>2, <1>3 DEF MadeFrom, Right

(* A frame copied into its place leaves the ones before it in theirs. *)
LEMMA RingKept ==
  ASSUME CountInv, RingRight, nFramesInput < MaxIn, NEW count \in Nat, count = nFramesInput + 1,
         NEW ring, ring = [buf EXCEPT ![nFramesInput % Size] = nFramesInput]
  PROVE  \A k \in 0 .. count - 1 : k >= count - Size => ring[k % Size] = k
<1>0. nFramesInput \in Nat /\ Size \in Nat \ {0} /\ buf \in Rings
  BY SizeAssumption DEF CountInv, TypeOK, Rings
<1> SUFFICES ASSUME NEW k \in 0 .. count - 1, k >= count - Size PROVE ring[k % Size] = k
  OBVIOUS
<1>1. k \in Nat /\ k % Size \in 0 .. Size - 1
  BY <1>0
<1>2. CASE k = nFramesInput
  BY <1>0, <1>1, <1>2 DEF Rings
<1>3. CASE k # nFramesInput
  <2>1. k < nFramesInput /\ nFramesInput < k + Size /\ k >= nFramesInput - Size
        /\ k \in 0 .. nFramesInput - 1
    BY <1>0, <1>1, <1>3
  <2>2. k % Size # nFramesInput % Size
    BY <1>0, <1>1, <2>1, NeighboursApart
  <2>3. buf[k % Size] = k
    BY <2>1 DEF RingRight
  <2>4. QED
    BY <1>0, <1>1, <2>2, <2>3 DEF Rings
<1>4. QED
  BY <1>2, <1>3

(* The outputs there were stay right as frames come: before the drain none *)
(* was made without the frame behind it.                                   *)
LEMMA RightStays ==
  ASSUME CountInv, NEW i \in 1 .. Len(made), RightSources(made[i]), NEW count \in Nat,
         count = nFramesInput \/ (~ asked /\ count = nFramesInput + 1)
  PROVE  made[i].next = IF made[i].frame + 1 < count THEN made[i].frame + 1 ELSE made[i].frame
<1>1. /\ nFramesInput \in Nat /\ nFrame \in Nat /\ nFrame <= nFramesInput /\ Len(made) = nFrame
      /\ made[i].frame = i - 1 /\ OneBehind
  BY SizeAssumption DEF CountInv, TypeOK, NoFramePassedOver
<1>2. made[i].next = IF made[i].frame + 1 < nFramesInput THEN made[i].frame + 1
                     ELSE made[i].frame
  BY DEF RightSources
<1>3. i \in Nat /\ i >= 1 /\ i <= nFrame
  BY <1>1
<1>4. ~ asked => i < nFramesInput
  BY <1>1, <1>3 DEF OneBehind
<1>5. QED
  BY <1>1, <1>2, <1>3, <1>4

(* A right output behind right ones. *)
LEMMA RightAppended ==
  ASSUME CountInv, \A i \in 1 .. Len(made) : RightSources(made[i]),
         NEW count \in Nat, count >= 1, count = nFramesInput',
         nFramesInput' = nFramesInput \/ (~ asked /\ nFramesInput' = nFramesInput + 1),
         made' = Append(made, Right(nFrame, count))
  PROVE  \A i \in 1 .. Len(made') : RightSources(made[i])'
<1>0. made \in Seq(Outs) /\ Len(made) \in Nat /\ nFrame \in Nat
  BY SizeAssumption DEF CountInv, TypeOK, Outs
<1> DEFINE m == Right(nFrame, count)
<1>1. m \in Outs
  BY <1>0 DEF Right, Outs
<1>2. m.frame = nFrame /\ m.cur = nFrame /\ m.prev = (IF nFrame = 0 THEN 0 ELSE nFrame - 1)
      /\ m.next = (IF nFrame + 1 < count THEN nFrame + 1 ELSE nFrame)
  BY DEF Right
<1>3. made' = Append(made, m)
  OBVIOUS
<1> HIDE DEF m
<1>4. /\ Len(made') = Len(made) + 1
      /\ \A i \in 1 .. Len(made) : made'[i] = made[i]
      /\ made'[Len(made) + 1] = m
  BY <1>0, <1>1, <1>3, OutputAppended
<1> SUFFICES ASSUME NEW i \in 1 .. Len(made) + 1
             PROVE  /\ made'[i].prev = IF made'[i].frame = 0 THEN 0 ELSE made'[i].frame - 1
                    /\ made'[i].cur = made'[i].frame
                    /\ made'[i].next = IF made'[i].frame + 1 < count THEN made'[i].frame + 1
                                       ELSE made'[i].frame
  BY <1>4 DEF RightSources
<1>5. CASE i = Len(made) + 1
  BY <1>2, <1>4, <1>5
<1>6. CASE i # Len(made) + 1
  <2>1. i \in 1 .. Len(made)
    BY <1>0, <1>6
  <2>2. made'[i] = made[i] /\ RightSources(made[i])
    BY <1>4, <2>1
  <2>3. count = nFramesInput \/ (~ asked /\ count = nFramesInput + 1)
    OBVIOUS
  <2>4. made[i].next = IF made[i].frame + 1 < count THEN made[i].frame + 1 ELSE made[i].frame
    BY <2>1, <2>2, <2>3, RightStays
  <2>5. QED
    BY <2>2, <2>4 DEF RightSources
<1>7. QED
  BY <1>5, <1>6

(* With a ring of four frames or more, RingInv is an invariant. *)
THEOREM RingInvariant ==
  ASSUME Size >= 4
  PROVE  Spec => []RingInv
<1>1. Init => RingInv
  BY DEF Init, RingInv, RingRight, Lag
<1>2. CountInv /\ CountInv' /\ RingInv /\ [Next]_vars => RingInv'
  <2> SUFFICES ASSUME CountInv, CountInv', RingInv, [Next]_vars, ~ copyFailed' PROVE RingInv'
    BY DEF RingInv
  <2>0. /\ nFramesInput \in Nat /\ nFrame \in Nat /\ nFrame <= nFramesInput /\ fails \in Nat
        /\ MaxIn \in Nat /\ Size \in Nat
    BY SizeAssumption DEF CountInv, TypeOK
  <2>1. ~ copyFailed /\ ~ AddFails
    BY DEF Next, RunFrame, AddFails, FrameFails, Ask, RunDrain, DrainFails, vars
  <2>2. /\ RingRight /\ Lag
        /\ fails <= 1 => \A i \in 1 .. Len(made) : RightSources(made[i])
    BY <2>1 DEF RingInv
  <2>3. CASE RunFrame \/ FrameFails
    <3>1. /\ ~ asked /\ nFramesInput < MaxIn /\ nFramesInput' = nFramesInput + 1
          /\ buf' = [buf EXCEPT ![nFramesInput % Size] = nFramesInput]
      BY <2>3 DEF RunFrame, FrameFails
    <3>2. PICK count \in Nat : count = nFramesInput + 1
      BY <2>0
    <3>3. \A k \in 0 .. count - 1 : k >= count - Size => buf'[k % Size] = k
      BY <2>2, <3>1, <3>2, RingKept
    <3>4. RingRight'
      BY <3>1, <3>2, <3>3 DEF RingRight
    <3>5. CASE FrameFails
      <4>1. nFrame' = nFrame /\ fails' = fails + 1 /\ made' = made
        BY <3>5 DEF FrameFails
      <4>2. Lag'
        BY <2>0, <2>2, <3>1, <4>1 DEF Lag
      <4>3. fails' <= 1 => \A i \in 1 .. Len(made') : RightSources(made[i])'
        <5> SUFFICES ASSUME fails' <= 1, NEW i \in 1 .. Len(made) PROVE RightSources(made[i])'
          BY <4>1
        <5>1. RightSources(made[i])
          BY <2>0, <2>2, <4>1
        <5>2. made[i].next = IF made[i].frame + 1 < count THEN made[i].frame + 1
                             ELSE made[i].frame
          BY <3>1, <3>2, <5>1, RightStays
        <5>3. QED
          BY <3>1, <3>2, <4>1, <5>1, <5>2 DEF RightSources
      <4>4. QED
        BY <3>4, <4>2, <4>3 DEF RingInv
    <3>6. CASE RunFrame /\ nFramesInput >= 1
      <4>1. /\ made' = Append(made, MadeFrom(nFrame, count, buf')) /\ nFrame' = nFrame + 1
            /\ fails' = fails
        BY <3>1, <3>2, <3>6 DEF RunFrame, Ready
      <4>2. Lag'
        BY <2>0, <2>2, <3>1, <4>1 DEF Lag
      <4>3. fails' <= 1 => \A i \in 1 .. Len(made') : RightSources(made[i])'
        <5> SUFFICES ASSUME fails <= 1
                     PROVE  \A i \in 1 .. Len(made') : RightSources(made[i])'
          BY <4>1
        <5>1. nFrame < count /\ count <= nFrame + 3 /\ count >= 1
          BY <2>0, <2>2, <3>2 DEF Lag
        <5>2. MadeFrom(nFrame, count, buf') = Right(nFrame, count)
          BY <2>0, <3>3, <5>1, MadeFromRight
        <5>3. count = nFramesInput'
          BY <3>1, <3>2
        <5>4. QED
          BY <2>2, <3>1, <4>1, <5>1, <5>2, <5>3, RightAppended
      <4>4. QED
        BY <3>4, <4>2, <4>3 DEF RingInv
    <3>7. CASE RunFrame /\ ~ (nFramesInput >= 1)
      <4>1. nFrame' = nFrame /\ fails' = fails /\ made' = made
        BY <3>7 DEF RunFrame, Ready
      <4>2. nFramesInput = 0 /\ Len(made) = 0
        BY <2>0, <3>7 DEF CountInv, NoFramePassedOver
      <4>3. Lag'
        BY <2>0, <3>1, <4>1, <4>2 DEF Lag
      <4>4. QED
        BY <3>4, <4>1, <4>2, <4>3 DEF RingInv
    <3>8. QED
      BY <2>3, <3>5, <3>6, <3>7
  <2>4. CASE RunDrain
    <3>1. /\ nFrame < nFramesInput
          /\ made' = Append(made, MadeFrom(nFrame, nFramesInput, buf))
          /\ nFrame' = nFrame + 1
          /\ UNCHANGED << nFramesInput, buf, fails >>
      BY <2>4 DEF RunDrain, LeftOver, source
    <3>2. RingRight' /\ Lag'
      BY <2>0, <2>2, <3>1 DEF RingRight, Lag
    <3>3. fails' <= 1 => \A i \in 1 .. Len(made') : RightSources(made[i])'
      <4> SUFFICES ASSUME fails <= 1
                   PROVE  \A i \in 1 .. Len(made') : RightSources(made[i])'
        BY <3>1
      <4>1. nFramesInput <= nFrame + 3 /\ nFramesInput >= 1
        BY <2>0, <2>2, <3>1 DEF Lag
      <4>2. MadeFrom(nFrame, nFramesInput, buf) = Right(nFrame, nFramesInput)
        BY <2>0, <2>2, <3>1, <4>1, MadeFromRight DEF RingRight
      <4>3. QED
        BY <2>0, <2>2, <3>1, <4>1, <4>2, RightAppended
    <3>4. QED
      BY <3>2, <3>3 DEF RingInv
  <2>5. CASE DrainFails \/ Ask \/ UNCHANGED vars
    <3>1. UNCHANGED << nFramesInput, buf, nFrame, made >>
          /\ (fails' = fails \/ fails' = fails + 1)
      BY <2>5 DEF DrainFails, Ask, vars, source
    <3>2. Lag' /\ (fails' <= 1 => fails <= 1)
      BY <2>0, <2>2, <3>1 DEF Lag
    <3>3. QED
      BY <2>2, <3>1, <3>2 DEF RingInv, RingRight, RightSources
  <2>6. QED
    BY <2>1, <2>3, <2>4, <2>5 DEF Next
<1>3. QED
  BY <1>1, <1>2, CountInvariant, PTL DEF Spec

(* Every output is made from the frame it stands for and that frame's      *)
(* neighbours, as long as no copy into the ring and one other call at most *)
(* has failed (the ring of NVEncFilterYadifSource, of four frames).        *)
THEOREM SourcesCorrect ==
  ASSUME Size >= 4
  PROVE  Spec => []MadeRight
<1>1. RingInv => MadeRight
  BY DEF RingInv, MadeRight
<1>2. QED
  BY RingInvariant, <1>1, PTL

-----------------------------------------------------------------------------
(* The cheap deinterlacer                                                  *)

(* The oldest of the frames from one to another. *)
LEMMA OldestIsFirst ==
  ASSUME NEW a \in Nat, NEW b \in Nat, a <= b
  PROVE  Bob!Oldest(a .. b) = a
<1>1. a \in a .. b /\ \A j \in a .. b : a <= j
  OBVIOUS
<1>2. \A k \in a .. b : (\A j \in a .. b : k <= j) => k = a
  BY <1>1
<1>3. QED
  BY <1>1, <1>2 DEF Bob!Oldest

(* Every step of Yadif is a step of the cheap deinterlacer the split takes *)
(* it to be, or leaves that one as it is.                                  *)
THEOREM StepsCorrect == Spec => StepsOfBob
<1>1. Init => Bob!Init
  BY DEF Init, Bob!Init, Held, Put, Failed
<1>2. CountInv /\ CountInv' /\ [Next]_vars => [Bob!Next]_(Bob!vars)
  <2> SUFFICES ASSUME CountInv, CountInv', [Next]_vars PROVE [Bob!Next]_(Bob!vars)
    OBVIOUS
  <2>0. /\ nFramesInput \in Nat /\ nFrame \in Nat /\ nFrame <= nFramesInput /\ fails \in Nat
        /\ MaxIn \in Nat /\ buf \in Rings /\ buf' \in Rings
    BY SizeAssumption DEF CountInv, TypeOK, Rings
  <2>1. ASSUME UNCHANGED made PROVE UNCHANGED Put
    BY <2>1 DEF Put
  <2>2. ASSUME nFramesInput' = nFramesInput + 1, nFrame' = nFrame
        PROVE  Held' = Held \cup {nFramesInput}
    BY <2>0, <2>2 DEF Held
  <2>3. CASE RunFrame
    <3>1. /\ ~ asked /\ UNCHANGED << asked, Failed >>
          /\ nFramesInput < MaxIn /\ nFramesInput' = nFramesInput + 1
      BY <2>3 DEF RunFrame, Failed
    <3>2. CASE ~ (nFramesInput >= 1)
      <4>1. UNCHANGED Put /\ nFrame' = nFrame
        BY <2>1, <2>3, <3>2 DEF RunFrame, Ready
      <4>2. Held = {} /\ Held' = {nFramesInput}
        <5>1. nFramesInput = 0 /\ nFrame = 0
          BY <2>0, <3>2
        <5>2. Held = {}
          BY <5>1 DEF Held
        <5>3. QED
          BY <2>2, <3>1, <4>1, <5>2
      <4>3. QED
        BY <3>1, <4>1, <4>2 DEF Bob!Next, Bob!Feed
    <3>3. CASE nFramesInput >= 1
      <4>1. nFrame' = nFrame + 1
        BY <2>3, <3>3 DEF RunFrame, Ready
      <4>2. PICK count \in Nat : count = nFramesInput + 1
        BY <2>0
      <4>3. made' = Append(made, MadeFrom(nFrame, count, buf'))
        BY <2>3, <3>1, <3>3, <4>2 DEF RunFrame, Ready
      <4>4. Put' = Append(Put, nFrame)
        BY <2>0, <4>1, <4>2, <4>3, FramePutOut
      <4>5. nFrame < nFramesInput
        BY <3>1, <3>3 DEF CountInv, OneBehind
      <4>6. Held # {} /\ Bob!Oldest(Held) = nFrame
        <5>1. PICK last \in Nat : last = nFramesInput - 1 /\ nFrame <= last
          BY <2>0, <4>5
        <5>2. QED
          BY <2>0, <5>1, OldestIsFirst DEF Held
      <4>7. Held' = (Held \cup {nFramesInput}) \ {nFrame}
        BY <2>0, <3>1, <4>1, <4>5 DEF Held
      <4>8. QED
        BY <3>1, <4>4, <4>6, <4>7 DEF Bob!Next, Bob!Feed
    <3>4. QED
      BY <3>2, <3>3
  <2>4. CASE AddFails \/ FrameFails
    <3>1. /\ ~ asked /\ UNCHANGED << asked, made, nFrame >>
          /\ nFramesInput < MaxIn /\ nFramesInput' = nFramesInput + 1
      BY <2>4 DEF AddFails, FrameFails
    <3>2. Failed' = TRUE
      BY <2>0, <2>4 DEF AddFails, FrameFails, Failed
    <3>3. QED
      BY <2>1, <2>2, <3>1, <3>2 DEF Bob!Next, Bob!FeedFails
  <2>5. CASE Ask
    BY <2>1, <2>5 DEF Ask, source, Held, Failed, Bob!Next, Bob!Ask
  <2>6. ASSUME LeftOver PROVE Held # {} /\ Bob!Oldest(Held) = nFrame
    <3>1. PICK last \in Nat : last = nFramesInput - 1 /\ nFrame <= last
      BY <2>0, <2>6 DEF LeftOver
    <3>2. QED
      BY <2>0, <3>1, OldestIsFirst DEF Held
  <2>7. CASE RunDrain
    <3>1. /\ asked /\ nFrame < nFramesInput /\ LeftOver
          /\ made' = Append(made, MadeFrom(nFrame, nFramesInput, buf))
          /\ nFrame' = nFrame + 1
          /\ UNCHANGED << nFramesInput, asked, Failed >>
      BY <2>7 DEF RunDrain, LeftOver, source, Failed
    <3>2. nFramesInput >= 1
      BY <2>0, <3>1
    <3>3. Put' = Append(Put, nFrame)
      BY <2>0, <3>1, <3>2, FramePutOut
    <3>4. Held' = Held \ {nFrame}
      BY <2>0, <3>1 DEF Held
    <3>5. QED
      BY <2>6, <3>1, <3>3, <3>4 DEF Bob!Next, Bob!Drain
  <2>8. CASE DrainFails
    <3>1. asked /\ LeftOver /\ UNCHANGED << nFramesInput, nFrame, asked, made >>
      BY <2>8 DEF DrainFails, source
    <3>2. Failed' = TRUE
      BY <2>0, <2>8 DEF DrainFails, Failed
    <3>3. Held' = Held
      BY <3>1 DEF Held
    <3>4. QED
      BY <2>1, <2>6, <3>1, <3>2, <3>3 DEF Bob!Next, Bob!DrainFails
  <2>9. CASE UNCHANGED vars
    BY <2>1, <2>9 DEF vars, source, Held, Failed, Bob!vars
  <2>10. QED
    BY <2>3, <2>4, <2>5, <2>7, <2>8, <2>9 DEF Next
<1>3. QED
  BY <1>1, <1>2, CountInvariant, PTL DEF Spec, StepsOfBob

(* Every variable has its type, and no frame is put out that was not given *)
(* (NVEncFilterYadif::run_filter()).                                       *)
THEOREM TypeCorrect == Spec => []TypeOK
<1>1. CountInv => TypeOK
  BY DEF CountInv
<1>2. QED
  BY CountInvariant, <1>1, PTL

(* No frame is passed over or put out twice, whatever fails: a failed call *)
(* only makes the filter late (m_nFrame moves with the outputs alone).     *)
THEOREM NothingPassedOver == Spec => []NoFramePassedOver
<1>1. CountInv => NoFramePassedOver
  BY DEF CountInv
<1>2. QED
  BY CountInvariant, <1>1, PTL
=============================================================================
