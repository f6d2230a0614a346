------------------------------- MODULE Yadif -------------------------------
(***************************************************************************)
(* NVEncFilterYadif in bob mode, as the split drives it: the source ring   *)
(* of four frames (NVEncFilterYadifSource) and the count of the frames put *)
(* out.  A frame is its number in the input; each is put out as two output *)
(* frames, made by one call from it and its neighbours.                    *)
(***************************************************************************)
EXTENDS Integers, Sequences

CONSTANTS
  Size,                 (* m_buf.size()                                     *)
  MaxIn,                (* Bound on the frames given                        *)
  MaxFails              (* Bound on the calls that fail after the copy      *)

ASSUME SizeAssumption == Size \in Nat \ {0} /\ MaxIn \in Nat /\ MaxFails \in Nat

VARIABLES
  nFramesInput,
  nFrame,
  buf,                  (* the frame in each buffer of the ring, -1 if none *)
  asked,                (* history: flush() has called with the null plane  *)
  made,                 (* history: what each output was made from          *)
  copyFailed,           (* history: a copy into the ring has failed         *)
  fails                 (* history: the calls that failed after the copy    *)

source == << nFramesInput, buf >>
vars   == << source, nFrame, asked, made, copyFailed, fails >>

Init ==
  /\ nFramesInput = 0
  /\ nFrame = 0
  /\ buf = [s \in 0 .. Size - 1 |-> -1]
  /\ asked = FALSE
  /\ made = << >>
  /\ copyFailed = FALSE
  /\ fails = 0

(* The number NVEncFilterYadifSource::get() clamps to the frames there are. *)
Clamped(n, count) == IF n < 0 THEN 0 ELSE IF n > count - 1 THEN count - 1 ELSE n

(* Mutant of Source: the frame number is not clamped. *)
SourceUnclamped(n, count, ring) == ring[n % Size]

(* NVEncFilterYadifSource::get(): the frame in the buffer of frame n, when *)
(* count frames were given and the ring holds ring.                        *)
Source(n, count, ring) == ring[Clamped(n, count) % Size]

(* What frame n is made from: the buffers of its neighbours and its own. *)
MadeFrom(n, count, ring) ==
  [frame |-> n,
   prev  |-> Source(n - 1, count, ring),
   cur   |-> Source(n, count, ring),
   next  |-> Source(n + 1, count, ring)]

(* Mutant of Ready: a frame is put out before the next one has come. *)
ReadyAtOnce(iframe) == TRUE

(* A call with a frame puts one out, iframe frames having come before it. *)
Ready(iframe) == iframe >= 1

(* run_filter() with a frame, which succeeds. *)
RunFrame ==
  /\ ~ asked
  /\ nFramesInput < MaxIn
  /\ nFramesInput' = nFramesInput + 1
  /\ buf' = [buf EXCEPT ![nFramesInput % Size] = nFramesInput]
  /\ IF Ready(nFramesInput)
     THEN /\ made' = Append(made, MadeFrom(nFrame, nFramesInput', buf'))
          /\ nFrame' = nFrame + 1
     ELSE UNCHANGED << made, nFrame >>
  /\ UNCHANGED << asked, copyFailed, fails >>

(* The copy into the ring fails: the frame counts all the same, and its    *)
(* buffer holds what it held or nothing whole.                             *)
AddFails ==
  /\ ~ asked
  /\ nFramesInput < MaxIn
  /\ nFramesInput' = nFramesInput + 1
  /\ \E content \in {buf[nFramesInput % Size], -1} :
       buf' = [buf EXCEPT ![nFramesInput % Size] = content]
  /\ copyFailed' = TRUE
  /\ UNCHANGED << nFrame, asked, made, fails >>

(* Mutant of FrameFails: the frame it was working on counts as put out. *)
FrameFailsPassingOver ==
  /\ ~ asked
  /\ nFramesInput < MaxIn
  /\ fails < MaxFails
  /\ Ready(nFramesInput)
  /\ nFramesInput' = nFramesInput + 1
  /\ buf' = [buf EXCEPT ![nFramesInput % Size] = nFramesInput]
  /\ nFrame' = nFrame + 1
  /\ fails' = fails + 1
  /\ UNCHANGED << asked, made, copyFailed >>

(* The copy succeeds and the call fails behind it. *)
FrameFails ==
  /\ ~ asked
  /\ nFramesInput < MaxIn
  /\ fails < MaxFails
  /\ Ready(nFramesInput)
  /\ nFramesInput' = nFramesInput + 1
  /\ buf' = [buf EXCEPT ![nFramesInput % Size] = nFramesInput]
  /\ fails' = fails + 1
  /\ UNCHANGED << nFrame, asked, made, copyFailed >>

(* flush() begins to drain. *)
Ask ==
  /\ asked' = TRUE
  /\ UNCHANGED << source, nFrame, made, copyFailed, fails >>

(* Mutant of LeftOver: the end is noticed one call late. *)
LeftOverLate == nFrame <= nFramesInput

(* A frame is left to put out. *)
LeftOver == nFrame < nFramesInput

(* run_filter() with the null plane, which puts a frame out. *)
RunDrain ==
  /\ asked
  /\ LeftOver
  /\ made' = Append(made, MadeFrom(nFrame, nFramesInput, buf))
  /\ nFrame' = nFrame + 1
  /\ UNCHANGED << source, asked, copyFailed, fails >>

DrainFails ==
  /\ asked
  /\ LeftOver
  /\ fails < MaxFails
  /\ fails' = fails + 1
  /\ UNCHANGED << source, nFrame, asked, made, copyFailed >>

Next == RunFrame \/ AddFails \/ FrameFails \/ Ask \/ RunDrain \/ DrainFails

(* Some call has failed. *)
Failed == copyFailed \/ fails > 0

(* flush() calls until nothing comes any more; a call that fails ends it. *)
Spec == Init /\ [][Next]_vars /\ WF_vars(~ Failed /\ RunDrain)

-----------------------------------------------------------------------------

(* Every variable has its type, and no frame is put out that was not given. *)
TypeOK ==
  /\ nFramesInput \in 0 .. MaxIn
  /\ nFrame \in 0 .. nFramesInput
  /\ buf \in [0 .. Size - 1 -> -1 .. MaxIn - 1]
  /\ asked \in BOOLEAN /\ copyFailed \in BOOLEAN
  /\ fails \in 0 .. MaxFails
  /\ made \in Seq([frame : Nat, prev : Int, cur : Int, next : Int])

(* An output's number in the input and those of its neighbours, the frame  *)
(* itself at either end of the stream.                                     *)
RightSources(m) ==
  /\ m.prev = IF m.frame = 0 THEN 0 ELSE m.frame - 1
  /\ m.cur = m.frame
  /\ m.next = IF m.frame + 1 < nFramesInput THEN m.frame + 1 ELSE m.frame

(* Every output is made from the frame it stands for and its neighbours,   *)
(* even when a call has failed and the filter lags behind by one frame     *)
(* more: the ring of four has room for that once.                          *)
MadeRight ==
  ~ copyFailed /\ fails <= 1 => \A i \in 1 .. Len(made) : RightSources(made[i])

(* No frame is ever passed over or put out twice: a failed call only makes *)
(* the filter late, and the drain makes up for it.                         *)
NoFramePassedOver ==
  /\ Len(made) = nFrame
  /\ \A i \in 1 .. Len(made) : made[i].frame = i - 1

(* The frames not put out yet, and those that are. *)
Held == nFrame .. nFramesInput - 1
Put  == [i \in 1 .. Len(made) |-> made[i].frame]

(* The cheap deinterlacer the split takes it to be. *)
Bob == INSTANCE BobDeint
         WITH given <- nFramesInput, held <- Held, put <- Put, failed <- Failed

(* The filter implements it: every frame comes out once, in order, and the *)
(* drain brings out whatever is left.                                      *)
ImplementsBob == Bob!Spec

(* The part of it that fairness has no say in. *)
StepsOfBob == Bob!Init /\ [][Bob!Next]_(Bob!vars)
=============================================================================
