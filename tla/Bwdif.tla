------------------------------- MODULE Bwdif -------------------------------
(***************************************************************************)
(* NVEncFilterBwdif in bob mode, as the split drives it: the cache of      *)
(* three frames, the count of the frames given and the drained flag.  A    *)
(* frame is its number in the input; each is put out as two output frames, *)
(* made by one call from it and its neighbours.                            *)
(***************************************************************************)
EXTENDS Integers, Sequences

CONSTANTS
  CacheSize,            (* BWDIF_CACHE_SIZE                                 *)
  MaxIn                 (* Bound on the frames given                        *)

ASSUME SizeAssumption == CacheSize \in Nat \ {0} /\ MaxIn \in Nat

VARIABLES
  inputCount,
  drained,
  cache,                (* the frame in each cache frame, -1 if none        *)
  asked,                (* history: flush() has called with the null plane  *)
  made,                 (* history: what each output was made from          *)
  failed                (* history: a call has failed                       *)

vars == << inputCount, drained, cache, asked, made, failed >>

Init ==
  /\ inputCount = 0
  /\ drained = FALSE
  /\ cache = [s \in 0 .. CacheSize - 1 |-> -1]
  /\ asked = FALSE
  /\ made = << >>
  /\ failed = FALSE

(* Mutant of Slot: the ring is taken for one frame shorter. *)
SlotShort(n) == n % (CacheSize - 1)

(* The cache frame of input frame n. *)
Slot(n) == n % CacheSize

(* generateOutput() of frame n when count frames were given: a neighbour   *)
(* there is not is the frame itself.                                       *)
MadeFrom(n, count, frames) ==
  [frame |-> n,
   prev  |-> frames[Slot(IF n > 0 THEN n - 1 ELSE n)],
   cur   |-> frames[Slot(n)],
   next  |-> frames[Slot(IF n + 1 < count THEN n + 1 ELSE n)]]

(* run_filter() with a frame, which succeeds: the frame before it is put   *)
(* out.                                                                    *)
RunFrame ==
  /\ ~ asked
  /\ inputCount < MaxIn
  /\ inputCount' = inputCount + 1
  /\ cache' = [cache EXCEPT ![Slot(inputCount)] = inputCount]
  /\ made' = IF inputCount' < 2 THEN made
             ELSE Append(made, MadeFrom(inputCount' - 2, inputCount', cache'))
  /\ UNCHANGED << drained, asked, failed >>

(* The copy into the cache fails, and the slot holds nothing whole: the    *)
(* frame does not count.                                                   *)
CopyFails ==
  /\ ~ asked
  /\ inputCount < MaxIn
  /\ cache' \in {cache, [cache EXCEPT ![Slot(inputCount)] = -1]}
  /\ failed' = TRUE
  /\ UNCHANGED << inputCount, drained, asked, made >>

(* generateOutput() fails behind the copy: the frame before is never put   *)
(* out.                                                                    *)
FrameFails ==
  /\ ~ asked
  /\ inputCount < MaxIn
  /\ inputCount >= 1
  /\ inputCount' = inputCount + 1
  /\ cache' = [cache EXCEPT ![Slot(inputCount)] = inputCount]
  /\ failed' = TRUE
  /\ UNCHANGED << drained, asked, made >>

(* flush() begins to drain. *)
Ask ==
  /\ asked' = TRUE
  /\ UNCHANGED << inputCount, drained, cache, made, failed >>

(* Mutant of LeftOver: drains where nothing was given. *)
LeftOverOfNone == ~ drained

(* Mutant of LeftOver: a single frame is taken to be out already. *)
LeftOverOfTwo == ~ drained /\ inputCount >= 2

(* The last frame has not been drained. *)
LeftOver == ~ drained /\ inputCount >= 1

(* run_filter() with the null plane, which puts the last frame out. *)
RunDrain ==
  /\ asked
  /\ LeftOver
  /\ drained' = TRUE
  /\ made' = Append(made, MadeFrom(inputCount - 1, inputCount, cache))
  /\ UNCHANGED << inputCount, cache, asked, failed >>

(* It fails, and the flag is set all the same. *)
DrainFails ==
  /\ asked
  /\ LeftOver
  /\ drained' = TRUE
  /\ failed' = TRUE
  /\ UNCHANGED << inputCount, cache, asked, made >>

Next == RunFrame \/ CopyFails \/ FrameFails \/ Ask \/ RunDrain \/ DrainFails

(* flush() calls until nothing comes any more; a call that fails ends it. *)
Spec == Init /\ [][Next]_vars /\ WF_vars(~ failed /\ RunDrain)

-----------------------------------------------------------------------------

(* Every variable has its type. *)
TypeOK ==
  /\ inputCount \in 0 .. MaxIn
  /\ drained \in BOOLEAN /\ asked \in BOOLEAN /\ failed \in BOOLEAN
  /\ cache \in [0 .. CacheSize - 1 -> -1 .. MaxIn - 1]
  /\ made \in Seq([frame : Nat, prev : Int, cur : Int, next : Int])

(* Every output is made from the frame it stands for and its neighbours,   *)
(* the frame itself at either end of the stream.  No failure changes that, *)
(* a copy that broke off in the middle included.                           *)
MadeRight ==
  \A i \in 1 .. Len(made) :
    LET m == made[i]
    IN  /\ m.prev = IF m.frame = 0 THEN 0 ELSE m.frame - 1
        /\ m.cur = m.frame
        /\ m.next = IF m.frame + 1 < inputCount THEN m.frame + 1 ELSE m.frame

(* The frames not put out yet, and those that are. *)
Held == IF drained \/ inputCount = 0 THEN {} ELSE {inputCount - 1}
Put  == [i \in 1 .. Len(made) |-> made[i].frame]

(* The cheap deinterlacer the split takes it to be. *)
Bob == INSTANCE BobDeint WITH given <- inputCount, held <- Held, put <- Put

(* The filter implements it: every frame comes out once, in order, the     *)
(* drain brings out the last one, and a failed call costs one at most.     *)
ImplementsBob == Bob!Spec

(* The part of it that fairness has no say in. *)
StepsOfBob == Bob!Init /\ [][Bob!Next]_(Bob!vars)
=============================================================================
