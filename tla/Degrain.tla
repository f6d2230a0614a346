------------------------------ MODULE Degrain ------------------------------
(***************************************************************************)
(* NVEncFilterDegrain, the stage the temporal passes are made of: its      *)
(* cache of input frames, the output delay, the frames that wait for the   *)
(* result of their scene-change test, and the drain.  A frame is its       *)
(* number among the frames the stage has taken.                            *)
(*                                                                         *)
(* Every frame brings the motion vectors the analysis stage attached to    *)
(* it.  A stage that searches as far as the analysis did uses them where   *)
(* they are; one that searches less far copies what it needs of them into  *)
(* a workspace it has one of.                                              *)
(***************************************************************************)
EXTENDS Integers, Sequences

CONSTANTS
  Delta,                (* degrain.delta: how far the references reach      *)
  Tr0,                  (* degrain.tr0: the frames the search luma needs    *)
  Depth,                (* SCENE_CHANGE_PIPELINE_DEPTH                      *)
  CacheSize,            (* DEGRAIN_CACHE_SIZE                               *)
  Shared,               (* whether a stage may use the workspace            *)
  MaxIn,                (* Bound on the frames taken                        *)
  MaxFails              (* Bound on the calls that fail                     *)

ASSUME DeltaAssumption == Delta \in Nat \ {0} /\ Tr0 \in Nat /\ Depth \in Nat
ASSUME SizeAssumption == CacheSize \in Nat \ {0} /\ MaxIn \in Nat /\ MaxFails \in Nat
ASSUME SharedAssumption == Shared \subseteq BOOLEAN

VARIABLES
  mode,                 (* degrain.mode; "Motion" stands for MotionBack,    *)
                        (* MotionForw and their like                        *)
  lowLatency,           (* degrain.lowLatency                               *)
  shared,               (* the layout is a part of the analysis stage's     *)
  inputCount,
  drainCount,
  cache,                (* the frame in each cache slot, -1 if none whole   *)
  pending,              (* m_pendingSceneChange: a frame, and inputCount    *)
                        (* when its references were resolved                *)
  workspace,            (* the frame whose vectors are in m_analysis        *)
  asked,                (* history: the drain has begun,                    *)
  ended,                (* and has had an empty answer                      *)
  made,                 (* history: what each output was made from          *)
  fails                 (* history: the calls that failed                   *)

setting == << mode, lowLatency, shared >>
vars    == << setting, inputCount, drainCount, cache, pending, workspace, asked, ended, made,
              fails >>

Modes == {"Analyze", "Motion", "Degrain"}

Init ==
  /\ mode \in Modes
  /\ lowLatency \in BOOLEAN
  /\ shared \in Shared
  /\ mode = "Analyze" => ~ shared
  /\ inputCount = 0
  /\ drainCount = 0
  /\ cache = [s \in 0 .. CacheSize - 1 |-> -1]
  /\ pending = << >>
  /\ workspace = -1
  /\ asked = FALSE
  /\ ended = FALSE
  /\ made = << >>
  /\ fails = 0

-----------------------------------------------------------------------------

(* Mutant of Slot: the ring is taken for one frame shorter. *)
SlotShort(n) == n % (CacheSize - 1)

(* cacheIndex() *)
Slot(n) == n % CacheSize

(* outputDelay(): only the analysis stage waits for its own search where   *)
(* the others are told not to.                                             *)
OutputDelay == Delta + (IF lowLatency /\ mode # "Analyze" THEN 0 ELSE Tr0)

(* Mutant of DrainFrameCount: the frame behind the newest output is left.  *)
DrainFrameCountShort ==
  LET d == OutputDelay - 1 IN IF d < inputCount THEN d ELSE inputCount

(* drainFrameCount() *)
DrainFrameCount == IF OutputDelay < inputCount THEN OutputDelay ELSE inputCount

(* The first frame the drain works on. *)
FirstToDrain == inputCount - DrainFrameCount

(* How many frames wait for their scene-change test before one is put out. *)
PipelineDepth == IF mode # "Degrain" \/ lowLatency THEN 0 ELSE Depth

(* resolveFrameSet() of frame n, when count frames were given: a reference *)
(* outside the stream is the frame itself.                                 *)
Resolved(n, count) ==
  [d \in -Delta .. Delta |-> IF n + d >= 0 /\ n + d < count THEN n + d ELSE n]

(* Mutant of VectorsUsed: the frame is put out before its vectors are      *)
(* bound.                                                                  *)
VectorsUsedEarly(p) == IF shared THEN workspace ELSE p.frame

(* The vectors at hand for p, after the newest frame's were bound. *)
VectorsUsed(p) == IF shared THEN workspace' ELSE p.frame

(* emitResolvedSceneChangeFrame() of p: the references are pointers into   *)
(* the cache, and are read now.                                            *)
Output(p) ==
  LET refs == Resolved(p.frame, p.known)
  IN  [frame   |-> p.frame,
       refs    |-> [d \in -Delta .. Delta |-> cache'[Slot(refs[d])]],
       vectors |-> VectorsUsed(p)]

(* Mutant of Full: a frame too many waits. *)
FullLate(q) == Len(q) > PipelineDepth + 1

(* The oldest of the frames q must go out. *)
Full(q) == Len(q) > PipelineDepth

(* runResolvedFrames() of frame n: its vectors are bound, its test is      *)
(* submitted, and the oldest frame whose test is due is put out.           *)
RunResolved(n) ==
  LET q == Append(pending, [frame |-> n, known |-> inputCount'])
  IN  /\ workspace' = IF shared THEN n ELSE workspace
      /\ IF Full(q)
         THEN pending' = Tail(q) /\ made' = Append(made, Output(Head(q)))
         ELSE pending' = q /\ UNCHANGED made

(* runResolvedFrames() of frame n fails.  The oldest frame may have been   *)
(* taken off the queue; n never gets on it.                                *)
ResolvedFails(n) ==
  /\ workspace' \in {workspace, IF shared THEN n ELSE workspace}
  /\ pending' \in {pending, IF pending # << >> /\ Full(Append(pending, n)) THEN Tail(pending)
                            ELSE pending}
  /\ UNCHANGED made

-----------------------------------------------------------------------------
(* run_filter() with a frame                                               *)

(* The frame goes into the cache, and the one outputDelay() frames before  *)
(* it is worked on, if there is one.                                       *)
RunFrame ==
  /\ ~ asked
  /\ inputCount < MaxIn
  /\ drainCount' = 0
  /\ cache' = [cache EXCEPT ![Slot(inputCount)] = inputCount]
  /\ inputCount' = inputCount + 1
  /\ IF inputCount' < OutputDelay + 1
     THEN UNCHANGED << pending, workspace, made >>
     ELSE RunResolved(inputCount' - OutputDelay - 1)
  /\ UNCHANGED << setting, asked, ended, fails >>

(* pushCacheFrame() fails: the frame does not count, and the slot it was   *)
(* meant for may hold nothing whole.                                       *)
PushFails ==
  /\ ~ asked
  /\ fails < MaxFails
  /\ drainCount' = 0
  /\ cache' \in {cache, [cache EXCEPT ![Slot(inputCount)] = -1]}
  /\ fails' = fails + 1
  /\ UNCHANGED << setting, inputCount, pending, workspace, asked, ended, made >>

(* The call fails behind that: the frame to be worked on is passed over. *)
FrameFails ==
  /\ ~ asked
  /\ inputCount < MaxIn
  /\ fails < MaxFails
  /\ drainCount' = 0
  /\ cache' = [cache EXCEPT ![Slot(inputCount)] = inputCount]
  /\ inputCount' = inputCount + 1
  /\ IF inputCount' < OutputDelay + 1
     THEN UNCHANGED << pending, workspace, made >>
     ELSE ResolvedFails(inputCount' - OutputDelay - 1)
  /\ fails' = fails + 1
  /\ UNCHANGED << setting, asked, ended >>

-----------------------------------------------------------------------------
(* run_filter() without a frame                                            *)

(* The caller begins to drain, or does so again after a failure. *)
Ask ==
  /\ ~ asked \/ fails > 0
  /\ asked' = TRUE
  /\ ended' = FALSE
  /\ UNCHANGED << setting, inputCount, drainCount, cache, pending, workspace, made, fails >>

(* A frame that has not been worked on is, as if one had come in. *)
DrainFrame ==
  /\ drainCount < DrainFrameCount
  /\ drainCount' = drainCount + 1
  /\ UNCHANGED << inputCount, cache >>
  /\ RunResolved(FirstToDrain + drainCount)

(* Otherwise the oldest frame that waits goes out. *)
DrainPending ==
  /\ drainCount >= DrainFrameCount
  /\ pending # << >>
  /\ UNCHANGED << inputCount, drainCount, cache, workspace >>
  /\ pending' = Tail(pending)
  /\ made' = Append(made, Output(Head(pending)))

(* Nothing is left. *)
DrainNothing ==
  /\ drainCount >= DrainFrameCount
  /\ pending = << >>
  /\ UNCHANGED << inputCount, drainCount, cache, workspace, pending, made >>

(* A drain call.  The caller takes the first empty answer for the end.     *)
RunDrain ==
  /\ asked
  /\ ~ ended
  /\ DrainFrame \/ DrainPending \/ DrainNothing
  /\ ended' = (made' = made)
  /\ UNCHANGED << setting, asked, fails >>

(* A drain call that fails; the frame it worked on is not worked on again. *)
DrainFails ==
  /\ asked
  /\ ~ ended
  /\ fails < MaxFails
  /\ \/ /\ drainCount < DrainFrameCount
        /\ \/ drainCount' = drainCount + 1 /\ ResolvedFails(FirstToDrain + drainCount)
           \/ UNCHANGED << drainCount, workspace, pending, made >>
     \/ /\ drainCount >= DrainFrameCount
        /\ pending # << >>
        /\ pending' = Tail(pending)
        /\ UNCHANGED << drainCount, workspace, made >>
  /\ fails' = fails + 1
  /\ UNCHANGED << setting, inputCount, cache, asked, ended >>

Next == RunFrame \/ PushFails \/ FrameFails \/ Ask \/ RunDrain \/ DrainFails

(* A drain that has begun goes on until it ends or a call fails. *)
Spec == Init /\ [][Next]_vars /\ WF_vars(fails = 0 /\ RunDrain)

-----------------------------------------------------------------------------

Entry == [frame : Nat, known : Nat]

Made == [frame : Nat, refs : [-Delta .. Delta -> Int], vectors : Int]

(* Every variable has its type; no more frames wait for their test than    *)
(* the pipeline is deep, and the drain works on no more than it has to.    *)
TypeOK ==
  /\ mode \in Modes /\ lowLatency \in BOOLEAN /\ shared \in BOOLEAN
  /\ inputCount \in 0 .. MaxIn
  /\ drainCount \in 0 .. DrainFrameCount
  /\ cache \in [0 .. CacheSize - 1 -> -1 .. MaxIn - 1]
  /\ pending \in Seq(Entry) /\ Len(pending) <= PipelineDepth
  /\ workspace \in -1 .. MaxIn - 1
  /\ asked \in BOOLEAN /\ ended \in BOOLEAN
  /\ made \in Seq(Made)
  /\ fails \in 0 .. MaxFails

(* The slots the cache has beyond those the frame that leaves last needs.  *)
Spare == CacheSize - (OutputDelay + PipelineDepth + Delta + 1)

(* Every output is made from the frame it stands for and from its          *)
(* neighbours as far as Delta, the frame itself where the stream ends: no  *)
(* slot is written again while a frame in the pipeline still refers to it. *)
(* A failed call may leave the pipeline one frame further behind, and the  *)
(* cache has room for as many of these as it has slots to spare.           *)
MadeRight ==
  fails <= Spare =>
    \A i \in 1 .. Len(made) : made[i].refs = Resolved(made[i].frame, inputCount)

(* As long as no call has failed the stage is a fixed number of frames     *)
(* behind its input, so those who wait for it know when its frames come.   *)
ConstantLag ==
  fails = 0 /\ ~ asked =>
    Len(made) = IF inputCount > OutputDelay + PipelineDepth
                THEN inputCount - (OutputDelay + PipelineDepth) ELSE 0

(* Every output is made with the motion vectors of the frame it stands     *)
(* for, however long it waited: waiting "only changes when a frame comes   *)
(* out, not what is in it" (rgy_prm.h on lowLatency).                      *)
VectorsOfTheFrame == \A i \in 1 .. Len(made) : made[i].vectors = made[i].frame

(* It is so where no frame waits, and where the vectors stay where the     *)
(* analysis stage put them.                                                *)
OwnVectors == PipelineDepth = 0 \/ ~ shared => VectorsOfTheFrame

(* A drain that ends brings out every frame, so that those "the temporal   *)
(* filter is still holding are released" (RtgmDif.h on handdif).           *)
DrainReleasesAll == ended /\ fails = 0 => Len(made) = inputCount

(* The frames the stage has taken and not put out. *)
Held == { pending[i].frame : i \in 1 .. Len(pending) }
        \cup (FirstToDrain + drainCount .. inputCount - 1)

Put == [i \in 1 .. Len(made) |-> made[i].frame]

(* The pass RtgmDif takes the stage to be. *)
AsPass == INSTANCE Pass WITH given <- inputCount, held <- Held, put <- Put, failed <- fails > 0

(* The stage is one: every frame comes out once and in order, through any  *)
(* failures, none is lost by a call that did not fail, and the drain is    *)
(* over without what it should bring out only if nothing ever came out.    *)
ImplementsPass == AsPass!Spec
=============================================================================
