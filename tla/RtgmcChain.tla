----------------------------- MODULE RtgmcChain -----------------------------
(***************************************************************************)
(* NVEncFilterRtgmc (NVEncFilterRtgmc.cu), the first pass of every flow:   *)
(*                                                                         *)
(*   bob -> search prefilter -> analyze -> EDI -> TR1 -> retouch           *)
(*       -> TR2 -> sink                                                    *)
(*                                                                         *)
(* Bob makes two frames of every input.  EDI builds its answer from the    *)
(* input the frame was made of, which it finds in a cache, and behind it   *)
(* the frame goes to two helpers, which compensate its neighbours' motion: *)
(* what they make is stored for the sharpness limit of the retouch, which  *)
(* gets the frame only when TR1 has put it out.  It is stored as pointers, *)
(* to frames in the helpers' caches and to the vectors bound for the frame.*)
(*                                                                         *)
(* A frame is its number in bob's output, 2 * i or 2 * i + 1 for input i.  *)
(* A call is a series of steps: `at' is the stage that runs next.  The     *)
(* stages that hold nothing back and refer to no other frame are left out. *)
(***************************************************************************)
EXTENDS Integers, Sequences, FiniteSets, Stages

CONSTANTS
  Settings,             (* what init() may be called with                   *)
  OutBufs,              (* RGY_RTGMC_MAX_OUT_FRAMES                         *)
  MaxReturn,            (* RGY_RTGMC_MAX_RETURN_FRAMES                      *)
  SourceCache,          (* RTGMC_SOURCE_CACHE_FRAMES                        *)
  CompCache,            (* DEGRAIN_CACHE_SIZE                               *)
  TestDepth,            (* SCENE_CHANGE_PIPELINE_DEPTH                      *)
  MaxInputs,            (* Bound on the frames given                        *)
  MaxFailures           (* Bound on the steps that fail                     *)

(* The parameters init() accepts; faults says whether steps may fail,      *)
(* inputs bounds how many frames are given.                                *)
Setting ==
  [tr0 : 0 .. 2, analyze : 0 .. 5, tr1 : 1 .. 2, tr2 : 0 .. 5, limit : BOOLEAN,
   lowLatency : BOOLEAN, faults : BOOLEAN, inputs : 0 .. MaxInputs]

ASSUME ChainAssumption ==
  /\ Settings \subseteq Setting
  /\ OutBufs \in Nat /\ OutBufs >= 2 /\ MaxReturn \in Nat \ {0}
  /\ SourceCache \in Nat \ {0} /\ CompCache \in Nat \ {0} /\ TestDepth \in Nat \ {0}
  /\ MaxInputs \in Nat /\ MaxFailures \in Nat

VARIABLES
  parameters,
  inputs,               (* the frames given                                 *)
  sources,              (* m_sourceCache                                    *)
  stage,                (* what each filter that holds frames back has      *)
  helper,               (* m_retouchCompFilters: what each has in its cache *)
                        (* and what of it it has not worked on              *)
  stored,               (* m_pendingCompRefs                                *)
  ring,                 (* m_frameBuf                                       *)
  slot,                 (* m_outputBufferIndex                              *)
  pendingOut,           (* m_pendingOutputFrames                            *)
  at,                   (* the stage that is to run next                    *)
  frame,                (* the frame it gets, or a drain tick               *)
  second,               (* the second frame bob has made of the input       *)
  outs,                 (* ppOutputFrames                                   *)
  left,                 (* the places left in it for the caller to take     *)
  drainAt,              (* m_drainFilterIdx                                 *)
  drained,              (* m_drainComplete                                  *)
  drainAsked,           (* history: the drain has begun,                    *)
  drainEnded,           (* and has had an empty answer                      *)
  put,                  (* history: the frames the caller has got           *)
  missed,               (* history: frames that went without something      *)
  failures              (* history: the steps that failed                   *)

caches  == << sources, stage, helper, stored >>
outputs == << ring, slot, pendingOut, outs >>
control == << at, frame, second, left, drainAt, drained, drainAsked, drainEnded >>
chainVars == << parameters, inputs, caches, outputs, control, put, missed, failures >>

(* The frame of a drain tick. *)
Tick == -1

Filters == {"prefilter", "analyze", "tr1", "tr2"}
Helpers == {"back", "forw"}

(* The stages, in the order a frame visits them. *)
After ==
  [prefilter |-> "analyze", analyze |-> "edi", edi |-> "tr1", tr1 |-> "retouch",
   retouch |-> "tr2", tr2 |-> "sink"]

(* What a frame may go without: its input, its envelope, the frames the    *)
(* envelope's pointers were to, and the vectors.                           *)
Needs == {"source", "limit", "refs", "vectors"}

ChainInit ==
  /\ parameters \in Settings
  /\ inputs = 0
  /\ sources = << >>
  /\ stage = [s \in Filters |-> EmptyStage]
  /\ helper = [h \in Helpers |-> [hold |-> << >>, cache |-> << >>, bound |-> Tick]]
  /\ stored = {}
  /\ ring = [b \in 0 .. OutBufs - 1 |-> Tick]
  /\ slot = 0
  /\ pendingOut = << >>
  /\ at = "idle"
  /\ frame = Tick
  /\ second = Tick
  /\ outs = << >>
  /\ left = 0
  /\ drainAt = "prefilter"
  /\ drained = FALSE
  /\ drainAsked = FALSE
  /\ drainEnded = FALSE
  /\ put = << >>
  /\ missed = [n \in Needs |-> {}]
  /\ failures = 0

-----------------------------------------------------------------------------
(* What init() makes of the parameters                                     *)

Most(a, b) == IF a < b THEN b ELSE a

(* rtgmcNestedAnalyzeDelta(): the analysis reaches as far as whoever uses it. *)
NestedDelta == Most(Most(1, parameters.analyze), Most(parameters.tr1, parameters.tr2))

(* The stage is there. *)
Enabled(s) == s = "tr2" => parameters.tr2 > 0

(* The frames the analysis' search luma is made of count where it is waited for. *)
Search == IF parameters.lowLatency THEN 0 ELSE parameters.tr0

(* outputDelay() of the stage *)
Delay(s) ==
  CASE s = "prefilter" -> parameters.tr0
    [] s = "analyze" -> NestedDelta + parameters.tr0
    [] s = "tr1" -> parameters.tr1 + Search
    [] s = "tr2" -> parameters.tr2 + Search

(* outputDelay() of the helpers, which are TR1 with a delta of 1. *)
HelperDelay == 1 + Search

(* Mutant of DepthOf: the prefilter does not wait for its test. *)
DepthOfDegrain(s) == IF s \in {"tr1", "tr2"} /\ ~ parameters.lowLatency THEN TestDepth ELSE 0

(* How many frames wait for their scene-change test. *)
DepthOf(s) ==
  CASE s = "prefilter" -> 1
    [] s = "analyze" -> 0
    [] OTHER -> IF parameters.lowLatency THEN 0 ELSE TestDepth

(* Mutant of Copied: vectors are copied that could be used where they are. *)
CopiedEver == TRUE

(* degrainLayoutCompatibleSubset(): the vectors are those of a longer      *)
(* search, and the helpers copy what they need of them into a workspace.   *)
Copied == NestedDelta # 1

-----------------------------------------------------------------------------
(* The stages that hold frames back                                        *)

(* A drain tick to the prefilter: unlike the others it submits a frame's   *)
(* test and resolves the oldest in one call.                               *)
PrefilterTicked(st) ==
  LET hold == IF st.hold = << >> THEN << >> ELSE Tail(st.hold)
      q    == IF st.hold = << >> THEN st.pending ELSE Append(st.pending, Head(st.hold))
  IN  IF q # << >> THEN Puts(hold, q) ELSE Silent(hold, q)

Answer(s) ==
  IF frame # Tick THEN StageFed(stage[s], frame, Delay(s), DepthOf(s))
  ELSE IF s = "prefilter" THEN PrefilterTicked(stage[s])
  ELSE StageTicked(stage[s], DepthOf(s))

(* The stage is left with hold and pending. *)
Left(s, hold, q) == stage' = [stage EXCEPT ![s] = [hold |-> hold, pending |-> q]]

(* What the prefilter may be left with by a call that fails before the     *)
(* frame counts, when a test is submitted, and when one is resolved.       *)
PrefilterAfterFailure(st, answer) ==
  {st}
    \cup (IF frame = Tick THEN {} ELSE {[hold |-> answer.hold, pending |-> st.pending]})
    \cup (IF answer.out = {} THEN {} ELSE {[hold |-> answer.hold, pending |-> answer.pending]})

LeftByFailure(s) ==
  IF s = "prefilter" THEN PrefilterAfterFailure(stage[s], Answer(s))
  ELSE StageAfterFailure(stage[s], Answer(s))

-----------------------------------------------------------------------------
(* The helpers and what is stored of theirs                                *)

(* Mutant of Cached: no frame ever makes room. *)
CachedLong(q, size, f) == Append(q, f)

(* Mutant of Cached: the cache is a frame smaller. *)
CachedShort(q, size, f) == Append(IF Len(q) < size - 1 THEN q ELSE Tail(q), f)

(* A cache of size frames takes f. *)
Cached(q, size, f) == Append(IF Len(q) < size THEN q ELSE Tail(q), f)

(* resolveFrames(): the frames around f in a cache, and f itself. *)
Around(q, f) ==
  LET i == CHOOSE i \in 1 .. Len(q) : q[i] = f
  IN  {q[j] : j \in {i - 1, i, i + 1} \cap (1 .. Len(q))}

(* feedFrameOnly() *)
HelperFed(h, f) ==
  [helper[h] EXCEPT !.hold = Append(@, f), !.cache = Cached(@, CompCache, f)]

(* outputReady(), and drainReady() for a tick *)
Ready(x) == Len(x.hold) > (IF frame = Tick THEN 0 ELSE HelperDelay)

(* buildCompensateInlineParams(): the vectors of the frame are bound.  The *)
(* frame is passed over if that fails.                                     *)
Built(x) ==
  IF Ready(x) THEN [x EXCEPT !.hold = Tail(@), !.bound = Head(x.hold)] ELSE x

(* A helper's next turn, with the frame or a drain tick. *)
Turn(h) == IF frame = Tick THEN helper[h] ELSE HelperFed(h, frame)

(* The pointers to store for the frame. *)
RefsOf(x) == IF Ready(x) THEN Around(x.cache, Head(x.hold)) ELSE {}

(* updateCompReferenceStore(), and a round of drainCompReferenceStore():   *)
(* what both helpers make is stored as one, for the frame of the first.    *)
Store ==
  LET back == Turn("back")
      forw == Turn("forw")
      f    == IF Ready(back) THEN Head(back.hold) ELSE Head(forw.hold)
  IN  /\ helper' = [back |-> Built(back), forw |-> Built(forw)]
      /\ stored' = IF ~ Ready(back) /\ ~ Ready(forw) THEN stored
                   ELSE {e \in stored : e.frame # f}
                          \cup {[frame |-> f, back |-> RefsOf(back), forw |-> RefsOf(forw)]}

(* Mutant of HelpersLeft: the helpers are not drained. *)
HelpersLeftAlone == FALSE

(* A helper has frames a drain must bring out. *)
HelpersLeft == \E h \in Helpers : helper[h].hold # << >>

(* f went without what the needs of ns stand for. *)
Misses(ns, f) == missed' = [n \in Needs |-> IF n \in ns THEN missed[n] \cup {f} ELSE missed[n]]

(* The envelope of f is stored; what its pointers are to is there; and so  *)
(* are the vectors.                                                        *)
Envelope(f) == {e \in stored : e.frame = f}

RefsIntact(e) ==
  /\ e.back \subseteq {helper["back"].cache[i] : i \in DOMAIN helper["back"].cache}
  /\ e.forw \subseteq {helper["forw"].cache[i] : i \in DOMAIN helper["forw"].cache}

(* Whose vectors the pointer stored for f is to. *)
VectorsAt(f) == IF Copied THEN helper["back"].bound ELSE f

(* What the limit of frame f goes without. *)
LimitMisses(f) ==
  IF ~ parameters.limit THEN {}
  ELSE IF Envelope(f) = {} THEN {"limit"}
  ELSE (IF \A e \in Envelope(f) : RefsIntact(e) THEN {} ELSE {"refs"})
         \cup (IF VectorsAt(f) = f THEN {} ELSE {"vectors"})

-----------------------------------------------------------------------------
(* From one step to the next                                               *)

(* Frame f goes on to stage s. *)
Goes(s, f) ==
  at' = s /\ frame' = f /\ UNCHANGED << second, left, drainAt, drained, drainAsked, drainEnded >>

(* Mutant of CascadeEnds: the drain goes on after an answer. *)
CascadeEndsLate ==
  /\ at' = IF drainAsked THEN drainAt ELSE IF second # Tick THEN "prefilter" ELSE "return"
  /\ frame' = second
  /\ second' = Tick
  /\ UNCHANGED << left, drainAt, drained, drainAsked, drainEnded >>

(* Nothing is left of this frame or tick: the second frame's turn has      *)
(* come, or the call's end; a drain that has put nothing in m_pending-     *)
(* OutputFrames ticks the same stage again.                                *)
CascadeEnds ==
  /\ at' = IF drainAsked THEN (IF pendingOut' = << >> THEN drainAt ELSE "return")
           ELSE IF second # Tick THEN "prefilter" ELSE "return"
  /\ frame' = second
  /\ second' = Tick
  /\ UNCHANGED << left, drainAt, drained, drainAsked, drainEnded >>

(* The stage that drainFrom() is at has nothing more: it goes on to the    *)
(* next.                                                                   *)
StageDrained ==
  /\ drainAt' = After[drainAt]
  /\ drained' = (drainAt' = "sink")
  /\ at' = IF drained' THEN "return" ELSE drainAt'
  /\ frame' = Tick
  /\ UNCHANGED << second, left, drainAsked, drainEnded >>

(* The call breaks off with an error.  What a push has put out is lost,    *)
(* like the second frame; the caller has given both all the same.          *)
CallFails ==
  /\ failures' = failures + 1
  /\ at' = IF drainAsked THEN "idle" ELSE "return"
  /\ frame' = Tick
  /\ second' = Tick
  /\ outs' = << >>
  /\ UNCHANGED << left, drainAt, drained, drainAsked, drainEnded >>

-----------------------------------------------------------------------------
(* run_filter() with a frame                                               *)

(* cacheSourceFrame(), and bob makes two frames of it. *)
Push ==
  /\ at = "idle"
  /\ ~ drainAsked
  /\ inputs < parameters.inputs
  /\ inputs' = inputs + 1
  /\ sources' = Cached(sources, SourceCache, inputs)
  /\ at' = "prefilter"
  /\ frame' = 2 * inputs
  /\ second' = 2 * inputs + 1
  /\ left' = 2
  /\ drainAt' = "prefilter"
  /\ drained' = FALSE
  /\ UNCHANGED << parameters, stage, helper, stored, outputs, drainAsked, drainEnded, put,
                  missed, failures >>

(* TR2 where it is off: a frame passes, and there is nothing to drain. *)
PassThrough ==
  /\ at \in Filters
  /\ ~ Enabled(at)
  /\ IF frame = Tick THEN StageDrained ELSE Goes(After[at], frame)
  /\ UNCHANGED << parameters, inputs, caches, outputs, put, missed, failures >>

(* The prefilter, the analysis, TR1 or TR2: what comes out goes on to the  *)
(* next stage.                                                             *)
RunTemporal ==
  /\ at \in Filters
  /\ Enabled(at)
  /\ UNCHANGED << parameters, inputs, sources, helper, stored, outputs, put, missed, failures >>
  /\ LET answer == Answer(at)
     IN  /\ Left(at, answer.hold, answer.pending)
         /\ \/ \E f \in answer.out : Goes(After[at], f)
            \/ answer.out = {} /\ frame # Tick /\ CascadeEnds
            \/ answer.out = {} /\ frame = Tick /\ StageDrained

(* EDI holds nothing back.  Its frame goes to the helpers before it goes   *)
(* on; when it has nothing to drain, they have.                            *)
RunEdi ==
  /\ at = "edi"
  /\ IF frame = Tick
     THEN /\ IF parameters.limit /\ HelpersLeft
             THEN Store /\ UNCHANGED control
             ELSE StageDrained /\ UNCHANGED << helper, stored >>
          /\ UNCHANGED missed
     ELSE /\ Goes(After[at], frame)
          /\ IF parameters.limit THEN Store ELSE UNCHANGED << helper, stored >>
          /\ Misses(IF \E i \in DOMAIN sources : sources[i] = frame \div 2 THEN {}
                    ELSE {"source"}, frame)
  /\ UNCHANGED << parameters, inputs, sources, stage, outputs, put, failures >>

(* The retouch holds nothing back either. *)
RunRetouch ==
  /\ at = "retouch"
  /\ IF frame = Tick
     THEN StageDrained /\ UNCHANGED missed
     ELSE Goes(After[at], frame) /\ Misses(LimitMisses(frame), frame)
  /\ UNCHANGED << parameters, inputs, caches, outputs, put, failures >>

(* Mutant of Advance: every frame goes to the same buffer. *)
AdvanceNot == slot' = slot

Advance == slot' = (slot + 1) % OutBufs

(* runThrough() behind the last stage: the frame is copied to a buffer of  *)
(* the filter's own, and its envelope is done with.                        *)
Sink ==
  /\ at = "sink"
  /\ ring' = [ring EXCEPT ![slot] = frame]
  /\ Advance
  /\ stored' = stored \ Envelope(frame)
  /\ outs' = IF drainAsked THEN outs ELSE Append(outs, slot)
  /\ pendingOut' = IF drainAsked THEN Append(pendingOut, slot) ELSE pendingOut
  /\ CascadeEnds
  /\ UNCHANGED << parameters, inputs, sources, stage, helper, put, missed, failures >>

-----------------------------------------------------------------------------
(* The answer                                                              *)

(* The caller reads the next buffer of queue q. *)
Taken(q) == put' = Append(put, ring[Head(q)])

(* The end of a push: the caller gets what it has put out. *)
PushReturns ==
  /\ at = "return"
  /\ ~ drainAsked
  /\ left' = left - 1
  /\ IF outs # << >> THEN Taken(outs) /\ outs' = Tail(outs) ELSE UNCHANGED << put, outs >>
  /\ at' = IF left' = 0 THEN "idle" ELSE at
  /\ UNCHANGED << parameters, inputs, caches, ring, slot, pendingOut, frame, second, drainAt,
                  drained, drainAsked, drainEnded, missed, failures >>

(* returnPendingFrames().  The caller takes an empty answer for the end. *)
DrainReturns ==
  /\ at = "return"
  /\ drainAsked
  /\ IF pendingOut # << >> /\ left > 0
     THEN /\ Taken(pendingOut)
          /\ pendingOut' = Tail(pendingOut)
          /\ left' = left - 1
          /\ UNCHANGED << at, drainEnded >>
     ELSE /\ at' = "idle"
          /\ drainEnded' = (left = MaxReturn)
          /\ UNCHANGED << put, pendingOut, left >>
  /\ UNCHANGED << parameters, inputs, caches, ring, slot, outs, frame, second, drainAt, drained,
                  drainAsked, missed, failures >>

-----------------------------------------------------------------------------
(* run_filter() without a frame                                            *)

(* The caller begins to drain, or does so again after a failure. *)
AskChain ==
  /\ at = "idle"
  /\ ~ drainAsked \/ failures > 0
  /\ drainAsked' = TRUE
  /\ drainEnded' = FALSE
  /\ UNCHANGED << parameters, inputs, caches, outputs, at, frame, second, left, drainAt, drained,
                  put, missed, failures >>

(* A drain call: what is pending comes first, and drainFrom() after that,  *)
(* from where it has come to.                                              *)
Drain ==
  /\ at = "idle"
  /\ drainAsked
  /\ ~ drainEnded
  /\ at' = IF pendingOut # << >> \/ drained THEN "return" ELSE drainAt
  /\ frame' = Tick
  /\ left' = MaxReturn
  /\ UNCHANGED << parameters, inputs, caches, outputs, second, drainAt, drained, drainAsked,
                  drainEnded, put, missed, failures >>

-----------------------------------------------------------------------------
(* Failures                                                                *)

MayFail == parameters.faults /\ failures < MaxFailures

(* cacheSourceFrame() or bob fails. *)
InputFails ==
  /\ at = "idle"
  /\ ~ drainAsked
  /\ MayFail
  /\ inputs < parameters.inputs
  /\ inputs' = inputs + 1
  /\ sources' \in {sources, Cached(sources, SourceCache, inputs)}
  /\ failures' = failures + 1
  /\ at' = "return"
  /\ left' = 2
  /\ drainAt' = "prefilter"
  /\ drained' = FALSE
  /\ UNCHANGED << parameters, stage, helper, stored, outputs, frame, second, drainAsked,
                  drainEnded, put, missed >>

(* A stage that holds frames back fails. *)
FilterFails ==
  /\ at \in Filters
  /\ Enabled(at)
  /\ MayFail
  /\ \E st \in LeftByFailure(at) : stage' = [stage EXCEPT ![at] = st]
  /\ CallFails
  /\ UNCHANGED << parameters, inputs, sources, helper, stored, ring, slot, pendingOut,
                  put, missed >>

(* EDI fails, or one of its helpers; then nothing is stored. *)
EdiFails ==
  /\ at = "edi"
  /\ MayFail
  /\ frame = Tick => parameters.limit /\ HelpersLeft
  /\ \E hs \in {{}, {"back"}, Helpers} :
       /\ hs # {} => parameters.limit
       /\ helper' = [h \in Helpers |-> IF h \in hs THEN Built(Turn(h)) ELSE helper[h]]
  /\ CallFails
  /\ UNCHANGED << parameters, inputs, sources, stage, stored, ring, slot, pendingOut, put,
                  missed >>

(* The retouch fails, or the copy to the output buffer. *)
StepFails ==
  /\ at \in {"retouch", "sink"}
  /\ frame # Tick
  /\ MayFail
  /\ IF at = "sink" THEN Advance ELSE UNCHANGED slot
  /\ CallFails
  /\ UNCHANGED << parameters, inputs, caches, ring, pendingOut, put, missed >>

RunStage ==
  PassThrough \/ RunTemporal \/ RunEdi \/ RunRetouch \/ Sink \/ DrainReturns \/ Drain

ChainNext ==
  \/ Push \/ RunStage \/ PushReturns \/ AskChain
  \/ InputFails \/ FilterFails \/ EdiFails \/ StepFails

(* A drain that has begun goes on until it ends or a step fails. *)
ChainSpec ==
  ChainInit /\ [][ChainNext]_chainVars /\ WF_chainVars(drainAsked /\ failures = 0 /\ RunStage)

-----------------------------------------------------------------------------

Frames == 0 .. 2 * MaxInputs - 1

(* Every variable has its type, and no stage and no cache outgrows what it *)
(* is made for.                                                            *)
ChainTypeOK ==
  /\ parameters \in Settings
  /\ inputs \in 0 .. parameters.inputs
  /\ sources \in Seq(Frames) /\ Len(sources) <= SourceCache
  /\ \A s \in Filters :
       /\ stage[s].hold \in Seq(Frames) /\ Len(stage[s].hold) <= Delay(s)
       /\ stage[s].pending \in Seq(Frames) /\ Len(stage[s].pending) <= DepthOf(s)
  /\ \A h \in Helpers :
       /\ helper[h].hold \in Seq(Frames) /\ Len(helper[h].hold) <= HelperDelay
       /\ helper[h].cache \in Seq(Frames) /\ Len(helper[h].cache) <= CompCache
       /\ helper[h].bound \in Frames \cup {Tick}
  /\ \A e \in stored : e.frame \in Frames /\ e.back \subseteq Frames /\ e.forw \subseteq Frames
  /\ ring \in [0 .. OutBufs - 1 -> Frames \cup {Tick}]
  /\ slot \in 0 .. OutBufs - 1
  /\ pendingOut \in Seq(0 .. OutBufs - 1) /\ outs \in Seq(0 .. OutBufs - 1)
  /\ at \in DOMAIN After \cup {"sink", "return", "idle"}
  /\ drainAt \in DOMAIN After \cup {"sink"}
  /\ frame \in Frames \cup {Tick} /\ second \in Frames \cup {Tick}
  /\ left \in 0 .. Most(2, MaxReturn)
  /\ drained \in BOOLEAN /\ drainAsked \in BOOLEAN /\ drainEnded \in BOOLEAN
  /\ put \in Seq(Frames)
  /\ \A n \in Needs : missed[n] \subseteq Frames
  /\ failures \in 0 .. MaxFailures

(* How many frames stage s holds back. *)
Lag(s) == IF Enabled(s) THEN Delay(s) + DepthOf(s) ELSE 0

(* EDI finds the input of every frame: the cache outlasts the two stages   *)
(* in front of it, with any parameters init() accepts.  A failed step may  *)
(* leave an input in it whose frames are lost, while older ones wait.      *)
SourceAtHand ==
  2 * (SourceCache - failures) > Lag("prefilter") + Lag("analyze") + 1 => missed["source"] = {}

(* When the retouch gets a frame its envelope is stored, the last frames   *)
(* of the stream included, and no frame it is made of has been overwritten *)
(* in the helpers' caches while TR1 kept the frame.                        *)
EnvelopeWhole ==
  failures = 0 =>
    /\ missed["limit"] = {}
    /\ CompCache >= Lag("tr1") + 2 => missed["refs"] = {}

(* The envelope is built with the frame's own vectors where the helpers    *)
(* use those of the analysis where they are, or keep pace with TR1.        *)
OwnLimitVectors ==
  failures = 0 /\ (NestedDelta = 1 \/ Lag("tr1") = HelperDelay) => missed["vectors"] = {}

(* No call leaves a frame behind for the next one to hand out: between     *)
(* calls, failed ones included, m_pendingOutputFrames is empty, so that a  *)
(* frame given after a flush that failed does not come out of turn.        *)
NothingPending == at = "idle" => pendingOut = << >>

(* As long as no step has failed the filter is n frames behind its input. *)
BacklogIs(n) ==
  at = "idle" /\ failures = 0 /\ ~ drainAsked =>
    Len(put) = IF 2 * inputs > n THEN 2 * inputs - n ELSE 0

(* The frames in the filter, and those of them whose call has returned. *)
InChain ==
  (UNION {InStage(stage[s]) : s \in Filters})
    \cup ({frame, second} \ {Tick})
    \cup {ring[outs[i]] : i \in DOMAIN outs}
    \cup {ring[pendingOut[i]] : i \in DOMAIN pendingOut}

Given == 2 * inputs - (IF ~ drainAsked /\ at # "idle" THEN left ELSE 0)

HeldInChain == InChain \cap (0 .. Given - 1)

(* The pass RtgmDif takes the filter to be. *)
ChainAsPass ==
  INSTANCE Pass WITH
    MaxIn <- 2 * MaxInputs, given <- Given, held <- HeldInChain, asked <- drainAsked,
    ended <- drainEnded, failed <- failures > 0

(* The filter is one, with two frames for every one it is given: every     *)
(* frame comes out once and in order, from a buffer that no later frame    *)
(* has gone to, and a drain brings out all of them, or possibly nothing of *)
(* a stream too short for anything to have come out.                       *)
ChainImplementsPass == ChainAsPass!Spec
=============================================================================
