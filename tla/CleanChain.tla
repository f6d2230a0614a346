----------------------------- MODULE CleanChain -----------------------------
(***************************************************************************)
(* CleanChain (RtgmDif.cpp), the second pass of a two-pass flow:           *)
(*                                                                         *)
(*   analyze -> TR1 -> rep1 -> retouch -> TR2 -> rep2 -> sink              *)
(*                                                                         *)
(* Every frame is kept in a ring when it comes in, as the reference of the *)
(* shimmer repairs and of the sharpness limit, which find it again by its  *)
(* timestamp many frames later.  Two motion compensating passes run beside *)
(* the chain, behind the analysis, and fill two more rings for the limit.  *)
(*                                                                         *)
(* A frame is its number in the chain's input, which is its timestamp too. *)
(* A push, like a drain tick, is a series of steps: `at' is the stage that *)
(* has the frame.  A stage that holds frames back does so as Degrain says. *)
(***************************************************************************)
EXTENDS Integers, Sequences, FiniteSets, Stages

CONSTANTS
  Settings,             (* what init() may be called with                   *)
  RefPool,              (* CLEAN_REF_POOL                                   *)
  CompPool,             (* CLEAN_COMP_POOL                                  *)
  Depth,                (* SCENE_CHANGE_PIPELINE_DEPTH                      *)
  MaxIn,                (* Bound on the frames pushed                       *)
  MaxFails              (* Bound on the steps that fail                     *)

(* The parameters init() accepts (NVEncFilterDegrain::checkParam()); faults *)
(* says whether steps may fail, frames bounds how many are pushed.          *)
Setting ==
  [tr0 : 0 .. 2, analyze : 0 .. 5, tr1 : 0 .. 2, tr2 : 0 .. 5, rep1 : BOOLEAN,
   rep2 : BOOLEAN, limit : BOOLEAN, lowLatency : BOOLEAN, faults : BOOLEAN,
   frames : 0 .. MaxIn]

ASSUME ChainAssumption ==
  /\ Settings \subseteq Setting
  /\ RefPool \in Nat \ {0} /\ CompPool \in Nat \ {0} /\ Depth \in Nat
  /\ MaxIn \in Nat /\ MaxFails \in Nat

VARIABLES
  setting,
  given,                (* the frames pushed                                *)
  stage,                (* what each filter that holds frames back has      *)
  refRing, backRing, forwRing,
  at,                   (* the stage that is to run next                    *)
  frame,                (* the frame it gets, or a drain tick               *)
  drainAt,              (* the stage drain() is at                          *)
  asked,                (* history: drain() has been called,                *)
  ended,                (* and has come to its end                          *)
  put,                  (* history: the frames given to the sink            *)
  unrepaired,           (* history: frames a repair had no reference for    *)
  unlimited,            (* history: frames without a whole envelope         *)
  refPeak,              (* m_refRing.peak                                   *)
  fails                 (* history: the steps that failed                   *)

rings   == << refRing, backRing, forwRing >>
control == << at, frame, drainAt, asked, ended >>
missed  == << unrepaired, unlimited >>
chainVars == << setting, given, stage, rings, control, put, missed, refPeak, fails >>

(* The frame of a drain tick. *)
Tick == -1

Filters == {"analyze", "compb", "compf", "tr1", "tr2"}
Comps   == {"compb", "compf"}
Repairs == {"rep1", "rep2"}

(* The stages, in the order a frame visits them: feedCompensate() comes    *)
(* between the analysis and TR1, and drainCompensate() as well.            *)
After ==
  [analyze |-> "compb", compb |-> "compf", compf |-> "tr1", tr1 |-> "rep1", rep1 |-> "retouch",
   retouch |-> "tr2", tr2 |-> "rep2", rep2 |-> "sink"]

ChainInit ==
  /\ setting \in Settings
  /\ given = 0
  /\ stage = [s \in Filters |-> EmptyStage]
  /\ refRing = << >> /\ backRing = << >> /\ forwRing = << >>
  /\ at = "idle"
  /\ frame = Tick
  /\ drainAt = "idle"
  /\ asked = FALSE
  /\ ended = FALSE
  /\ put = << >>
  /\ unrepaired = {}
  /\ unlimited = {}
  /\ refPeak = 0
  /\ fails = 0

-----------------------------------------------------------------------------
(* What init() makes of the parameters                                     *)

Most(a, b) == IF a < b THEN b ELSE a

(* nestedDelta: the analysis reaches as far as whoever uses it. *)
AnalyzeDelta == Most(Most(1, setting.analyze), Most(setting.tr1, setting.tr2))

(* Mutant of NeedRef: the repair at the end does not ask for it. *)
NeedRefOfRep1 == setting.rep1

(* m_needRef: the reference ring is allocated for the repairs. *)
NeedRef == setting.rep1 \/ setting.rep2

(* The stage is there; the analysis and the retouch always are. *)
Enabled(s) ==
  CASE s = "tr1" -> setting.tr1 > 0
    [] s = "tr2" -> setting.tr2 > 0
    [] s = "rep1" -> setting.rep1
    [] s = "rep2" -> setting.rep2
    [] s \in Comps -> setting.limit
    [] OTHER -> TRUE

(* NVEncFilterDegrain::outputDelay() of the stage: the two compensating    *)
(* passes have delta 1 and tr0 0.                                          *)
Delay(s) ==
  CASE s = "analyze" -> AnalyzeDelta + setting.tr0
    [] s \in Comps -> 1
    [] s = "tr1" -> setting.tr1 + (IF setting.lowLatency THEN 0 ELSE setting.tr0)
    [] s = "tr2" -> setting.tr2 + (IF setting.lowLatency THEN 0 ELSE setting.tr0)

(* How many frames wait for their scene-change test. *)
PipelineDepth(s) == IF s \in {"tr1", "tr2"} /\ ~ setting.lowLatency THEN Depth ELSE 0

-----------------------------------------------------------------------------
(* The rings, which FrameRing has in detail                                *)

(* push() to a ring of size buffers: the oldest entries make room. *)
Room(q, size) == IF Len(q) < size THEN q ELSE SubSeq(q, Len(q) - size + 2, Len(q))

Retained(q, size, f) == Append(Room(q, size), f)

(* Mutant of PrunedUpTo: the entry of the frame itself is kept. *)
PrunedBefore(q, f) ==
  LET n == CHOOSE n \in 0 .. Len(q) :
             /\ \A i \in 1 .. n : q[i] < f
             /\ n < Len(q) => q[n + 1] >= f
  IN  SubSeq(q, n + 1, Len(q))

(* dropUpTo() *)
PrunedUpTo(q, f) ==
  LET n == CHOOSE n \in 0 .. Len(q) :
             /\ \A i \in 1 .. n : q[i] <= f
             /\ n < Len(q) => q[n + 1] > f
  IN  SubSeq(q, n + 1, Len(q))

(* find(): the ring has the frame. *)
Has(q, f) == \E i \in 1 .. Len(q) : q[i] = f

-----------------------------------------------------------------------------
(* A stage that holds frames back                                          *)

(* Mutant of Fed: a frame too many is held back. *)
FedLate(s, f) == StageFed(stage[s], f, Delay(s) + 1, PipelineDepth(s))

(* It is given frame f. *)
Fed(s, f) == StageFed(stage[s], f, Delay(s), PipelineDepth(s))

(* Mutant of Ticked: the frames that wait for their test are left. *)
TickedHoldOnly(s) ==
  IF stage[s].hold # << >> THEN StageTicked(stage[s], PipelineDepth(s))
  ELSE Silent(<< >>, stage[s].pending)

(* It is given a drain tick. *)
Ticked(s) == StageTicked(stage[s], PipelineDepth(s))

Answer(s) == IF frame = Tick THEN Ticked(s) ELSE Fed(s, frame)

(* The stage is left with what the answer says. *)
Left(s, answer) ==
  stage' = [stage EXCEPT ![s] = [hold |-> answer.hold, pending |-> answer.pending]]

-----------------------------------------------------------------------------
(* From one step to the next                                               *)

(* Frame f goes on to stage s. *)
Goes(s, f) == at' = s /\ frame' = f /\ UNCHANGED << drainAt, asked, ended >>

(* Nothing is left of this push or tick.  drain() ticks the same stage     *)
(* again, for it has put something out.                                    *)
CascadeEnds ==
  /\ at' = IF asked THEN drainAt ELSE "idle"
  /\ frame' = Tick
  /\ UNCHANGED << drainAt, asked, ended >>

(* Mutant of StageDrained: the compensating passes are left out.           *)
StageDrainedPassingBy ==
  /\ drainAt' = IF drainAt = "analyze" THEN "tr1" ELSE After[drainAt]
  /\ at' = IF drainAt' = "sink" THEN "idle" ELSE drainAt'
  /\ frame' = Tick
  /\ ended' = (drainAt' = "sink")
  /\ UNCHANGED asked

(* The stage that drain() is at has nothing more: drain() goes on to the   *)
(* next.                                                                   *)
StageDrained ==
  /\ drainAt' = After[drainAt]
  /\ at' = IF drainAt' = "sink" THEN "idle" ELSE drainAt'
  /\ frame' = Tick
  /\ ended' = (drainAt' = "sink")
  /\ UNCHANGED asked

(* The call breaks off with an error; frame is lost. *)
CallFails ==
  /\ fails' = fails + 1
  /\ at' = "idle"
  /\ frame' = Tick
  /\ UNCHANGED << drainAt, asked, ended >>

(* m_refRing.push() *)
Keep(f) ==
  IF NeedRef
  THEN /\ refRing' = Retained(refRing, RefPool, f)
       /\ refPeak' = Most(refPeak, Len(refRing'))
  ELSE UNCHANGED << refRing, refPeak >>

(* push() *)
PushFrame ==
  /\ at = "idle"
  /\ ~ asked
  /\ given < setting.frames
  /\ given' = given + 1
  /\ Keep(given)
  /\ Goes("analyze", given)
  /\ UNCHANGED << setting, stage, backRing, forwRing, put, missed, fails >>

(* A stage that is off passes a frame on, and has nothing to drain. *)
PassThrough ==
  /\ at \in DOMAIN After
  /\ ~ Enabled(at)
  /\ IF frame = Tick THEN StageDrained ELSE Goes(After[at], frame)
  /\ UNCHANGED << setting, given, stage, rings, put, missed, refPeak, fails >>

(* The analysis, TR1 or TR2: what comes out goes on to the next stage. *)
RunTemporal ==
  /\ at \in Filters \ Comps
  /\ Enabled(at)
  /\ LET answer == Answer(at)
     IN  /\ Left(at, answer)
         /\ \/ \E f \in answer.out : Goes(After[at], f)
            \/ answer.out = {} /\ frame # Tick /\ CascadeEnds
            \/ answer.out = {} /\ frame = Tick /\ StageDrained
  /\ UNCHANGED << setting, given, rings, put, missed, refPeak, fails >>

(* The ring of a compensating pass takes f. *)
KeepComp(s, f) ==
  /\ backRing' = IF s = "compb" THEN Retained(backRing, CompPool, f) ELSE backRing
  /\ forwRing' = IF s = "compf" THEN Retained(forwRing, CompPool, f) ELSE forwRing

(* feedCompensate() and drainCompensate() for one of the two passes: what  *)
(* comes out goes to its ring, and the frame on to the next.  (The eight   *)
(* ticks drainCompensate() allows are seven more than there are frames.)   *)
RunComp ==
  /\ at \in Comps
  /\ Enabled(at)
  /\ LET answer == Answer(at)
     IN  /\ Left(at, answer)
         /\ \/ \E f \in answer.out : KeepComp(at, f)
            \/ answer.out = {} /\ UNCHANGED << backRing, forwRing >>
         /\ IF frame # Tick THEN Goes(After[at], frame)
            ELSE IF answer.out = {} THEN StageDrained ELSE CascadeEnds
  /\ UNCHANGED << setting, given, refRing, put, missed, refPeak, fails >>

(* A shimmer repair holds nothing back.  Without a reference the frame is  *)
(* passed on as it is.                                                     *)
RunRepair ==
  /\ at \in Repairs
  /\ Enabled(at)
  /\ IF frame = Tick
     THEN StageDrained /\ UNCHANGED unrepaired
     ELSE /\ Goes(After[at], frame)
          /\ unrepaired' = IF Has(refRing, frame) THEN unrepaired ELSE unrepaired \cup {frame}
  /\ UNCHANGED << setting, given, stage, rings, put, unlimited, refPeak, fails >>

(* applyLimitFrames(): the envelope of f is whole. *)
EnvelopeOf(f) == Has(refRing, f) /\ Has(backRing, f) /\ Has(forwRing, f)

(* Before the retouch runs, the frame's envelope is looked up. *)
ApplyLimit ==
  unlimited' = IF at = "retouch" /\ setting.limit /\ ~ EnvelopeOf(frame)
               THEN unlimited \cup {frame} ELSE unlimited

(* The retouch holds nothing back.  The envelope is spent afterwards. *)
RunRetouch ==
  /\ at = "retouch"
  /\ IF frame = Tick
     THEN StageDrained /\ UNCHANGED << backRing, forwRing, unlimited >>
     ELSE /\ Goes(After[at], frame)
          /\ ApplyLimit
          /\ backRing' = PrunedUpTo(backRing, frame)
          /\ forwRing' = PrunedUpTo(forwRing, frame)
  /\ UNCHANGED << setting, given, stage, refRing, put, unrepaired, refPeak, fails >>

(* The frame leaves: its reference and those before it are spent. *)
Sink ==
  /\ at = "sink"
  /\ put' = Append(put, frame)
  /\ refRing' = PrunedUpTo(refRing, frame)
  /\ CascadeEnds
  /\ UNCHANGED << setting, given, stage, backRing, forwRing, missed, refPeak, fails >>

(* drain() is called, or called again after a failure. *)
Ask ==
  /\ at = "idle"
  /\ ~ asked \/ fails > 0
  /\ asked' = TRUE
  /\ ended' = FALSE
  /\ drainAt' = "analyze"
  /\ at' = "analyze"
  /\ UNCHANGED << setting, given, stage, rings, frame, put, missed, refPeak, fails >>

-----------------------------------------------------------------------------
(* Failures                                                                *)

MayFail == setting.faults /\ fails < MaxFails

(* push() fails to keep the reference: there is room for one, and the      *)
(* frame is not passed on.                                                 *)
KeepFails ==
  /\ at = "idle"
  /\ ~ asked
  /\ MayFail
  /\ NeedRef
  /\ given < setting.frames
  /\ given' = given + 1
  /\ refRing' = Room(refRing, RefPool)
  /\ CallFails
  /\ UNCHANGED << setting, stage, backRing, forwRing, put, missed, refPeak >>

(* A stage that holds frames back fails. *)
FilterFails ==
  /\ at \in Filters
  /\ Enabled(at)
  /\ MayFail
  /\ \E left \in StageAfterFailure(stage[at], Answer(at)) : stage' = [stage EXCEPT ![at] = left]
  /\ CallFails
  /\ UNCHANGED << setting, given, rings, put, missed, refPeak >>

(* A compensating pass put a frame out that its ring cannot take. *)
KeepCompFails ==
  /\ at \in Comps
  /\ Enabled(at)
  /\ MayFail
  /\ Answer(at).out # {}
  /\ Left(at, Answer(at))
  /\ backRing' = IF at = "compb" THEN Room(backRing, CompPool) ELSE backRing
  /\ forwRing' = IF at = "compf" THEN Room(forwRing, CompPool) ELSE forwRing
  /\ CallFails
  /\ UNCHANGED << setting, given, refRing, put, missed, refPeak >>

(* A repair, the retouch or the sink fails with the frame it has. *)
StepFails ==
  /\ at \in Repairs \cup {"retouch", "sink"}
  /\ at \in DOMAIN After => Enabled(at)
  /\ frame # Tick
  /\ MayFail
  /\ ApplyLimit
  /\ CallFails
  /\ UNCHANGED << setting, given, stage, rings, put, unrepaired, refPeak >>

RunStage == PassThrough \/ RunTemporal \/ RunComp \/ RunRepair \/ RunRetouch \/ Sink

ChainNext ==
  PushFrame \/ RunStage \/ Ask \/ KeepFails \/ FilterFails \/ KeepCompFails \/ StepFails

(* A drain that has begun goes on until it ends or a step fails. *)
ChainSpec == ChainInit /\ [][ChainNext]_chainVars /\ WF_chainVars(asked /\ fails = 0 /\ RunStage)

-----------------------------------------------------------------------------

Frames == 0 .. MaxIn - 1

Places == DOMAIN After \cup {"sink", "idle"}

(* Every variable has its type; no ring outgrows its pool and no stage its *)
(* delay, and drain() is never at a stage that is not in the chain.        *)
ChainTypeOK ==
  /\ setting \in Settings
  /\ given \in 0 .. setting.frames
  /\ \A s \in Filters :
       /\ stage[s].hold \in Seq(Frames) /\ Len(stage[s].hold) <= Delay(s)
       /\ stage[s].pending \in Seq(Frames) /\ Len(stage[s].pending) <= PipelineDepth(s)
  /\ refRing \in Seq(Frames) /\ Len(refRing) <= RefPool
  /\ backRing \in Seq(Frames) /\ Len(backRing) <= CompPool
  /\ forwRing \in Seq(Frames) /\ Len(forwRing) <= CompPool
  /\ at \in Places /\ drainAt \in Places
  /\ frame \in Frames \cup {Tick}
  /\ asked \in BOOLEAN /\ ended \in BOOLEAN
  /\ put \in Seq(Frames)
  /\ unrepaired \subseteq Frames /\ unlimited \subseteq Frames
  /\ refPeak \in 0 .. RefPool
  /\ fails \in 0 .. MaxFails

(* How many frames stage s holds back, and all of the chain does. *)
Lag(s) == IF Enabled(s) THEN Delay(s) + PipelineDepth(s) ELSE 0

Backlog == Lag("analyze") + Lag("tr1") + Lag("tr2")

RefRoom == 2 * fails <= RefPool - (Backlog + 1)

(* Every shimmer repair finds the reference of its frame, behind up to     *)
(* three stages that hold frames back and with any parameters init()       *)
(* accepts: CLEAN_REF_POOL is enough.  A failed step may leave two frames  *)
(* in the ring that no stage has any more, the one that was worked on and  *)
(* the one that was to come out, and there is room for as many as are to   *)
(* spare.                                                                  *)
ReferenceAtHand == RefRoom => unrepaired = {}

(* The envelope of the sharpness limit is whole for every frame, up to the *)
(* last of the stream, where TR1 holds frames back for as long as the      *)
(* compensating passes need and CLEAN_COMP_POOL lasts; a failed step costs *)
(* one frame its envelope at most.                                         *)
EnvelopeAtHand ==
  /\ NeedRef
  /\ setting.tr1 > 0
  /\ fails <= CompPool - Lag("tr1")
  /\ RefRoom
  => Cardinality(unlimited) <= fails

(* The peak in the run log, from which the pools are sized, is what the    *)
(* stages hold back and the frame that comes in, and no more but what      *)
(* failed steps have left there.                                           *)
PeakIsBacklog == refPeak <= Backlog + 1 + 2 * fails

(* With the limit asked for, every frame gets its envelope, whether a      *)
(* repair is on or not: without one "no reference ring [is] needed".       *)
LimitNeedsNoRepair == setting.limit /\ fails = 0 => unlimited = {}

(* The frames in the chain, and those of them whose push has returned. *)
InChain ==
  InStage(stage["analyze"]) \cup InStage(stage["tr1"]) \cup InStage(stage["tr2"])
    \cup (IF frame = Tick THEN {} ELSE {frame})

Given == IF ~ asked /\ at # "idle" THEN given - 1 ELSE given

Held == InChain \cap (0 .. Given - 1)

(* The pass RtgmDif takes the chain to be. *)
AsPass == INSTANCE Pass WITH given <- Given, held <- Held, failed <- fails > 0

(* The chain is one: a push puts out one frame at most, every frame leaves *)
(* once and in order, a drain stage by stage brings out all of them or,    *)
(* of a stream too short for anything to have come out, possibly nothing.  *)
ImplementsPass == AsPass!Spec
=============================================================================
