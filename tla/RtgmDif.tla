------------------------------ MODULE RtgmDif ------------------------------
(***************************************************************************)
(* The module's object (RtgmDifImpl::Impl, RtgmDif.cpp): the calls of its  *)
(* interface, the batch of output frames in their pool slots, and the      *)
(* split that composites each frame of the chain with a frame of the cheap *)
(* deinterlacer.                                                           *)
(*                                                                         *)
(* A frame is its number in the output stream: input frame i gives output  *)
(* frames 2i and 2i + 1.  A call is a series of steps, as the code makes   *)
(* them; `call' says where it is.                                          *)
(*                                                                         *)
(* The two passes of the chain, NVEncFilterRtgmc and, in the two-pass      *)
(* flows, CleanChain, are abstracted to the frames they still hold: each   *)
(* releases the oldest first, as many at a time as it likes.  The cheap    *)
(* deinterlacer releases the two frames of an input when it is given the   *)
(* next one.                                                               *)
(***************************************************************************)
EXTENDS Integers, Sequences, FiniteSets

CONSTANTS
  Pool,         (* RtgmDifConfig::outputPoolFrames                          *)
  MinLag,       (* input frames the chain always holds back before a flush  *)
  Splits,       (* what configure() may ask for: a split or not,            *)
  Cleans,       (* a flow with a clean pass or one without                  *)
  Faults,       (* whether device calls may fail                            *)
  MaxIn,        (* Bound on the frames handed in                            *)
  MaxInits      (* Bound on the init() calls that get to the output pool    *)

ASSUME SizeAssumption ==
  /\ Pool \in Nat \ {0} /\ MinLag \in Nat /\ MaxIn \in Nat /\ MaxInits \in Nat
ASSUME ChoiceAssumption ==
  Splits \subseteq BOOLEAN /\ Cleans \subseteq BOOLEAN /\ Faults \in BOOLEAN

VARIABLES
  cfgSplit,       (* cfg: the configuration asks for a split,              *)
  cfgClean,       (* and for a flow with a clean pass                      *)
  inits,          (* init() calls that got to the output pool              *)
  inited,
  flushed,
  wantSplit,
  wantClean,
  poolSize,       (* outPool.size()                                        *)
  picture,        (* what each slot of outPool holds                       *)
  freeSlots,
  batch,
  taken,
  droppedUnread,
  inIndex,
  outTotal,
  chain,          (* output frames rtgmc holds                             *)
  out,            (* what its last call released, not yet in feedStage1()  *)
  clean,          (* output frames the clean chain holds                   *)
  cheap,          (* input frames cheapDeint has not put out yet           *)
  cheapOut,
  cheapDrained,
  call,           (* where the current call is; "idle" between calls       *)
  released,       (* frames that have left the chain, not yet in sink()    *)
  asked,          (* history: handdif(nullptr) has been called             *)
  emitted,        (* history: the frames put into batches, in order        *)
  failed,         (* history: a call that took a frame in or a flush failed *)
  reads           (* history: batch frames getoutputbuf() has handed out   *)

config  == << cfgSplit, cfgClean, inits, inited, wantSplit, wantClean >>
pool    == << poolSize, picture, freeSlots, batch, taken, droppedUnread, outTotal >>
passes  == << chain, out, clean, released >>
side    == << cheap, cheapOut, cheapDrained >>
control == << call, flushed, inIndex >>
history == << asked, emitted, failed, reads >>
vars    == << config, pool, passes, side, control, history >>

Calls == {"idle", "cheap", "chain", "feed", "cheapDrain", "drain", "drainFeed",
          "cleanDrain", "cleanSink", "flushEnd"}

(* The two output frames of input frame i. *)
Bob(i) == {2 * i, 2 * i + 1}

(* What a slot holds: the frames its two bands come from, of the chain and *)
(* of the cheap deinterlacer.                                              *)
Picture == [chain : Int, cheap : Int]

(* The picture of a slot that holds no whole frame. *)
Blank == [chain |-> -1, cheap |-> -1]

(* The oldest frame of a set. *)
Oldest(S) == CHOOSE k \in S : \A j \in S : k <= j

(* The sets of frames that leave S oldest first. *)
OldestSets(S) == { R \in SUBSET S : \A r \in R : \A s \in S \ R : r < s }

(* What one drain call of rtgmc may put out: two pending frames at most. *)
PendingSets(S) == { R \in OldestSets(S) : Cardinality(R) <= 2 }

Init ==
  /\ cfgSplit = FALSE
  /\ cfgClean = TRUE
  /\ inits = 0
  /\ inited = FALSE
  /\ flushed = FALSE
  /\ wantSplit = FALSE
  /\ wantClean = FALSE
  /\ poolSize = 0
  /\ picture = << >>
  /\ freeSlots = << >>
  /\ batch = << >>
  /\ taken = << >>
  /\ droppedUnread = 0
  /\ inIndex = 0
  /\ outTotal = 0
  /\ chain = {}
  /\ out = {}
  /\ clean = {}
  /\ cheap = {}
  /\ cheapOut = << >>
  /\ cheapDrained = FALSE
  /\ call = "idle"
  /\ released = {}
  /\ asked = FALSE
  /\ emitted = << >>
  /\ failed = FALSE
  /\ reads = 0

-----------------------------------------------------------------------------
(* Setting up and tearing down                                             *)

(* configure(): only before init(). *)
Configure ==
  /\ call = "idle"
  /\ ~ inited
  /\ cfgSplit' \in Splits
  /\ cfgClean' \in Cleans
  /\ UNCHANGED << inits, inited, wantSplit, wantClean, pool, passes, side, control, history >>

(* The slots 0 .. n - 1 as init() stacks them: slot 0 is taken first. *)
AllSlots(n) == [i \in 1 .. n |-> n - i]

(* The pictures of a pool grown to n slots. *)
GrownTo(n) == [s \in 0 .. n - 1 |-> IF s < poolSize THEN picture[s] ELSE Blank]

(* init() that succeeds.  What close() left behind is kept: the slots are  *)
(* stacked on the free slots there are, and only the filters are new.      *)
InitSucceeds ==
  /\ call = "idle"
  /\ ~ inited
  /\ inits < MaxInits
  /\ inits' = inits + 1
  /\ inited' = TRUE
  /\ wantSplit' = cfgSplit
  /\ wantClean' = cfgClean
  /\ poolSize' = poolSize + Pool
  /\ picture' = GrownTo(poolSize + Pool)
  /\ freeSlots' = freeSlots \o AllSlots(poolSize + Pool)
  /\ chain' = {}
  /\ clean' = IF cfgClean THEN {} ELSE clean
  /\ cheap' = IF cfgSplit THEN {} ELSE cheap
  /\ UNCHANGED << cfgSplit, cfgClean, batch, taken, droppedUnread, outTotal, out, released,
                  cheapOut, cheapDrained, control, history >>

(* init() that fails at the output pool, with n slots allocated, or after  *)
(* it.  Nothing is undone.                                                 *)
InitFails ==
  /\ call = "idle"
  /\ ~ inited
  /\ Faults
  /\ inits < MaxInits
  /\ inits' = inits + 1
  /\ wantClean' = cfgClean
  /\ \E n \in 0 .. Pool :
       /\ poolSize' = poolSize + n
       /\ picture' = GrownTo(poolSize + n)
       /\ freeSlots' = IF n < Pool THEN freeSlots ELSE freeSlots \o AllSlots(poolSize + n)
       /\ wantSplit' = IF n < Pool THEN wantSplit ELSE cfgSplit
       /\ cheap' \in IF n < Pool THEN {cheap} ELSE {cheap, {}}
  /\ UNCHANGED << cfgSplit, cfgClean, inited, batch, taken, droppedUnread, outTotal, passes,
                  cheapOut, cheapDrained, control, history >>

(* close() of an initialised module. *)
Close ==
  /\ call = "idle"
  /\ inited
  /\ inited' = FALSE
  /\ poolSize' = 0
  /\ picture' = << >>
  /\ chain' = {}
  /\ clean' = {}
  /\ UNCHANGED << cfgSplit, cfgClean, inits, wantSplit, wantClean, freeSlots, batch, taken,
                  droppedUnread, outTotal, out, released, side, control, history >>

-----------------------------------------------------------------------------
(* The calls of the running module                                         *)

(* Mutant of Unread: frames that were read count as well. *)
WholeBatch == 1 .. Len(batch)

(* The batch frames getoutputbuf() has not handed out. *)
Unread == { i \in 1 .. Len(batch) : ~ taken[i] }

(* Mutant of RetireBatch: taken is not cleared. *)
RetireBatchKeepsTaken ==
  /\ droppedUnread' = droppedUnread + Cardinality(Unread)
  /\ freeSlots' = freeSlots \o batch
  /\ batch' = << >>
  /\ UNCHANGED << poolSize, picture, outTotal, taken >>

(* retireBatch() *)
RetireBatch ==
  /\ droppedUnread' = droppedUnread + Cardinality(Unread)
  /\ freeSlots' = freeSlots \o batch
  /\ batch' = << >>
  /\ taken' = << >>
  /\ UNCHANGED << poolSize, picture, outTotal >>

(* The call returns false, in mid-stream: what one filter had released and *)
(* the next had not taken yet is lost.                                     *)
ReturnFalse ==
  /\ call' = "idle"
  /\ out' = {}
  /\ released' = {}
  /\ failed' = TRUE

(* handdif() does not refuse a frame. *)
AcceptsFrames == ~ flushed

(* handdif(frame) up to the filters.  The caller is taken not to hand in a *)
(* frame between a flush that failed and its repetition.                   *)
HanddifFrame ==
  /\ call = "idle"
  /\ inited
  /\ AcceptsFrames
  /\ asked => flushed
  /\ inIndex < MaxIn
  /\ RetireBatch
  /\ inIndex' = inIndex + 1
  /\ call' = IF wantSplit THEN "cheap" ELSE "chain"
  /\ UNCHANGED << config, passes, side, flushed, history >>

(* handdif(frame) that gives up before it takes the frame in: after the    *)
(* flush, or when the input copy fails.  The batch is gone all the same.   *)
HanddifRefused ==
  /\ call = "idle"
  /\ inited
  /\ ~ AcceptsFrames \/ (Faults /\ ~ asked)
  /\ RetireBatch
  /\ UNCHANGED << config, passes, side, control, history >>

(* Mutant of CheapDrainDue: the flag is read the wrong way round. *)
CheapDrainDueAgain == wantSplit /\ cheapDrained

(* flush() has to drain the cheap deinterlacer, before anything else. *)
CheapDrainDue == wantSplit /\ ~ cheapDrained

(* handdif(nullptr) up to the drains. *)
HanddifFlush ==
  /\ call = "idle"
  /\ inited
  /\ RetireBatch
  /\ asked' = TRUE
  /\ call' = IF flushed THEN "idle"
             ELSE IF CheapDrainDue THEN "cheapDrain" ELSE "drain"
  /\ UNCHANGED << config, passes, side, flushed, inIndex, emitted, failed, reads >>

(* getoutputbuf() whose copy succeeds. *)
GetOutputBuf(i) ==
  /\ call = "idle"
  /\ inited
  /\ i <= Len(batch)
  /\ taken' = [taken EXCEPT ![i] = TRUE]
  /\ reads' = IF taken[i] THEN reads ELSE reads + 1
  /\ UNCHANGED << config, poolSize, picture, freeSlots, batch, droppedUnread, outTotal, passes,
                  side, control, asked, emitted, failed >>

-----------------------------------------------------------------------------
(* The cheap side                                                          *)

(* Mutant of BandFrames: the fields come out in the wrong order. *)
BandFramesSwapped(i) == << 2 * i + 1, 2 * i >>

(* What cheapDeint puts out for input i, in order. *)
BandFrames(i) == << 2 * i, 2 * i + 1 >>

(* queueCheapOut() of the first n frames of input i. *)
Queued(i, n) == cheapOut \o SubSeq(BandFrames(i), 1, n)

(* The cheap deinterlacer's filter() call for an input frame, its frames   *)
(* queued: it puts out an input frame once it has the next one.            *)
CheapFeed ==
  /\ call = "cheap"
  /\ LET held == cheap \cup {inIndex - 1}
         i    == Oldest(held)
     IN  IF held = {i}
         THEN cheap' = held /\ UNCHANGED cheapOut
         ELSE cheap' = held \ {i} /\ cheapOut' = Queued(i, 2)
  /\ call' = "chain"
  /\ UNCHANGED << config, pool, passes, cheapDrained, flushed, inIndex, history >>

(* A failure on the cheap side: of a band copy, of the filter, which may   *)
(* or may not have taken the frame and may have lost the one it was        *)
(* working on, or of queueCheapOut() after n frames.  n = 2 is the chain's *)
(* band copy failing behind it.                                            *)
CheapFeedFails ==
  /\ call = "cheap"
  /\ Faults
  /\ LET held == cheap \cup {inIndex - 1}
         i    == Oldest(held)
     IN  \/ cheap' \in {cheap, held} /\ UNCHANGED cheapOut
         \/ /\ held # {i}
            /\ cheap' = held \ {i}
            /\ \E n \in 0 .. 2 : cheapOut' = Queued(i, n)
  /\ ReturnFalse
  /\ UNCHANGED << config, pool, chain, clean, cheapDrained, flushed, inIndex, asked, emitted,
                  reads >>

(* Mutant of CheapDrain: an answer without frames does not end the loop. *)
CheapDrainGoesOn ==
  /\ call = "cheapDrain"
  /\ cheap # {}
  /\ cheap' = cheap \ {Oldest(cheap)}
  /\ cheapOut' = Queued(Oldest(cheap), 2)
  /\ UNCHANGED << config, pool, passes, control, cheapDrained, history >>

(* One turn of flush()'s loop over the cheap deinterlacer's drain. *)
CheapDrain ==
  /\ call = "cheapDrain"
  /\ IF cheap = {}
     THEN /\ cheapDrained' = TRUE
          /\ call' = "drain"
          /\ UNCHANGED << cheap, cheapOut >>
     ELSE /\ cheap' = cheap \ {Oldest(cheap)}
          /\ cheapOut' = Queued(Oldest(cheap), 2)
          /\ UNCHANGED << cheapDrained, call >>
  /\ UNCHANGED << config, pool, passes, flushed, inIndex, history >>

CheapDrainFails ==
  /\ call = "cheapDrain"
  /\ Faults
  /\ cheap # {}
  /\ \/ UNCHANGED << cheap, cheapOut >>
     \/ /\ cheap' = cheap \ {Oldest(cheap)}
        /\ \E n \in 0 .. 1 : cheapOut' = Queued(Oldest(cheap), n)
  /\ ReturnFalse
  /\ UNCHANGED << config, pool, chain, clean, cheapDrained, flushed, inIndex, asked, emitted,
                  reads >>

-----------------------------------------------------------------------------
(* The two passes                                                          *)

(* rtgmc's filter() call for the input frame. *)
ChainFeed ==
  /\ call = "chain"
  /\ LET held == chain \cup Bob(inIndex - 1)
     IN  \E R \in OldestSets(held) :
           /\ \A k \in R : k < 2 * (inIndex - MinLag)
           /\ out' = R
           /\ chain' = held \ R
  /\ call' = "feed"
  /\ UNCHANGED << config, pool, clean, released, side, flushed, inIndex, history >>

(* It fails, and whatever its stages were working on is lost. *)
ChainFeedFails ==
  /\ call = "chain"
  /\ Faults
  /\ chain' \in SUBSET (chain \cup Bob(inIndex - 1))
  /\ ReturnFalse
  /\ UNCHANGED << config, pool, clean, side, flushed, inIndex, asked, emitted, reads >>

(* A pass none of whose frames has come out yet may be too short for its   *)
(* temporal filters: they answer the first drain call with nothing, and    *)
(* the drain takes that for the end (module Degrain).  A pass that lost    *)
(* frames to a failure may do the same.                                    *)
ChainGivesUp == failed \/ chain = 0 .. 2 * inIndex - 1
CleanGivesUp == failed \/ emitted = << >>

(* drainComplete() *)
DrainComplete == chain = {}

(* One turn of flush()'s drain loop that releases frames. *)
Drain ==
  /\ call = "drain"
  /\ ~ DrainComplete
  /\ \E R \in PendingSets(chain) \ {{}} :
       /\ out' = R
       /\ chain' = chain \ R
  /\ call' = "drainFeed"
  /\ UNCHANGED << config, pool, clean, released, side, flushed, inIndex, history >>

DrainFails ==
  /\ call = "drain"
  /\ Faults
  /\ chain' \in SUBSET chain
  /\ ReturnFalse
  /\ UNCHANGED << config, pool, clean, side, flushed, inIndex, asked, emitted, reads >>

(* Mutant of AfterDrain: the clean chain is not drained. *)
AfterDrainEnds == "flushEnd"

(* Where flush() goes when rtgmc has nothing left to give. *)
AfterDrain == IF wantClean THEN "cleanDrain" ELSE "flushEnd"

DrainDone ==
  /\ call = "drain"
  /\ DrainComplete \/ ChainGivesUp
  /\ call' = AfterDrain
  /\ UNCHANGED << config, pool, passes, side, flushed, inIndex, history >>

Feeding == call \in {"feed", "drainFeed"}

(* feedStage1() of the oldest frame rtgmc released: straight to sink(), or *)
(* into the clean chain, which releases what it likes.                     *)
FeedStage1 ==
  /\ Feeding /\ out # {} /\ released = {}
  /\ out' = out \ {Oldest(out)}
  /\ IF wantClean
     THEN LET held == clean \cup {Oldest(out)}
          IN  \E R \in OldestSets(held) : released' = R /\ clean' = held \ R
     ELSE released' = {Oldest(out)} /\ UNCHANGED clean
  /\ UNCHANGED << config, pool, chain, side, control, history >>

(* The clean chain fails: at its reference ring or in one of its stages. *)
FeedStage1Fails ==
  /\ Feeding /\ out # {} /\ released = {}
  /\ Faults /\ wantClean
  /\ clean' \in SUBSET (clean \cup {Oldest(out)})
  /\ ReturnFalse
  /\ UNCHANGED << config, pool, chain, side, flushed, inIndex, asked, emitted, reads >>

(* All that rtgmc released has been fed: handdif(frame) returns true,      *)
(* flush() goes round its loop.                                            *)
FeedDone ==
  /\ Feeding /\ out = {} /\ released = {}
  /\ call' = IF call = "feed" THEN "idle" ELSE "drain"
  /\ UNCHANGED << config, pool, passes, side, flushed, inIndex, history >>

(* One turn of clean.drain(). *)
CleanDrain ==
  /\ call = "cleanDrain"
  /\ clean # {}
  /\ \E R \in OldestSets(clean) \ {{}} :
       /\ released' = R
       /\ clean' = clean \ R
  /\ call' = "cleanSink"
  /\ UNCHANGED << config, pool, chain, out, side, flushed, inIndex, history >>

CleanDrainFails ==
  /\ call = "cleanDrain"
  /\ Faults
  /\ clean' \in SUBSET clean
  /\ ReturnFalse
  /\ UNCHANGED << config, pool, chain, side, flushed, inIndex, asked, emitted, reads >>

(* What it released is in the batch, or it has nothing left to give. *)
CleanDrainDone ==
  /\ \/ call = "cleanSink" /\ released = {} /\ call' = "cleanDrain"
     \/ call = "cleanDrain" /\ (clean = {} \/ CleanGivesUp) /\ call' = "flushEnd"
  /\ UNCHANGED << config, pool, passes, side, flushed, inIndex, history >>

(* The end of flush(). *)
FlushDone ==
  /\ call = "flushEnd"
  /\ flushed' = TRUE
  /\ call' = "idle"
  /\ UNCHANGED << config, pool, passes, side, inIndex, history >>

-----------------------------------------------------------------------------
(* The output batch                                                        *)

(* Mutant of FreeAfterPop: the wrong end of the stack is popped. *)
FreeAfterPopFront(q) == SubSeq(q, 2, Len(q))

(* freeSlots.pop_back() *)
FreeAfterPop(q) == SubSeq(q, 1, Len(q) - 1)

(* sink() of the oldest released frame.  With a split the picture is put   *)
(* together from the chain's frame and the head of the cheap queue.        *)
SinkFrame ==
  /\ released # {}
  /\ freeSlots # << >>
  /\ wantSplit => cheapOut # << >>
  /\ LET frame == Oldest(released)
         slot  == freeSlots[Len(freeSlots)]
     IN  /\ picture' = [picture EXCEPT ![slot] =
                          [chain |-> frame, cheap |-> IF wantSplit THEN Head(cheapOut) ELSE frame]]
         /\ batch' = Append(batch, slot)
         /\ emitted' = Append(emitted, frame)
         /\ released' = released \ {frame}
  /\ freeSlots' = FreeAfterPop(freeSlots)
  /\ cheapOut' = IF wantSplit THEN Tail(cheapOut) ELSE cheapOut
  /\ taken' = Append(taken, FALSE)
  /\ outTotal' = outTotal + 1
  /\ UNCHANGED << config, poolSize, droppedUnread, chain, out, clean, cheap, cheapDrained,
                  control, asked, failed, reads >>

(* Mutant of SinkExhausted: drops the frame instead of failing. *)
SinkExhaustedDrops ==
  /\ released # {}
  /\ freeSlots = << >>
  /\ released' = released \ {Oldest(released)}
  /\ UNCHANGED << config, pool, chain, out, clean, side, control, history >>

(* sink() without a free slot: the batch is as large as the pool.  The     *)
(* clean stages lose what they were handing on.                            *)
SinkExhausted ==
  /\ released # {}
  /\ freeSlots = << >>
  /\ clean' \in SUBSET clean
  /\ ReturnFalse
  /\ UNCHANGED << config, pool, chain, side, flushed, inIndex, asked, emitted, reads >>

(* sink() that fails behind that: a copy does, or no cheap frame waits.    *)
(* The slot is given back.                                                 *)
SinkFails ==
  /\ released # {}
  /\ freeSlots # << >>
  /\ Faults \/ (wantSplit /\ cheapOut = << >>)
  /\ picture' = [picture EXCEPT ![freeSlots[Len(freeSlots)]] = Blank]
  /\ \/ UNCHANGED cheapOut
     \/ wantSplit /\ cheapOut # << >> /\ cheapOut' = Tail(cheapOut)
  /\ clean' \in SUBSET clean
  /\ ReturnFalse
  /\ UNCHANGED << config, poolSize, freeSlots, batch, taken, droppedUnread, outTotal, chain,
                  cheap, cheapDrained, flushed, inIndex, asked, emitted, reads >>

-----------------------------------------------------------------------------

(* The steps of a call that has begun. *)
InCall ==
  \/ CheapFeed \/ CheapFeedFails \/ CheapDrain \/ CheapDrainFails
  \/ ChainFeed \/ ChainFeedFails \/ Drain \/ DrainFails \/ DrainDone
  \/ FeedStage1 \/ FeedStage1Fails \/ FeedDone
  \/ CleanDrain \/ CleanDrainFails \/ CleanDrainDone \/ FlushDone
  \/ SinkFrame \/ SinkExhausted \/ SinkFails

(* What the caller does next. *)
Caller ==
  \/ Configure \/ InitSucceeds \/ InitFails \/ Close
  \/ HanddifFrame \/ HanddifRefused \/ HanddifFlush
  \/ \E i \in 1 .. Pool : GetOutputBuf(i)

Next == InCall \/ Caller

(* A call that has begun runs on: the module has no threads to wait for. *)
Spec == Init /\ [][Next]_vars /\ WF_vars(InCall)

-----------------------------------------------------------------------------

(* Every variable has its type; between calls no released frame is in      *)
(* flight, and every batch frame has its taken flag.                       *)
TypeOK ==
  /\ cfgSplit \in BOOLEAN /\ cfgClean \in BOOLEAN /\ inited \in BOOLEAN
  /\ wantSplit \in BOOLEAN /\ wantClean \in BOOLEAN
  /\ inits \in 0 .. MaxInits
  /\ poolSize \in Nat
  /\ picture \in [0 .. poolSize - 1 -> Picture]
  /\ freeSlots \in Seq(Nat) /\ batch \in Seq(Nat)
  /\ taken \in Seq(BOOLEAN) /\ Len(taken) = Len(batch)
  /\ droppedUnread \in Nat /\ outTotal \in Nat /\ reads \in Nat
  /\ inIndex \in 0 .. MaxIn
  /\ chain \subseteq 0 .. 2 * inIndex - 1
  /\ out \subseteq 0 .. 2 * inIndex - 1
  /\ clean \subseteq 0 .. 2 * inIndex - 1
  /\ released \subseteq 0 .. 2 * inIndex - 1
  /\ cheap \subseteq 0 .. inIndex - 1
  /\ cheapOut \in Seq(0 .. 2 * inIndex - 1)
  /\ emitted \in Seq(0 .. 2 * inIndex - 1)
  /\ cheapDrained \in BOOLEAN /\ flushed \in BOOLEAN /\ asked \in BOOLEAN /\ failed \in BOOLEAN
  /\ call \in Calls
  /\ call = "idle" => out = {} /\ released = {}

(* Every slot of the pool is in the batch or on the free stack, once:      *)
(* two frames never share a slot, and no slot gets lost, through failures  *)
(* in every place, retired batches and the end of the pool.                *)
SlotsPartitioned ==
  inited =>
    /\ Len(freeSlots) + Len(batch) = poolSize
    /\ \A i \in 1 .. Len(freeSlots) : freeSlots[i] < poolSize
    /\ \A i \in 1 .. Len(batch) : batch[i] < poolSize
    /\ \A i, j \in 1 .. Len(freeSlots) : freeSlots[i] = freeSlots[j] => i = j
    /\ \A i, j \in 1 .. Len(batch) : batch[i] = batch[j] => i = j
    /\ \A i \in 1 .. Len(freeSlots), j \in 1 .. Len(batch) : freeSlots[i] # batch[j]

(* The i-th frame getoutputbuf() hands out is the i-th frame the last call *)
(* released: its slot has not been written again.                          *)
BatchHoldsItsFrames ==
  inited => \A i \in 1 .. Len(batch) :
              picture[batch[i]].chain = emitted[Len(emitted) - Len(batch) + i]

(* Both bands of every frame in the batch come from the same output frame, *)
(* as long as no call has failed, whatever the lags of the two sides.      *)
PairsMatch ==
  ~ failed /\ inited => \A i \in 1 .. Len(batch) : picture[batch[i]].chain = picture[batch[i]].cheap

(* Nothing is lost in mid-stream without a call saying so: as long as none *)
(* has failed, what came out is the output stream without a gap and the    *)
(* passes hold the rest.  A flush that succeeded has brought out all of    *)
(* it, or, of a stream too short for the passes, nothing.                  *)
NoSilentLoss ==
  ~ failed /\ inited /\ call = "idle" =>
    /\ \A i \in 1 .. Len(emitted) : emitted[i] = i - 1
    /\ chain \cup clean = Len(emitted) .. 2 * inIndex - 1
    /\ flushed => Len(emitted) \in {0, 2 * inIndex}

(* Whatever happened before, the two bands of a frame belong together:     *)
(* "the k-th frame of one belongs with the k-th frame of the other         *)
(* whatever their internal delays are" (RtgmDif.h).                        *)
PairsAlwaysMatch ==
  inited => \A i \in 1 .. Len(batch) : picture[batch[i]].chain = picture[batch[i]].cheap

(* A module that was closed and initialised again starts over, since       *)
(* close() "releases everything" (RtgmDif.h): it takes frames, and its     *)
(* pool is free.                                                           *)
InitStartsOver ==
  [][~ inited /\ inited' => ~ flushed' /\ batch' = << >> /\ Len(freeSlots') = poolSize']_vars

(* Every frame released is accounted for: read by the caller, reported as  *)
(* dropped unread, or waiting in the batch.                                *)
ReadLedger == outTotal = reads + droppedUnread + Cardinality(Unread)

(* After a flush that succeeded nothing comes out any more ("after the     *)
(* first call there is nothing left", RtgmDif.h).                          *)
NothingAfterFlush == [][flushed => emitted' = emitted]_vars

(* As long as no call has failed, every frame that leaves the chain finds  *)
(* its cheap counterpart queued: the chain is always behind the cheap      *)
(* side, the tail included, though nothing but their lags sees to it.      *)
NeverOutOfStep == ~ failed /\ wantSplit => Len(cheapOut) >= Cardinality(released)

(* Every call returns, the drain loops included. *)
EveryCallReturns == call # "idle" ~> call = "idle"

(* A flush has succeeded, and frames never came out. *)
Lost == flushed /\ Len(emitted) # 2 * inIndex

(* The output stream the caller is promised. *)
Stream == INSTANCE FrameStream
            WITH given <- inIndex, got <- emitted, excused <- failed, lost <- Lost

(* The module implements it. *)
ImplementsStream == Stream!Spec
=============================================================================
