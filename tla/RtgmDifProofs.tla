--------------------------- MODULE RtgmDifProofs ---------------------------
(* Theorems about the module's object, for every size of the pool, every   *)
(* lag of the passes and every number of frames: first about its slots and *)
(* its batch, then about the stream that goes through it, which is one of  *)
(* FrameStream, loses nothing but by a failed call, and keeps the two      *)
(* bands of a split in step.                                               *)
EXTENDS RtgmDif, SequenceTheorems, FiniteSetTheorems, WellFoundedInduction, TLAPS

(* A set of frames has an oldest one. *)
LEMMA OldestIsFirst ==
  ASSUME NEW S, S \subseteq Nat, S # {}
  PROVE  Oldest(S) \in S /\ \A j \in S : Oldest(S) <= j
<1>1. PICK m \in S : \A k \in S : <<k, m>> \notin OpToRel(<, Nat)
  BY NatLessThanWellFounded, WFMin
<1>2. ASSUME NEW k \in S PROVE m <= k
  <2>1. k \in Nat /\ m \in Nat
    OBVIOUS
  <2>2. k < m => <<k, m>> \in OpToRel(<, Nat)
    BY <2>1, Zenon DEF OpToRel
  <2>3. ~ (k < m)
    BY <1>1, <2>2, Zenon
  <2>4. QED
    BY <2>1, <2>3
<1>3. QED
  BY <1>2 DEF Oldest

-----------------------------------------------------------------------------
(* Control                                                                 *)

(* Where in a call frames may be between two filters. *)
Flow ==
  /\ inIndex \in 0 .. MaxIn
  /\ inited \in BOOLEAN /\ flushed \in BOOLEAN
  /\ call \in Calls
  /\ call # "idle" => inited /\ ~ flushed
  /\ call \in {"cheap", "chain"} => inIndex > 0
  /\ out # {} => call \in {"feed", "drainFeed"}
  /\ released # {} => call \in {"feed", "drainFeed", "cleanSink"}

LEMMA FlowInit == Init => Flow
<1>1. 0 \in 0 .. MaxIn
  BY SizeAssumption
<1>2. QED
  BY <1>1, Zenon DEF Init, Flow, Calls

LEMMA FlowStep == Flow /\ [Next]_vars => Flow'
<1> SUFFICES ASSUME Flow, [Next]_vars PROVE Flow'
  OBVIOUS
<1> USE DEF Flow, Calls
<1>1. CASE Configure
  BY <1>1 DEF Configure, config, passes, side, control, ReturnFalse
<1>2. CASE InitSucceeds
  BY <1>2 DEF InitSucceeds, config, passes, side, control, ReturnFalse
<1>3. CASE InitFails
  BY <1>3 DEF InitFails, config, passes, side, control, ReturnFalse
<1>4. CASE Close
  BY <1>4 DEF Close, config, passes, side, control, ReturnFalse
<1>5. CASE HanddifFrame
  BY <1>5, SizeAssumption DEF HanddifFrame, AcceptsFrames, config, passes, side, control, ReturnFalse
<1>6. CASE HanddifRefused
  BY <1>6 DEF HanddifRefused, config, passes, side, control, ReturnFalse
<1>7. CASE HanddifFlush
  BY <1>7 DEF HanddifFlush, config, passes, side, control, ReturnFalse
<1>8. CASE CheapFeed
  BY <1>8 DEF CheapFeed, config, passes, side, control, ReturnFalse
<1>9. CASE CheapFeedFails
  BY <1>9 DEF CheapFeedFails, config, passes, side, control, ReturnFalse
<1>10. CASE CheapDrain
  BY <1>10 DEF CheapDrain, config, passes, side, control, ReturnFalse
<1>11. CASE CheapDrainFails
  BY <1>11 DEF CheapDrainFails, config, passes, side, control, ReturnFalse
<1>12. CASE ChainFeed
  BY <1>12 DEF ChainFeed, config, passes, side, control, ReturnFalse
<1>13. CASE ChainFeedFails
  BY <1>13 DEF ChainFeedFails, config, passes, side, control, ReturnFalse
<1>14. CASE Drain
  BY <1>14 DEF Drain, config, passes, side, control, ReturnFalse
<1>15. CASE DrainFails
  BY <1>15 DEF DrainFails, config, passes, side, control, ReturnFalse
<1>16. CASE DrainDone
  BY <1>16 DEF DrainDone, AfterDrain, config, passes, side, control, ReturnFalse
<1>17. CASE FeedStage1
  BY <1>17 DEF FeedStage1, config, passes, side, control, ReturnFalse
<1>18. CASE FeedStage1Fails
  BY <1>18 DEF FeedStage1Fails, config, passes, side, control, ReturnFalse
<1>19. CASE FeedDone
  BY <1>19 DEF FeedDone, Feeding, config, passes, side, control, ReturnFalse
<1>20. CASE CleanDrain
  BY <1>20 DEF CleanDrain, config, passes, side, control, ReturnFalse
<1>21. CASE CleanDrainFails
  BY <1>21 DEF CleanDrainFails, config, passes, side, control, ReturnFalse
<1>22. CASE CleanDrainDone
  BY <1>22 DEF CleanDrainDone, config, passes, side, control, ReturnFalse
<1>23. CASE FlushDone
  BY <1>23 DEF FlushDone, config, passes, side, control, ReturnFalse
<1>24. CASE SinkFrame
  BY <1>24 DEF SinkFrame, config, passes, side, control, ReturnFalse
<1>25. CASE SinkExhausted
  BY <1>25 DEF SinkExhausted, config, passes, side, control, ReturnFalse
<1>26. CASE SinkFails
  BY <1>26 DEF SinkFails, config, passes, side, control, ReturnFalse
<1>27. ASSUME NEW i \in 1 .. Pool, GetOutputBuf(i) PROVE Flow'
  BY <1>27 DEF GetOutputBuf, config, passes, side, control
<1>28. CASE UNCHANGED vars
  BY <1>28 DEF vars, config, passes, side, control
<1>29. QED
  BY <1>1, <1>2, <1>3, <1>4, <1>5, <1>6, <1>7, <1>8, <1>9, <1>10, <1>11, <1>12, <1>13, <1>14, <1>15, <1>16, <1>17, <1>18, <1>19, <1>20, <1>21, <1>22, <1>23, <1>24, <1>25, <1>26, <1>27, <1>28 DEF Next, InCall, Caller

-----------------------------------------------------------------------------
(* Types                                                                   *)

(* The frames there are so far. *)
Frames == 0 .. 2 * inIndex - 1

PassTypes ==
  /\ chain \subseteq Frames
  /\ out \subseteq Frames
  /\ clean \subseteq Frames
  /\ released \subseteq Frames

(* Frames come from the set they are released from, and no frame turns up  *)
(* that was not handed in.                                                 *)
LEMMA PassTypesStep == Flow /\ PassTypes /\ [Next]_vars => PassTypes'
<1> SUFFICES ASSUME Flow, PassTypes, [Next]_vars PROVE PassTypes'
  OBVIOUS
<1> inIndex \in Nat
  BY SizeAssumption DEF Flow
<1> USE DEF PassTypes, Frames
<1>1. CASE InitSucceeds
  BY <1>1 DEF InitSucceeds, control
<1>2. CASE Close
  BY <1>2 DEF Close, control
<1>3. CASE HanddifFrame
  BY <1>3 DEF HanddifFrame, passes
<1>4. CASE CheapFeedFails \/ CheapDrainFails
  BY <1>4 DEF CheapFeedFails, CheapDrainFails, ReturnFalse
<1>5. CASE ChainFeed \/ ChainFeedFails
  <2>1. inIndex > 0
    BY <1>5 DEF ChainFeed, ChainFeedFails, Flow
  <2>2. Bob(inIndex - 1) \subseteq Frames
    BY <2>1 DEF Bob
  <2>3. QED
    BY <1>5, <2>2 DEF ChainFeed, ChainFeedFails, ReturnFalse, PendingSets, OldestSets
<1>6. CASE Drain \/ DrainFails
  BY <1>6 DEF Drain, DrainFails, ReturnFalse, PendingSets, OldestSets
<1>7. CASE FeedStage1 \/ FeedStage1Fails
  <2>1. out # {}
    BY <1>7 DEF FeedStage1, FeedStage1Fails
  <2>2. Oldest(out) \in out
    <3>1. out \subseteq Nat
      OBVIOUS
    <3>2. QED
      BY <2>1, <3>1, OldestIsFirst, Zenon
  <2>3. QED
    BY <1>7, <2>2 DEF FeedStage1, FeedStage1Fails, ReturnFalse, OldestSets, control
<1>8. CASE CleanDrain \/ CleanDrainFails
  BY <1>8 DEF CleanDrain, CleanDrainFails, ReturnFalse, OldestSets
<1>9. CASE SinkFrame \/ SinkExhausted \/ SinkFails
  BY <1>9 DEF SinkFrame, SinkExhausted, SinkFails, ReturnFalse, control
<1>10. CASE \/ Configure \/ InitFails \/ HanddifRefused \/ HanddifFlush
            \/ CheapFeed \/ CheapDrain \/ DrainDone \/ FeedDone \/ CleanDrainDone
            \/ FlushDone \/ (\E i \in 1 .. Pool : GetOutputBuf(i)) \/ UNCHANGED vars
  <2>1. UNCHANGED << passes, inIndex >>
    BY <1>10 DEF Configure, InitFails, HanddifRefused, HanddifFlush, CheapFeed, CheapDrain,
       DrainDone, FeedDone, CleanDrainDone, FlushDone, GetOutputBuf, vars, passes, control
  <2>2. QED
    BY <2>1 DEF passes
<1>11. QED
  BY <1>1, <1>2, <1>3, <1>4, <1>5, <1>6, <1>7, <1>8, <1>9, <1>10 DEF Next, InCall, Caller

CheapTypes ==
  /\ cheap \subseteq 0 .. inIndex - 1
  /\ cheapOut \in Seq(Frames)
  /\ cheapDrained \in BOOLEAN

LEMMA QueuedType ==
  ASSUME CheapTypes, Flow, NEW i \in 0 .. inIndex - 1, NEW n \in 0 .. 2
  PROVE  Queued(i, n) \in Seq(Frames)
<1> inIndex \in Nat
  BY SizeAssumption DEF Flow
<1>1. 2 * i \in Frames /\ 2 * i + 1 \in Frames
  BY DEF Frames
<1>2. \A j \in 1 .. n : BandFrames(i)[j] \in Frames
  BY <1>1 DEF BandFrames
<1>3. SubSeq(BandFrames(i), 1, n) \in Seq(Frames)
  BY <1>2, SubSeqProperties
<1>4. QED
  BY <1>3, ConcatProperties DEF Queued, CheapTypes

LEMMA CheapTypesStep == Flow /\ CheapTypes /\ [Next]_vars => CheapTypes'
<1> SUFFICES ASSUME Flow, CheapTypes, [Next]_vars PROVE CheapTypes'
  OBVIOUS
<1> inIndex \in Nat
  BY SizeAssumption DEF Flow
<1>1. CASE InitSucceeds \/ InitFails
  <2>1. UNCHANGED << cheapOut, cheapDrained, inIndex >> /\ cheap' \in {cheap, {}}
    BY <1>1 DEF InitSucceeds, InitFails, control
  <2>2. QED
    BY <2>1 DEF CheapTypes, Frames
<1>2. CASE HanddifFrame
  <2>1. UNCHANGED << cheap, cheapOut, cheapDrained >> /\ inIndex' = inIndex + 1
    BY <1>2 DEF HanddifFrame, side
  <2>2. Frames \subseteq Frames'
    BY <2>1 DEF Frames
  <2>3. cheapOut \in Seq(Frames')
    BY <2>2, SeqMonotonic DEF CheapTypes
  <2>4. QED
    BY <2>1, <2>3 DEF CheapTypes
<1>3. CASE CheapFeed \/ CheapFeedFails
  <2> DEFINE held == cheap \cup {inIndex - 1}
             i    == Oldest(held)
  <2>1. inIndex > 0 /\ inIndex' = inIndex /\ cheapDrained' = cheapDrained
    BY <1>3 DEF CheapFeed, CheapFeedFails, Flow
  <2>2. held \subseteq 0 .. inIndex - 1
    BY <2>1 DEF CheapTypes
  <2>3. i \in 0 .. inIndex - 1
    <3>1. held \subseteq Nat /\ held # {}
      BY <2>2
    <3>2. i \in held
      BY <3>1, OldestIsFirst, Zenon
    <3>3. QED
      BY <2>2, <3>2
  <2>4. \A n \in 0 .. 2 : Queued(i, n) \in Seq(Frames)
    BY <2>3, QueuedType
  <2>5. cheap' \in {cheap, held, held \ {i}}
    BY <1>3 DEF CheapFeed, CheapFeedFails
  <2>6. cheapOut' = cheapOut \/ \E n \in 0 .. 2 : cheapOut' = Queued(i, n)
    BY <1>3 DEF CheapFeed, CheapFeedFails
  <2> HIDE DEF held, i
  <2>7. cheapOut' \in Seq(Frames)
    BY <2>4, <2>6 DEF CheapTypes
  <2>8. Frames' = Frames
    BY <2>1 DEF Frames
  <2>9. cheap' \subseteq 0 .. inIndex - 1
    BY <2>2, <2>5 DEF CheapTypes
  <2>10. QED
    BY <2>1, <2>7, <2>8, <2>9 DEF CheapTypes
<1>4. CASE (CheapDrain \/ CheapDrainFails) /\ cheap # {}
  <2> DEFINE i == Oldest(cheap)
  <2>1. inIndex' = inIndex /\ cheapDrained' = cheapDrained
    BY <1>4 DEF CheapDrain, CheapDrainFails
  <2>2. i \in 0 .. inIndex - 1
    <3>1. cheap \subseteq Nat
      BY DEF CheapTypes
    <3>2. i \in cheap
      BY <1>4, <3>1, OldestIsFirst, Zenon
    <3>3. QED
      BY <3>2 DEF CheapTypes
  <2>3. \A n \in 0 .. 2 : Queued(i, n) \in Seq(Frames)
    BY <2>2, QueuedType
  <2>4. cheap' \in {cheap, cheap \ {i}}
    BY <1>4 DEF CheapDrain, CheapDrainFails
  <2>5. cheapOut' = cheapOut \/ \E n \in 0 .. 2 : cheapOut' = Queued(i, n)
    BY <1>4 DEF CheapDrain, CheapDrainFails
  <2> HIDE DEF i
  <2>6. cheapOut' \in Seq(Frames)
    BY <2>3, <2>5 DEF CheapTypes
  <2>7. Frames' = Frames
    BY <2>1 DEF Frames
  <2>8. QED
    BY <2>1, <2>4, <2>6, <2>7 DEF CheapTypes
<1>5. CASE CheapDrain /\ cheap = {}
  BY <1>5 DEF CheapDrain, CheapTypes, Frames
<1>6. CASE SinkFrame \/ SinkFails
  <2>1. UNCHANGED << cheap, cheapDrained, inIndex >>
    BY <1>6 DEF SinkFrame, SinkFails, control
  <2>2. cheapOut' = cheapOut \/ (cheapOut # << >> /\ cheapOut' = Tail(cheapOut))
    BY <1>6 DEF SinkFrame, SinkFails
  <2>3. cheapOut' \in Seq(Frames)
    BY <2>2, HeadTailProperties DEF CheapTypes
  <2>4. QED
    BY <2>1, <2>3 DEF CheapTypes, Frames
<1>7. CASE \/ Configure \/ Close \/ HanddifRefused \/ HanddifFlush
           \/ (\E j \in 1 .. Pool : GetOutputBuf(j)) \/ UNCHANGED vars
           \/ ChainFeed \/ ChainFeedFails \/ Drain \/ DrainFails \/ DrainDone
           \/ FeedStage1 \/ FeedStage1Fails \/ FeedDone
           \/ CleanDrain \/ CleanDrainFails \/ CleanDrainDone \/ FlushDone \/ SinkExhausted
  <2>1. UNCHANGED << side, inIndex >>
    BY <1>7 DEF Configure, Close, HanddifRefused, HanddifFlush, GetOutputBuf, vars, control,
       ChainFeed, ChainFeedFails, Drain, DrainFails, DrainDone, FeedStage1, FeedStage1Fails,
       FeedDone, CleanDrain, CleanDrainFails, CleanDrainDone, FlushDone, SinkExhausted
  <2>2. QED
    BY <2>1 DEF CheapTypes, side, Frames
<1>8. QED
  BY <1>1, <1>2, <1>3, <1>4, <1>5, <1>6, <1>7 DEF Next, InCall, Caller, CheapDrainFails

-----------------------------------------------------------------------------
(* The pool: what a step does to the slots, the batch and its ledger       *)

Untouched == UNCHANGED << inited, inits, pool, emitted, reads, inIndex >>

Retires ==
  /\ RetireBatch
  /\ UNCHANGED << inited, inits, emitted, reads >>
  /\ inIndex' \in {inIndex, inIndex + 1}

LEMMA PoolSteps ==
  [Next]_vars =>
    \/ Untouched \/ Retires \/ SinkFrame \/ SinkFails
    \/ InitSucceeds \/ InitFails \/ Close \/ \E i \in 1 .. Pool : GetOutputBuf(i)
<1> SUFFICES ASSUME [Next]_vars, ~ SinkFrame, ~ SinkFails, ~ InitSucceeds, ~ InitFails, ~ Close,
                    ~ \E i \in 1 .. Pool : GetOutputBuf(i)
             PROVE  Untouched \/ Retires
  OBVIOUS
<1>1. CASE HanddifFrame \/ HanddifRefused \/ HanddifFlush
  BY <1>1 DEF HanddifFrame, HanddifRefused, HanddifFlush, Retires, config, control, history
<1>2. CASE Configure \/ CheapFeed \/ CheapFeedFails \/ CheapDrain \/ CheapDrainFails
           \/ UNCHANGED vars
  BY <1>2 DEF Configure, CheapFeed, CheapFeedFails, CheapDrain, CheapDrainFails, vars,
     Untouched, config, control, history
<1>3. CASE \/ ChainFeed \/ ChainFeedFails \/ Drain \/ DrainFails \/ DrainDone
           \/ FeedStage1 \/ FeedStage1Fails \/ FeedDone
           \/ CleanDrain \/ CleanDrainFails \/ CleanDrainDone \/ FlushDone \/ SinkExhausted
  BY <1>3 DEF ChainFeed, ChainFeedFails, Drain, DrainFails, DrainDone, FeedStage1,
     FeedStage1Fails, FeedDone, CleanDrain, CleanDrainFails, CleanDrainDone, FlushDone,
     SinkExhausted, Untouched, config, control, history
<1>4. QED
  BY <1>1, <1>2, <1>3 DEF Next, InCall, Caller

SlotTypes ==
  /\ inits \in Nat
  /\ inited \in BOOLEAN
  /\ poolSize \in Nat
  /\ freeSlots \in Seq(Nat)
  /\ batch \in Seq(Nat)

LEMMA AllSlotsProperties ==
  ASSUME NEW n \in Nat
  PROVE  /\ AllSlots(n) \in Seq(Nat)
         /\ Len(AllSlots(n)) = n
         /\ \A i \in 1 .. n : AllSlots(n)[i] = n - i
<1>1. AllSlots(n) \in [1 .. n -> Nat]
  BY DEF AllSlots
<1>2. AllSlots(n) \in Seq(Nat) /\ Len(AllSlots(n)) = n
  BY <1>1, SeqDef
<1>3. QED
  BY <1>2 DEF AllSlots

LEMMA FreeAfterPopProperties ==
  ASSUME NEW q \in Seq(Nat), q # << >>
  PROVE  /\ FreeAfterPop(q) \in Seq(Nat)
         /\ Len(FreeAfterPop(q)) = Len(q) - 1
         /\ \A i \in 1 .. Len(q) - 1 : FreeAfterPop(q)[i] = q[i]
         /\ Len(q) \in Nat \ {0}
         /\ q[Len(q)] \in Nat
<1>1. Len(q) \in Nat \ {0}
  BY EmptySeq
<1>2. \A i \in 1 .. Len(q) - 1 : q[i] \in Nat
  BY <1>1, ElementOfSeq
<1>3. q[Len(q)] \in Nat
  BY <1>1, ElementOfSeq
<1> DEFINE n == Len(q) - 1
<1>4. n \in Nat /\ \A i \in 1 .. n : q[i] \in Nat
  BY <1>1, <1>2
<1> HIDE DEF n
<1>5. /\ SubSeq(q, 1, n) \in Seq(Nat)
      /\ Len(SubSeq(q, 1, n)) = IF 1 <= n THEN n - 1 + 1 ELSE 0
      /\ \A i \in 1 .. n - 1 + 1 : SubSeq(q, 1, n)[i] = q[1 + i - 1]
  BY <1>4, SubSeqProperties
<1>6. Len(SubSeq(q, 1, n)) = n /\ \A i \in 1 .. n : SubSeq(q, 1, n)[i] = q[i]
  BY <1>4, <1>5
<1>7. QED
  BY <1>1, <1>3, <1>5, <1>6 DEF FreeAfterPop, n

LEMMA SlotTypesStep == SlotTypes /\ [Next]_vars => SlotTypes'
<1> SUFFICES ASSUME SlotTypes, [Next]_vars PROVE SlotTypes'
  OBVIOUS
<1> USE DEF SlotTypes
<1>1. CASE Untouched
  BY <1>1 DEF Untouched, pool
<1>2. CASE Retires
  <2>1. freeSlots \o batch \in Seq(Nat)
    BY ConcatProperties
  <2>2. QED
    BY <1>2, <2>1, EmptySeq DEF Retires, RetireBatch
<1>3. CASE SinkFrame
  <2>1. batch' = Append(batch, freeSlots[Len(freeSlots)]) /\ freeSlots' = FreeAfterPop(freeSlots)
    BY <1>3 DEF SinkFrame
  <2>2. freeSlots' \in Seq(Nat) /\ freeSlots[Len(freeSlots)] \in Nat
    BY <1>3, <2>1, FreeAfterPopProperties DEF SinkFrame
  <2>3. batch' \in Seq(Nat)
    BY <2>1, <2>2, AppendProperties
  <2>4. QED
    BY <1>3, <2>2, <2>3 DEF SinkFrame, config
<1>4. CASE SinkFails
  BY <1>4 DEF SinkFails, config
<1>5. CASE InitSucceeds
  <2>1. poolSize + Pool \in Nat
    BY SizeAssumption
  <2>2. freeSlots \o AllSlots(poolSize + Pool) \in Seq(Nat)
    BY <2>1, AllSlotsProperties, ConcatProperties
  <2>3. poolSize' \in Nat /\ freeSlots' \in Seq(Nat)
    BY <1>5, <2>1, <2>2 DEF InitSucceeds
  <2>4. QED
    BY <1>5, <2>3 DEF InitSucceeds
<1>6. CASE InitFails
  <2>1. PICK n \in 0 .. Pool :
          /\ poolSize' = poolSize + n
          /\ freeSlots' = IF n < Pool THEN freeSlots ELSE freeSlots \o AllSlots(poolSize + n)
    BY <1>6 DEF InitFails
  <2>2. poolSize + n \in Nat
    BY SizeAssumption
  <2>3. freeSlots \o AllSlots(poolSize + n) \in Seq(Nat)
    BY <2>2, AllSlotsProperties, ConcatProperties
  <2>4. poolSize' \in Nat /\ freeSlots' \in Seq(Nat)
    BY <2>1, <2>2, <2>3
  <2>5. QED
    BY <1>6, <2>4 DEF InitFails
<1>7. CASE Close
  BY <1>7 DEF Close
<1>8. CASE \E i \in 1 .. Pool : GetOutputBuf(i)
  BY <1>8 DEF GetOutputBuf, config
<1>9. QED
  BY <1>1, <1>2, <1>3, <1>4, <1>5, <1>6, <1>7, <1>8, PoolSteps

(* What a sink() step does, in the terms of the proofs below. *)
LEMMA SinkFrameStep ==
  ASSUME SlotTypes, SinkFrame
  PROVE  /\ Len(freeSlots) \in Nat \ {0} /\ Len(batch) \in Nat
         /\ freeSlots[Len(freeSlots)] \in Nat
         /\ Len(freeSlots') = Len(freeSlots) - 1
         /\ \A i \in 1 .. Len(freeSlots) - 1 : freeSlots'[i] = freeSlots[i]
         /\ Len(batch') = Len(batch) + 1
         /\ \A i \in 1 .. Len(batch) : batch'[i] = batch[i]
         /\ batch'[Len(batch) + 1] = freeSlots[Len(freeSlots)]
         /\ UNCHANGED << inited, inits, poolSize >>
<1>1. freeSlots \in Seq(Nat) /\ batch \in Seq(Nat) /\ Len(batch) \in Nat
  BY LenProperties DEF SlotTypes
<1>2. freeSlots # << >> /\ freeSlots' = FreeAfterPop(freeSlots)
  BY DEF SinkFrame
<1>3. /\ Len(freeSlots) \in Nat \ {0} /\ freeSlots[Len(freeSlots)] \in Nat
      /\ Len(freeSlots') = Len(freeSlots) - 1
      /\ \A i \in 1 .. Len(freeSlots) - 1 : freeSlots'[i] = freeSlots[i]
  BY <1>1, <1>2, FreeAfterPopProperties
<1>4. batch' = Append(batch, freeSlots[Len(freeSlots)])
  BY DEF SinkFrame
<1>5. /\ Len(batch') = Len(batch) + 1
      /\ \A i \in 1 .. Len(batch) : batch'[i] = batch[i]
      /\ batch'[Len(batch) + 1] = freeSlots[Len(freeSlots)]
  BY <1>1, <1>3, <1>4, AppendProperties
<1>6. UNCHANGED << inited, inits, poolSize >>
  BY DEF SinkFrame, config
<1>7. QED
  BY <1>1, <1>3, <1>5, <1>6

-----------------------------------------------------------------------------
(* The slots                                                               *)

(* Before the first init() there is nothing: the one init() starts from    *)
(* an empty pool.                                                          *)
Untapped ==
  inits = 0 => ~ inited /\ poolSize = 0 /\ freeSlots = << >> /\ batch = << >>

SlotInv == SlotTypes /\ Untapped /\ SlotsPartitioned

LEMMA SlotInit == Init => SlotInv
<1>1. << >> \in Seq(Nat) /\ 0 \in Nat
  BY EmptySeq
<1>2. Init => SlotTypes
  BY <1>1, Zenon DEF Init, SlotTypes
<1>3. QED
  BY <1>2, Zenon DEF Init, SlotInv, Untapped, SlotsPartitioned

LEMMA UntappedStep == SlotInv /\ [Next]_vars => Untapped'
<1> SUFFICES ASSUME SlotInv, [Next]_vars, inits' = 0
             PROVE  ~ inited' /\ poolSize' = 0 /\ freeSlots' = << >> /\ batch' = << >>
  BY DEF Untapped
<1> USE DEF SlotInv, SlotTypes
<1>1. CASE Untouched
  BY <1>1 DEF Untouched, pool, Untapped
<1>2. CASE Retires
  <2>1. << >> \o << >> = << >>
    OBVIOUS
  <2>2. QED
    BY <1>2, <2>1, Zenon DEF Retires, RetireBatch, Untapped
<1>3. CASE SinkFrame
  BY <1>3 DEF SinkFrame, config, Untapped
<1>4. CASE SinkFails
  BY <1>4 DEF SinkFails, config, Untapped
<1>5. CASE InitSucceeds \/ InitFails
  BY <1>5 DEF InitSucceeds, InitFails
<1>6. CASE Close
  BY <1>6 DEF Close, Untapped
<1>7. CASE \E i \in 1 .. Pool : GetOutputBuf(i)
  BY <1>7 DEF GetOutputBuf, config, Untapped
<1>8. QED
  BY <1>1, <1>2, <1>3, <1>4, <1>5, <1>6, <1>7, PoolSteps

LEMMA PartitionStep == MaxInits <= 1 /\ SlotInv /\ [Next]_vars => SlotsPartitioned'
<1> SUFFICES ASSUME MaxInits <= 1, SlotInv, [Next]_vars, inited' PROVE SlotsPartitioned'
  BY DEF SlotsPartitioned
<1> SlotTypes /\ Untapped /\ SlotsPartitioned
  BY DEF SlotInv
<1> Len(freeSlots) \in Nat /\ Len(batch) \in Nat
  BY LenProperties DEF SlotTypes
<1>1. CASE Untouched
  BY <1>1, Zenon DEF Untouched, pool, SlotsPartitioned
<1>2. CASE Retires
  <2>1. inited /\ poolSize' = poolSize /\ batch' = << >> /\ freeSlots' = freeSlots \o batch
    BY <1>2 DEF Retires, RetireBatch
  <2>2. /\ Len(freeSlots') = Len(freeSlots) + Len(batch)
        /\ \A i \in 1 .. Len(freeSlots) + Len(batch) :
             freeSlots'[i] = IF i <= Len(freeSlots) THEN freeSlots[i]
                             ELSE batch[i - Len(freeSlots)]
    BY <2>1, ConcatProperties DEF SlotTypes
  <2>3. Len(batch') = 0
    BY <2>1
  <2>4. Len(freeSlots') + Len(batch') = poolSize'
    BY <2>1, <2>2, <2>3 DEF SlotsPartitioned
  <2>5. \A i \in 1 .. Len(freeSlots') : freeSlots'[i] < poolSize'
    BY <2>1, <2>2 DEF SlotsPartitioned
  <2>6. \A i, j \in 1 .. Len(freeSlots') : freeSlots'[i] = freeSlots'[j] => i = j
    BY <2>1, <2>2 DEF SlotsPartitioned
  <2>7. QED
    BY <2>3, <2>4, <2>5, <2>6 DEF SlotsPartitioned
<1>3. CASE SinkFrame
  <2>1. /\ Len(freeSlots) \in Nat \ {0}
        /\ Len(freeSlots') = Len(freeSlots) - 1
        /\ \A i \in 1 .. Len(freeSlots) - 1 : freeSlots'[i] = freeSlots[i]
        /\ Len(batch') = Len(batch) + 1
        /\ \A i \in 1 .. Len(batch) : batch'[i] = batch[i]
        /\ batch'[Len(batch) + 1] = freeSlots[Len(freeSlots)]
        /\ inited /\ poolSize' = poolSize
    BY <1>3, SinkFrameStep
  <2>2. Len(freeSlots') + Len(batch') = poolSize'
    BY <2>1 DEF SlotsPartitioned
  <2>3. \A i \in 1 .. Len(freeSlots') : freeSlots'[i] < poolSize'
    BY <2>1 DEF SlotsPartitioned
  <2>4. \A i \in 1 .. Len(batch') : batch'[i] < poolSize'
    BY <2>1 DEF SlotsPartitioned
  <2>5. \A i, j \in 1 .. Len(freeSlots') : freeSlots'[i] = freeSlots'[j] => i = j
    BY <2>1 DEF SlotsPartitioned
  <2>6. \A i, j \in 1 .. Len(batch') : batch'[i] = batch'[j] => i = j
    BY <2>1 DEF SlotsPartitioned
  <2>7. \A i \in 1 .. Len(freeSlots'), j \in 1 .. Len(batch') : freeSlots'[i] # batch'[j]
    BY <2>1 DEF SlotsPartitioned
  <2>8. QED
    BY <2>2, <2>3, <2>4, <2>5, <2>6, <2>7 DEF SlotsPartitioned
<1>4. CASE SinkFails
  BY <1>4, Zenon DEF SinkFails, config, SlotsPartitioned
<1>5. CASE InitSucceeds
  <2>1. inits = 0
    BY <1>5, SizeAssumption DEF InitSucceeds, SlotTypes
  <2>2. batch' = << >> /\ poolSize' = Pool /\ freeSlots' = << >> \o AllSlots(Pool)
    <3>1. poolSize + Pool = Pool
      BY <2>1, SizeAssumption DEF Untapped
    <3>2. batch = << >> /\ freeSlots = << >>
      BY <2>1 DEF Untapped
    <3>3. QED
      BY <1>5, <3>1, <3>2, Zenon DEF InitSucceeds
  <2>3. freeSlots' = AllSlots(Pool)
    BY <2>2, AllSlotsProperties, ConcatEmptySeq, SizeAssumption
  <2>4. Len(freeSlots') = Pool /\ \A i \in 1 .. Pool : freeSlots'[i] = Pool - i
    BY <2>3, AllSlotsProperties, SizeAssumption
  <2>5. Len(batch') = 0
    BY <2>2
  <2>6. QED
    BY <2>2, <2>4, <2>5, SizeAssumption DEF SlotsPartitioned
<1>6. CASE InitFails \/ Close
  BY <1>6 DEF InitFails, Close
<1>7. CASE \E i \in 1 .. Pool : GetOutputBuf(i)
  BY <1>7, Zenon DEF GetOutputBuf, config, SlotsPartitioned
<1>8. QED
  BY <1>1, <1>2, <1>3, <1>4, <1>5, <1>6, <1>7, PoolSteps

(* The slots of the pool are in the batch or free, each once and none      *)
(* missing: sink(), retireBatch() and every failure between them keep the  *)
(* pool whole, for a module that is initialised once.                      *)
THEOREM SlotsCorrect ==
  ASSUME MaxInits <= 1
  PROVE  Spec => []SlotsPartitioned
<1>1. SlotInv /\ [Next]_vars => SlotInv'
  BY SlotTypesStep, UntappedStep, PartitionStep DEF SlotInv
<1>2. SlotInv => SlotsPartitioned
  BY DEF SlotInv
<1>3. QED
  BY SlotInit, <1>1, <1>2, PTL DEF Spec

-----------------------------------------------------------------------------
(* The frames in the slots                                                 *)

EmittedType == emitted \in Seq(Frames)

LEMMA OldestReleased ==
  ASSUME Flow, PassTypes, released # {}
  PROVE  Oldest(released) \in Frames
<1>1. inIndex \in Nat
  BY SizeAssumption DEF Flow
<1>2. released \subseteq Nat
  BY <1>1 DEF PassTypes, Frames
<1>3. QED
  BY <1>2, OldestIsFirst, Zenon DEF PassTypes

LEMMA EmittedTypeStep == Flow /\ PassTypes /\ EmittedType /\ [Next]_vars => EmittedType'
<1> SUFFICES ASSUME Flow, PassTypes, EmittedType, [Next]_vars PROVE EmittedType'
  OBVIOUS
<1> inIndex \in Nat
  BY SizeAssumption DEF Flow
<1>1. CASE SinkFrame
  <2>1. released # {} /\ emitted' = Append(emitted, Oldest(released)) /\ inIndex' = inIndex
    BY <1>1 DEF SinkFrame, control
  <2>2. Oldest(released) \in Frames
    BY <2>1, OldestReleased
  <2>3. Append(emitted, Oldest(released)) \in Seq(Frames)
    BY <2>2, AppendProperties DEF EmittedType
  <2>4. QED
    BY <2>1, <2>3 DEF EmittedType, Frames
<1>2. CASE ~ SinkFrame
  <2>1. emitted' = emitted /\ inIndex' \in {inIndex, inIndex + 1}
    BY <1>2, PoolSteps DEF Untouched, Retires, SinkFails, InitSucceeds, InitFails, Close,
       GetOutputBuf, control, history
  <2>2. Frames \subseteq Frames'
    <3>1. CASE inIndex' = inIndex
      BY <3>1 DEF Frames
    <3>2. CASE inIndex' = inIndex + 1
      BY <3>2, inIndex \in Nat DEF Frames
    <3>3. QED
      BY <2>1, <3>1, <3>2
  <2>3. emitted \in Seq(Frames')
    BY <2>2, SeqMonotonic DEF EmittedType
  <2>4. QED
    BY <2>1, <2>3 DEF EmittedType
<1>3. QED
  BY <1>1, <1>2

PictureInv ==
  /\ picture = [s \in 0 .. poolSize - 1 |-> picture[s]]
  /\ Len(batch) <= Len(emitted)
  /\ BatchHoldsItsFrames

LEMMA PictureStep ==
  MaxInits <= 1 /\ SlotInv /\ Flow /\ PassTypes /\ EmittedType /\ PictureInv /\ [Next]_vars
    => PictureInv'
<1> SUFFICES ASSUME MaxInits <= 1, SlotInv, Flow, PassTypes, EmittedType, PictureInv, [Next]_vars
             PROVE  PictureInv'
  OBVIOUS
<1> SlotTypes /\ SlotsPartitioned
  BY DEF SlotInv
<1> Len(batch) \in Nat /\ Len(freeSlots) \in Nat /\ Len(emitted) \in Nat /\ poolSize \in Nat
  BY LenProperties DEF SlotTypes, EmittedType
<1>1. CASE Untouched
  BY <1>1, Zenon DEF Untouched, pool, PictureInv, BatchHoldsItsFrames
<1>2. CASE Retires
  <2>1. Len(batch') = 0 /\ UNCHANGED << picture, poolSize, emitted >>
    BY <1>2 DEF Retires, RetireBatch
  <2>2. QED
    BY <2>1 DEF PictureInv, BatchHoldsItsFrames
<1>3. CASE SinkFrame
  <2> DEFINE f    == Oldest(released)
             p    == [chain |-> f, cheap |-> IF wantSplit THEN Head(cheapOut) ELSE f]
             slot == freeSlots[Len(freeSlots)]
  <2>1. picture' = [picture EXCEPT ![slot] = p] /\ emitted' = Append(emitted, f)
    BY <1>3 DEF SinkFrame
  <2>2. /\ Len(batch') = Len(batch) + 1
        /\ \A i \in 1 .. Len(batch) : batch'[i] = batch[i]
        /\ batch'[Len(batch) + 1] = slot
        /\ Len(freeSlots) > 0
        /\ UNCHANGED << inited, poolSize >>
    BY <1>3, SinkFrameStep
  <2>3. p.chain = f
    OBVIOUS
  <2>4. /\ Len(emitted') = Len(emitted) + 1
        /\ \A i \in 1 .. Len(emitted) : emitted'[i] = emitted[i]
        /\ emitted'[Len(emitted) + 1] = f
    <3>1. f \in Frames
      BY <1>3, OldestReleased DEF SinkFrame
    <3>2. QED
      BY <2>1, <3>1, AppendProperties DEF EmittedType
  <2> HIDE DEF f, p, slot
  <2>5. /\ picture' = [s \in 0 .. poolSize' - 1 |-> picture'[s]]
        /\ \A s \in 0 .. poolSize - 1 : picture'[s] = IF s = slot THEN p ELSE picture[s]
    BY <2>1, <2>2, Zenon DEF PictureInv
  <2>6. ASSUME inited, NEW i \in 1 .. Len(batch)
        PROVE  picture'[batch'[i]].chain = emitted'[Len(emitted') - Len(batch') + i]
    <3>1. batch'[i] = batch[i] /\ batch[i] \in 0 .. poolSize - 1
      BY <2>2, <2>6, ElementOfSeq DEF SlotsPartitioned, SlotTypes
    <3>2. batch[i] # slot
      BY <2>2, <2>6 DEF SlotsPartitioned, slot
    <3>3. picture'[batch'[i]] = picture[batch[i]]
      BY <2>5, <3>1, <3>2
    <3>4. Len(emitted') - Len(batch') + i = Len(emitted) - Len(batch) + i
      BY <2>2, <2>4
    <3>5. Len(emitted) - Len(batch) + i \in 1 .. Len(emitted)
      BY DEF PictureInv
    <3>6. emitted'[Len(emitted) - Len(batch) + i] = emitted[Len(emitted) - Len(batch) + i]
      BY <2>4, <3>5
    <3>7. QED
      BY <2>6, <3>3, <3>4, <3>6 DEF PictureInv, BatchHoldsItsFrames
  <2>7. ASSUME inited
        PROVE  picture'[batch'[Len(batch')]].chain = emitted'[Len(emitted')]
    <3>1. slot \in 0 .. poolSize - 1
      BY <2>2, <2>7, ElementOfSeq DEF SlotsPartitioned, SlotTypes, slot
    <3>2. QED
      BY <2>2, <2>3, <2>4, <2>5, <3>1
  <2>8. ASSUME inited', NEW i \in 1 .. Len(batch')
        PROVE  picture'[batch'[i]].chain = emitted'[Len(emitted') - Len(batch') + i]
    <3>1. i \in 1 .. Len(batch) \/ (i = Len(batch') /\ Len(emitted') - Len(batch') + i = Len(emitted'))
      BY <2>2, <2>4
    <3>2. QED
      BY <2>2, <2>6, <2>7, <2>8, <3>1
  <2>9. Len(batch') <= Len(emitted')
    BY <2>2, <2>4 DEF PictureInv
  <2>10. QED
    BY <2>5, <2>8, <2>9 DEF PictureInv, BatchHoldsItsFrames
<1>4. CASE SinkFails
  <2> DEFINE slot == freeSlots[Len(freeSlots)]
  <2>1. /\ picture' = [picture EXCEPT ![slot] = Blank]
        /\ UNCHANGED << inited, poolSize, freeSlots, batch, emitted >>
        /\ freeSlots # << >>
    BY <1>4 DEF SinkFails, config
  <2>2. Len(freeSlots) > 0
    BY <2>1, EmptySeq DEF SlotTypes
  <2> HIDE DEF slot
  <2>3. /\ picture' = [s \in 0 .. poolSize' - 1 |-> picture'[s]]
        /\ \A s \in 0 .. poolSize - 1 : s # slot => picture'[s] = picture[s]
    BY <2>1, Zenon DEF PictureInv
  <2>4. ASSUME inited, NEW i \in 1 .. Len(batch) PROVE picture'[batch[i]] = picture[batch[i]]
    <3>1. batch[i] \in 0 .. poolSize - 1
      BY <2>4, ElementOfSeq DEF SlotsPartitioned, SlotTypes
    <3>2. batch[i] # slot
      BY <2>2, <2>4 DEF SlotsPartitioned, slot
    <3>3. QED
      BY <2>3, <3>1, <3>2
  <2>5. BatchHoldsItsFrames'
    BY <2>1, <2>4 DEF PictureInv, BatchHoldsItsFrames
  <2>6. QED
    BY <2>1, <2>3, <2>5 DEF PictureInv
<1>5. CASE InitSucceeds \/ InitFails
  <2>1. PICK n \in 0 .. Pool : poolSize' = poolSize + n /\ picture' = GrownTo(poolSize + n)
    BY <1>5, SizeAssumption DEF InitSucceeds, InitFails
  <2>2. picture' = [s \in 0 .. poolSize' - 1 |-> picture'[s]]
    BY <2>1, Zenon DEF GrownTo
  <2>3. inits = 0
    BY <1>5, SizeAssumption DEF InitSucceeds, InitFails, SlotTypes
  <2>4. batch' = << >> /\ emitted' = emitted
    BY <1>5, <2>3 DEF InitSucceeds, InitFails, SlotInv, Untapped, history
  <2>5. Len(batch') = 0 /\ Len(emitted') \in Nat
    BY <2>4, Len(emitted) \in Nat
  <2>6. Len(batch') <= Len(emitted') /\ BatchHoldsItsFrames'
    BY <2>5 DEF BatchHoldsItsFrames
  <2>7. QED
    BY <2>2, <2>6 DEF PictureInv
<1>6. CASE Close
  <2>1. picture' = << >> /\ poolSize' = 0 /\ ~ inited' /\ UNCHANGED << batch, emitted >>
    BY <1>6 DEF Close, history
  <2>2. << >> = [s \in 0 .. 0 - 1 |-> << >>[s]]
    OBVIOUS
  <2>3. QED
    BY <2>1, <2>2 DEF PictureInv, BatchHoldsItsFrames
<1>7. CASE \E i \in 1 .. Pool : GetOutputBuf(i)
  BY <1>7, Zenon DEF GetOutputBuf, config, PictureInv, BatchHoldsItsFrames
<1>8. QED
  BY <1>1, <1>2, <1>3, <1>4, <1>5, <1>6, <1>7, PoolSteps

FrameInv == Flow /\ PassTypes /\ EmittedType

LEMMA FrameInit == Init => FrameInv
<1> SUFFICES ASSUME Init PROVE FrameInv
  OBVIOUS
<1>1. PassTypes
  BY DEF Init, PassTypes
<1>2. EmittedType
  BY EmptySeq DEF Init, EmittedType
<1>3. QED
  BY <1>1, <1>2, FlowInit DEF FrameInv

LEMMA FrameStep == FrameInv /\ [Next]_vars => FrameInv'
BY FlowStep, PassTypesStep, EmittedTypeStep DEF FrameInv

(* getoutputbuf() hands out the frames the last call released, in order:   *)
(* no slot of the batch is written while the batch lasts.                  *)
THEOREM BatchCorrect ==
  ASSUME MaxInits <= 1
  PROVE  Spec => []BatchHoldsItsFrames
<1> DEFINE Inv == FrameInv /\ SlotInv /\ PictureInv
<1>1. Init => Inv
  <2>1. Init => PictureInv
    <3> SUFFICES ASSUME Init PROVE PictureInv
      OBVIOUS
    <3>1. picture = << >> /\ poolSize = 0 /\ batch = << >> /\ emitted = << >> /\ ~ inited
      BY DEF Init
    <3>2. << >> = [s \in 0 .. 0 - 1 |-> << >>[s]]
      OBVIOUS
    <3>3. QED
      BY <3>1, <3>2 DEF PictureInv, BatchHoldsItsFrames
  <2>2. QED
    BY <2>1, FrameInit, SlotInit
<1>2. Inv /\ [Next]_vars => Inv'
  <2>1. SlotInv /\ [Next]_vars => SlotInv'
    BY SlotTypesStep, UntappedStep, PartitionStep DEF SlotInv
  <2>2. QED
    BY <2>1, FrameStep, PictureStep DEF FrameInv
<1>3. Inv => BatchHoldsItsFrames
  BY DEF PictureInv
<1>4. QED
  BY <1>1, <1>2, <1>3, PTL DEF Spec

(* After a flush that succeeded no frame comes out, whatever is called.    *)
THEOREM FlushIsFinal == Spec => NothingAfterFlush
<1>1. FrameInv /\ [Next]_vars => [flushed => emitted' = emitted]_vars
  <2> SUFFICES ASSUME FrameInv, [Next]_vars, flushed PROVE emitted' = emitted
    BY DEF vars
  <2>1. ~ SinkFrame
    BY DEF SinkFrame, FrameInv, Flow
  <2>2. QED
    BY <2>1, PoolSteps DEF Untouched, Retires, SinkFails, InitSucceeds, InitFails, Close,
       GetOutputBuf, history
<1>2. QED
  BY <1>1, FrameInit, FrameStep, PTL DEF Spec, NothingAfterFlush

-----------------------------------------------------------------------------
(* The ledger of the batch                                                 *)

LedgerTypes ==
  /\ taken \in Seq(BOOLEAN) /\ Len(taken) = Len(batch)
  /\ droppedUnread \in Nat /\ outTotal \in Nat /\ reads \in Nat

LEMMA UnreadIsFinite ==
  ASSUME SlotTypes
  PROVE  IsFiniteSet(Unread) /\ Cardinality(Unread) \in Nat
<1>1. Len(batch) \in Nat
  BY LenProperties DEF SlotTypes
<1>2. IsFiniteSet(1 .. Len(batch))
  BY <1>1, FS_Interval
<1>3. Unread \in SUBSET (1 .. Len(batch))
  BY DEF Unread
<1>4. IsFiniteSet(Unread)
  BY <1>2, <1>3, FS_Subset
<1>5. QED
  BY <1>4, FS_CardinalityType

LedgerInv == SlotTypes /\ LedgerTypes /\ ReadLedger

LEMMA LedgerStep == LedgerInv /\ [Next]_vars => LedgerInv'
<1> SUFFICES ASSUME LedgerInv, [Next]_vars PROVE LedgerTypes' /\ ReadLedger'
  BY SlotTypesStep DEF LedgerInv
<1>0. SlotTypes /\ LedgerTypes /\ ReadLedger
  BY DEF LedgerInv
<1>n. Len(batch) \in Nat
  BY <1>0, LenProperties DEF SlotTypes
<1>f. IsFiniteSet(Unread) /\ Cardinality(Unread) \in Nat
  BY <1>0, UnreadIsFinite
<1>1. CASE UNCHANGED << batch, taken, droppedUnread, outTotal, reads >>
  BY <1>0, <1>1, Zenon DEF LedgerTypes, ReadLedger, Unread
<1>2. CASE Retires
  <2>1. /\ batch' = << >> /\ taken' = << >>
        /\ droppedUnread' = droppedUnread + Cardinality(Unread)
        /\ UNCHANGED << outTotal, reads >>
    BY <1>2 DEF Retires, RetireBatch
  <2>2. Unread' = {}
    BY <2>1 DEF Unread
  <2>3. Cardinality(Unread') = 0
    BY <2>2, FS_EmptySet
  <2>4. LedgerTypes'
    BY <1>0, <1>f, <2>1, EmptySeq DEF LedgerTypes
  <2>5. QED
    BY <1>0, <1>f, <2>1, <2>3, <2>4 DEF LedgerTypes, ReadLedger
<1>3. CASE SinkFrame
  <2>1. taken' = Append(taken, FALSE) /\ outTotal' = outTotal + 1
        /\ UNCHANGED << droppedUnread, reads >>
    BY <1>3 DEF SinkFrame, history
  <2>2. Len(batch') = Len(batch) + 1
    BY <1>0, <1>3, SinkFrameStep
  <2>3. /\ taken' \in Seq(BOOLEAN) /\ Len(taken') = Len(batch')
        /\ \A i \in 1 .. Len(batch) : taken'[i] = taken[i]
        /\ taken'[Len(batch) + 1] = FALSE
    <3>1. taken \in Seq(BOOLEAN) /\ FALSE \in BOOLEAN
      BY <1>0 DEF LedgerTypes
    <3>2. /\ taken' \in Seq(BOOLEAN)
          /\ Len(taken') = Len(taken) + 1
          /\ \A i \in 1 .. Len(taken) : taken'[i] = taken[i]
          /\ taken'[Len(taken) + 1] = FALSE
      BY <2>1, <3>1, AppendProperties, Zenon
    <3>3. Len(taken) = Len(batch)
      BY <1>0 DEF LedgerTypes
    <3>4. QED
      BY <2>2, <3>2, <3>3, Zenon
  <2>4. Unread' = Unread \cup {Len(batch) + 1}
    BY <1>n, <2>2, <2>3 DEF Unread
  <2>5. Len(batch) + 1 \notin Unread
    BY <1>n DEF Unread
  <2>6. Cardinality(Unread') = Cardinality(Unread) + 1
    BY <1>f, <2>4, <2>5, FS_AddElement
  <2>7. LedgerTypes'
    BY <1>0, <2>1, <2>3 DEF LedgerTypes
  <2>8. QED
    BY <1>0, <1>f, <2>1, <2>6, <2>7 DEF LedgerTypes, ReadLedger
<1>4. ASSUME NEW i \in 1 .. Pool, GetOutputBuf(i) PROVE LedgerTypes' /\ ReadLedger'
  <2>1. /\ i \in 1 .. Len(batch)
        /\ taken' = [taken EXCEPT ![i] = TRUE]
        /\ reads' = IF taken[i] THEN reads ELSE reads + 1
        /\ UNCHANGED << batch, droppedUnread, outTotal >>
    BY <1>4, <1>n, SizeAssumption DEF GetOutputBuf
  <2>2. /\ taken' \in Seq(BOOLEAN) /\ Len(taken') = Len(taken)
        /\ \A j \in 1 .. Len(taken) : taken'[j] = IF j = i THEN TRUE ELSE taken[j]
    <3>1. taken \in Seq(BOOLEAN) /\ i \in 1 .. Len(taken) /\ TRUE \in BOOLEAN
      BY <1>0, <2>1 DEF LedgerTypes
    <3>2. \A e \in BOOLEAN :
            /\ [taken EXCEPT ![i] = e] \in Seq(BOOLEAN)
            /\ Len([taken EXCEPT ![i] = e]) = Len(taken)
            /\ \A j \in 1 .. Len(taken) : [taken EXCEPT ![i] = e][j] = IF j = i THEN e ELSE taken[j]
      BY <3>1, ExceptSeq
    <3>3. QED
      BY <2>1, <3>1, <3>2, Zenon
  <2>3. LedgerTypes'
    BY <1>0, <2>1, <2>2 DEF LedgerTypes
  <2>4. Unread' = Unread \ {i}
    BY <1>0, <2>1, <2>2 DEF Unread, LedgerTypes
  <2>5. Cardinality(Unread') = IF i \in Unread THEN Cardinality(Unread) - 1 ELSE Cardinality(Unread)
    BY <1>f, <2>4, FS_RemoveElement
  <2>6. i \in Unread <=> ~ taken[i]
    BY <2>1 DEF Unread
  <2>7. ReadLedger'
    BY <1>0, <1>f, <2>1, <2>5, <2>6 DEF LedgerTypes, ReadLedger
  <2>8. QED
    BY <2>3, <2>7
<1>5. CASE Untouched \/ SinkFails \/ InitSucceeds \/ InitFails \/ Close
  <2>1. UNCHANGED << batch, taken, droppedUnread, outTotal, reads >>
    BY <1>5 DEF Untouched, pool, SinkFails, InitSucceeds, InitFails, Close, history
  <2>2. QED
    BY <1>1, <2>1
<1>6. QED
  BY <1>2, <1>3, <1>4, <1>5, PoolSteps

LEMMA LedgerInit == Init => LedgerInv
<1> SUFFICES ASSUME Init PROVE LedgerTypes /\ ReadLedger
  BY SlotInit DEF LedgerInv, SlotInv
<1>1. batch = << >> /\ taken = << >> /\ droppedUnread = 0 /\ outTotal = 0 /\ reads = 0
  BY DEF Init
<1>2. Unread = {}
  BY <1>1 DEF Unread
<1>3. Cardinality(Unread) = 0
  BY <1>2, FS_EmptySet
<1>4. QED
  BY <1>1, <1>3, EmptySeq DEF LedgerTypes, ReadLedger

(* Every frame that ever reached a batch was read, or is counted in        *)
(* droppedUnread, or still waits: through repeated init() as well.         *)
THEOREM LedgerCorrect == Spec => []ReadLedger
<1>1. LedgerInv => ReadLedger
  BY DEF LedgerInv
<1>2. QED
  BY <1>1, LedgerInit, LedgerStep, PTL DEF Spec

-----------------------------------------------------------------------------
(* Type correctness                                                        *)

ConfigTypes ==
  /\ cfgSplit \in BOOLEAN /\ cfgClean \in BOOLEAN
  /\ wantSplit \in BOOLEAN /\ wantClean \in BOOLEAN
  /\ inits \in 0 .. MaxInits
  /\ asked \in BOOLEAN /\ failed \in BOOLEAN

LEMMA ConfigTypesStep == ConfigTypes /\ [Next]_vars => ConfigTypes'
<1> SUFFICES ASSUME ConfigTypes, [Next]_vars PROVE ConfigTypes'
  OBVIOUS
<1> USE DEF ConfigTypes
<1>1. CASE Configure
  BY <1>1, ChoiceAssumption DEF Configure, history
<1>2. CASE InitSucceeds \/ InitFails
  <2>1. inits' \in 0 .. MaxInits
    BY <1>2, SizeAssumption DEF InitSucceeds, InitFails
  <2>2. /\ wantSplit' \in {wantSplit, cfgSplit} /\ wantClean' = cfgClean
        /\ UNCHANGED << cfgSplit, cfgClean, asked, failed >>
    BY <1>2 DEF InitSucceeds, InitFails, history
  <2>3. QED
    BY <2>1, <2>2
<1>3. CASE Close
  BY <1>3 DEF Close, history
<1>4. CASE HanddifFlush
  BY <1>4 DEF HanddifFlush, config
<1>5. CASE \/ CheapFeedFails \/ CheapDrainFails \/ ChainFeedFails \/ DrainFails
           \/ FeedStage1Fails \/ CleanDrainFails \/ SinkExhausted \/ SinkFails
  BY <1>5 DEF CheapFeedFails, CheapDrainFails, ChainFeedFails, DrainFails, FeedStage1Fails,
     CleanDrainFails, SinkExhausted, SinkFails, ReturnFalse, config
<1>6. CASE \/ HanddifFrame \/ HanddifRefused \/ CheapFeed \/ CheapDrain \/ ChainFeed \/ Drain
           \/ DrainDone \/ FeedStage1 \/ FeedDone \/ CleanDrain \/ CleanDrainDone \/ FlushDone
           \/ SinkFrame \/ (\E i \in 1 .. Pool : GetOutputBuf(i)) \/ UNCHANGED vars
  <2>1. UNCHANGED << config, asked, failed >>
    BY <1>6 DEF HanddifFrame, HanddifRefused, CheapFeed, CheapDrain, ChainFeed, Drain, DrainDone,
       FeedStage1, FeedDone, CleanDrain, CleanDrainDone, FlushDone, SinkFrame, GetOutputBuf,
       vars, history
  <2>2. QED
    BY <2>1 DEF config
<1>7. QED
  BY <1>1, <1>2, <1>3, <1>4, <1>5, <1>6 DEF Next, InCall, Caller

PictureType == picture \in [0 .. poolSize - 1 -> Picture]

LEMMA PictureTypeStep ==
  SlotTypes /\ FrameInv /\ CheapTypes /\ PictureType /\ [Next]_vars => PictureType'
<1> SUFFICES ASSUME SlotTypes, FrameInv, CheapTypes, PictureType, [Next]_vars PROVE PictureType'
  OBVIOUS
<1> Blank \in Picture
  BY DEF Blank, Picture
<1>1. CASE UNCHANGED << picture, poolSize >>
  BY <1>1 DEF PictureType
<1>2. CASE SinkFrame
  <2> DEFINE f == Oldest(released)
             c == IF wantSplit THEN Head(cheapOut) ELSE f
             slot == freeSlots[Len(freeSlots)]
  <2>1. f \in Frames
    BY <1>2, OldestReleased DEF SinkFrame, FrameInv
  <2>2. wantSplit => Head(cheapOut) \in Frames
    BY <1>2, HeadTailProperties DEF SinkFrame, CheapTypes
  <2>3. inIndex \in Nat
    BY SizeAssumption DEF FrameInv, Flow
  <2>4. f \in Int /\ c \in Int
    BY <2>1, <2>2, <2>3 DEF Frames
  <2>5. picture' = [picture EXCEPT ![slot] = [chain |-> f, cheap |-> c]] /\ poolSize' = poolSize
    BY <1>2 DEF SinkFrame
  <2> HIDE DEF f, c, slot
  <2>6. [chain |-> f, cheap |-> c] \in Picture
    BY <2>4 DEF Picture
  <2>7. QED
    BY <2>5, <2>6 DEF PictureType
<1>3. CASE SinkFails
  BY <1>3 DEF SinkFails, PictureType
<1>4. CASE InitSucceeds \/ InitFails
  <2>1. PICK m \in Nat : poolSize' = m /\ picture' = GrownTo(m)
    <3>1. poolSize \in Nat
      BY DEF SlotTypes
    <3>2. \E n \in 0 .. Pool : poolSize' = poolSize + n /\ picture' = GrownTo(poolSize + n)
      BY <1>4, SizeAssumption DEF InitSucceeds, InitFails
    <3>3. QED
      BY <3>1, <3>2, SizeAssumption
  <2>2. ASSUME NEW s \in 0 .. m - 1
        PROVE  (IF s < poolSize THEN picture[s] ELSE Blank) \in Picture
    BY DEF PictureType, SlotTypes
  <2>3. picture' = [s \in 0 .. m - 1 |-> IF s < poolSize THEN picture[s] ELSE Blank]
    BY <2>1 DEF GrownTo
  <2>4. picture' \in [0 .. m - 1 -> Picture]
    BY <2>2, <2>3
  <2>5. QED
    BY <2>1, <2>4 DEF PictureType
<1>5. CASE Close
  BY <1>5 DEF Close, PictureType
<1>6. QED
  BY <1>1, <1>2, <1>3, <1>4, <1>5, PoolSteps DEF Untouched, Retires, RetireBatch, GetOutputBuf, pool

TypeInv ==
  /\ FrameInv /\ CheapTypes /\ SlotTypes /\ LedgerInv /\ ConfigTypes /\ PictureType

LEMMA TypeInit == Init => TypeInv
<1> SUFFICES ASSUME Init PROVE TypeInv
  OBVIOUS
<1>1. CheapTypes
  BY EmptySeq DEF Init, CheapTypes
<1>2. ConfigTypes
  <2>1. 0 \in 0 .. MaxInits
    BY SizeAssumption
  <2>2. QED
    BY <2>1, Zenon DEF Init, ConfigTypes
<1>3. PictureType
  <2>1. picture = << >> /\ poolSize = 0
    BY DEF Init
  <2>2. QED
    BY <2>1 DEF PictureType
<1>4. QED
  BY <1>1, <1>2, <1>3, FrameInit, SlotInit, LedgerInit DEF TypeInv, SlotInv

(* Every variable keeps its type, and between two calls no frame is left   *)
(* between two filters: whatever fails, and however often init() is called.*)
THEOREM TypeCorrect == Spec => []TypeOK
<1>1. TypeInv /\ [Next]_vars => TypeInv'
  <2> SUFFICES ASSUME TypeInv, [Next]_vars PROVE TypeInv'
    OBVIOUS
  <2>1. FrameInv' /\ SlotTypes' /\ LedgerInv' /\ ConfigTypes'
    BY FrameStep, SlotTypesStep, LedgerStep, ConfigTypesStep DEF TypeInv
  <2>2. CheapTypes' /\ PictureType'
    BY CheapTypesStep, PictureTypeStep DEF TypeInv, FrameInv
  <2>3. QED
    BY <2>1, <2>2 DEF TypeInv
<1>2. TypeInv => TypeOK
  <2> SUFFICES ASSUME TypeInv PROVE TypeOK
    OBVIOUS
  <2>1. inIndex \in 0 .. MaxIn /\ inited \in BOOLEAN /\ flushed \in BOOLEAN /\ call \in Calls
        /\ (call = "idle" => out = {} /\ released = {})
    BY DEF TypeInv, FrameInv, Flow
  <2>2. QED
    BY <2>1, Zenon DEF TypeInv, FrameInv, PassTypes, EmittedType, Frames, CheapTypes, SlotTypes,
       LedgerInv, LedgerTypes, ConfigTypes, PictureType, TypeOK
<1>3. QED
  BY TypeInit, <1>1, <1>2, PTL DEF Spec
-----------------------------------------------------------------------------
(* Before the first init()                                                 *)

(* Nothing has been done: a module that is initialised once starts there.  *)
Fresh ==
  inits = 0 =>
    /\ ~ inited /\ ~ flushed /\ ~ asked /\ ~ failed /\ call = "idle"
    /\ inIndex = 0 /\ emitted = << >>
    /\ chain = {} /\ clean = {} /\ out = {} /\ released = {}
    /\ cheap = {} /\ cheapOut = << >> /\ ~ cheapDrained

LEMMA FreshStep == Flow /\ SlotTypes /\ Fresh /\ [Next]_vars => Fresh'
<1> SUFFICES ASSUME Flow, SlotTypes, Fresh, [Next]_vars, inits' = 0 PROVE Fresh'
  BY DEF Fresh
<1>1. CASE InitSucceeds \/ InitFails
  BY <1>1 DEF InitSucceeds, InitFails, SlotTypes
<1>2. CASE ~ (InitSucceeds \/ InitFails)
  <2>1. inits' = inits
    BY <1>2, PoolSteps DEF Untouched, Retires, SinkFrame, SinkFails, Close, GetOutputBuf, config
  <2>2. ~ inited /\ call = "idle" /\ out = {} /\ released = {}
    BY <2>1 DEF Fresh
  <2>3. Configure \/ UNCHANGED vars
    BY <1>2, <2>2 DEF Next, InCall, Caller, Close, HanddifFrame, HanddifRefused, HanddifFlush,
       GetOutputBuf, CheapFeed, CheapFeedFails, CheapDrain, CheapDrainFails, ChainFeed,
       ChainFeedFails, Drain, DrainFails, DrainDone, Feeding, FeedStage1, FeedStage1Fails,
       FeedDone, CleanDrain, CleanDrainFails, CleanDrainDone, FlushDone, SinkFrame,
       SinkExhausted, SinkFails
  <2>4. UNCHANGED << inits, inited, flushed, asked, failed, call, inIndex, emitted, chain, clean,
                     out, released, cheap, cheapOut, cheapDrained >>
    BY <2>3 DEF Configure, vars, config, passes, side, control, history
  <2>5. QED
    BY <2>1, <2>4, Zenon DEF Fresh
<1>3. QED
  BY <1>1, <1>2

-----------------------------------------------------------------------------
(* Where the frames are                                                    *)

(* The output frames rtgmc has been given. *)
Fed == IF call \in {"cheap", "chain"} THEN 2 * inIndex - 2 ELSE 2 * inIndex

(* What came out is below n, and all that is below n as long as no call    *)
(* has failed.                                                             *)
Sequence(n) ==
  /\ \A i \in 1 .. Len(emitted) : emitted[i] < n
  /\ ~ failed => Len(emitted) = n /\ \A i \in 1 .. Len(emitted) : emitted[i] = i - 1

(* The frames of S are from lo .. hi - 1, and all of these as long as no   *)
(* call has failed.                                                        *)
Holds(S, lo, hi) ==
  /\ S \subseteq lo .. hi - 1
  /\ ~ failed => S = lo .. hi - 1

(* n, a, b and c cut the output stream: what came out is below n, what has *)
(* left the chain below a, what the clean chain holds below b, what rtgmc  *)
(* released below c.                                                       *)
Cut(n, a, b, c) ==
  /\ Sequence(n)
  /\ n <= a /\ a <= b /\ b <= c /\ c <= Fed
  /\ Holds(released, n, a) /\ Holds(clean, a, b) /\ Holds(out, b, c) /\ Holds(chain, c, Fed)
  /\ wantClean \/ a = b

Passes == inited => \E n, a, b, c \in Nat : Cut(n, a, b, c)

LEMMA FedType ==
  ASSUME Flow
  PROVE  Fed \in Nat /\ inIndex \in Nat
BY SizeAssumption DEF Flow, Fed

(* What a filter releases, the oldest frames first, leaves it with the     *)
(* later ones.                                                             *)
LEMMA HoldsSplit ==
  ASSUME NEW lo \in Nat, NEW hi \in Nat, lo <= hi,
         NEW S, Holds(S, lo, hi), NEW R \in OldestSets(S)
  PROVE  \E m \in Nat : lo <= m /\ m <= hi /\ Holds(R, lo, m) /\ Holds(S \ R, m, hi)
<1>0. S \subseteq lo .. hi - 1 /\ (~ failed => S = lo .. hi - 1)
  BY DEF Holds
<1>1. R \subseteq S /\ \A r \in R : \A s \in S \ R : r < s
  BY DEF OldestSets
<1>2. CASE S \ R = {}
  <2>1. R = S
    BY <1>1, <1>2
  <2>2. Holds(R, lo, hi) /\ Holds(S \ R, hi, hi)
    BY <1>0, <1>2, <2>1 DEF Holds
  <2>3. QED
    BY <2>2
<1>3. CASE S \ R # {}
  <2>1. PICK m : m = Oldest(S \ R)
    OBVIOUS
  <2>2. m \in S \ R /\ \A j \in S \ R : m <= j
    <3>1. lo .. hi - 1 \subseteq Nat
      OBVIOUS
    <3>3. S \ R \subseteq Nat
      BY <1>0, <3>1, Zenon
    <3>2. QED
      BY <1>3, <2>1, <3>3, OldestIsFirst, Zenon
  <2>3. m \in Nat /\ lo <= m /\ m <= hi
    BY <1>0, <2>2
  <2>4. R \subseteq lo .. m - 1 /\ S \ R \subseteq m .. hi - 1
    BY <1>0, <1>1, <2>2, <2>3
  <2>5. ASSUME ~ failed PROVE R = lo .. m - 1 /\ S \ R = m .. hi - 1
    <3>1. \A k \in lo .. m - 1 : k \in S /\ k \notin S \ R
      BY <1>0, <2>2, <2>3, <2>5
    <3>2. \A k \in m .. hi - 1 : k \in S /\ k \notin R
      BY <1>0, <2>3, <2>4, <2>5
    <3>3. QED
      BY <2>4, <3>1, <3>2
  <2>6. Holds(R, lo, m) /\ Holds(S \ R, m, hi)
    BY <2>4, <2>5 DEF Holds
  <2>7. QED
    BY <2>3, <2>6
<1>4. QED
  BY <1>2, <1>3

(* Its oldest frame alone. *)
LEMMA HoldsFirst ==
  ASSUME NEW lo \in Nat, NEW hi \in Nat, NEW S, Holds(S, lo, hi), S # {}
  PROVE  /\ Oldest(S) \in Nat /\ lo <= Oldest(S) /\ Oldest(S) + 1 <= hi
         /\ Holds(S \ {Oldest(S)}, Oldest(S) + 1, hi)
         /\ ~ failed => Oldest(S) = lo
<1>1. S \subseteq lo .. hi - 1
  BY DEF Holds
<1> DEFINE x == Oldest(S)
<1>2. x \in S /\ \A j \in S : x <= j
  <2>1. lo .. hi - 1 \subseteq Nat
    OBVIOUS
  <2>2. S \subseteq Nat
    BY <1>1, <2>1, Zenon
  <2>3. QED
    BY <2>2, OldestIsFirst, Zenon
<1> HIDE DEF x
<1>3. x \in Nat /\ lo <= x /\ x + 1 <= hi
  BY <1>1, <1>2
<1>4. S \ {x} \subseteq x + 1 .. hi - 1
  BY <1>1, <1>2, <1>3
<1>5. ASSUME ~ failed PROVE x = lo /\ S \ {x} = x + 1 .. hi - 1
  <2>1. S = lo .. hi - 1
    BY <1>5 DEF Holds
  <2>2. x = lo
    BY <1>2, <1>3, <2>1
  <2>3. QED
    BY <1>3, <2>1, <2>2
<1>6. Holds(S \ {x}, x + 1, hi)
  BY <1>4, <1>5 DEF Holds
<1>7. QED
  BY <1>3, <1>5, <1>6 DEF x

(* The next frames join it. *)
LEMMA HoldsMore ==
  ASSUME NEW lo \in Nat, NEW hi \in Nat, lo <= hi, NEW S, Holds(S, lo, hi),
         NEW x \in Nat, hi <= x, ~ failed => x = hi
  PROVE  Holds(S \cup {x}, lo, x + 1)
<1>1. S \cup {x} \subseteq lo .. (x + 1) - 1
  BY DEF Holds
<1>2. ~ failed => S \cup {x} = lo .. (x + 1) - 1
  BY DEF Holds
<1>3. QED
  BY <1>1, <1>2 DEF Holds

LEMMA HoldsNone ==
  ASSUME NEW lo \in Nat, NEW hi \in Nat, lo <= hi, Holds({}, lo, hi), ~ failed
  PROVE  lo = hi
<1>1. lo \notin lo .. hi - 1
  BY DEF Holds
<1>2. QED
  BY <1>1

LEMMA HoldsEmpty ==
  ASSUME NEW lo \in Nat
  PROVE  Holds({}, lo, lo)
BY DEF Holds

(* Steps that move no frame between two filters, or fail. *)
Still ==
  /\ UNCHANGED << emitted, wantClean, Fed >>
  /\ \/ UNCHANGED << failed, passes >>
     \/ /\ failed' /\ released' = {} /\ out' = {}
        /\ clean' \subseteq clean /\ chain' \subseteq chain

LEMMA StillStep ==
  ASSUME Flow, Passes, inited, Still
  PROVE  Passes'
<1>1. PICK n \in Nat, a \in Nat, b \in Nat, c \in Nat : Cut(n, a, b, c)
  BY DEF Passes
<1>2. CASE UNCHANGED << failed, passes >>
  <2>1. Cut(n, a, b, c)'
    BY <1>1, <1>2, Zenon DEF Still, Cut, Holds, Sequence, passes
  <2>2. QED
    BY <2>1 DEF Passes
<1>3. CASE /\ failed' /\ released' = {} /\ out' = {}
           /\ clean' \subseteq clean /\ chain' \subseteq chain
  <2>1. Cut(n, a, b, c)'
    BY <1>1, <1>3 DEF Still, Cut, Holds, Sequence
  <2>2. QED
    BY <2>1 DEF Passes
<1>4. QED
  BY <1>2, <1>3 DEF Still

(* Which steps these are. *)
LEMMA StillActions ==
  ASSUME Flow,
         \/ HanddifFrame \/ HanddifRefused \/ HanddifFlush
         \/ CheapFeed \/ CheapDrain \/ CheapDrainFails
         \/ DrainDone \/ DrainFails \/ FeedDone \/ CleanDrainDone \/ CleanDrainFails \/ FlushDone
         \/ SinkExhausted \/ SinkFails \/ (\E i \in 1 .. Pool : GetOutputBuf(i)) \/ UNCHANGED vars
  PROVE  Still
<1>1. CASE HanddifFrame
  <2>1. inIndex \in Nat /\ inIndex' = inIndex + 1 /\ call = "idle" /\ call' \in {"cheap", "chain"}
    BY <1>1, FedType DEF HanddifFrame
  <2>2. Fed' = Fed
    BY <2>1 DEF Fed
  <2>3. UNCHANGED << emitted, wantClean, failed, passes >>
    BY <1>1 DEF HanddifFrame, config, history
  <2>4. QED
    BY <2>2, <2>3 DEF Still
<1>2. CASE \/ HanddifRefused \/ HanddifFlush \/ CheapFeed \/ CheapDrain \/ DrainDone \/ FeedDone
           \/ CleanDrainDone \/ FlushDone \/ (\E i \in 1 .. Pool : GetOutputBuf(i)) \/ UNCHANGED vars
  <2>1. UNCHANGED << emitted, wantClean, failed, passes, inIndex >>
    BY <1>2 DEF HanddifRefused, HanddifFlush, CheapFeed, CheapDrain, DrainDone, FeedDone,
       CleanDrainDone, FlushDone, GetOutputBuf, vars, config, control, history
  <2>2. call \in {"cheap", "chain"} <=> call' \in {"cheap", "chain"}
    BY <1>2 DEF HanddifRefused, HanddifFlush, CheapFeed, CheapDrain, DrainDone, FeedDone, Feeding,
       AfterDrain, CleanDrainDone, FlushDone, GetOutputBuf, vars, control
  <2>3. Fed' = Fed
    BY <2>1, <2>2 DEF Fed
  <2>4. QED
    BY <2>1, <2>3 DEF Still
<1>3. CASE CheapDrainFails \/ DrainFails \/ CleanDrainFails \/ SinkExhausted \/ SinkFails
  <2>1. /\ UNCHANGED << emitted, wantClean, inIndex >>
        /\ failed' /\ released' = {} /\ out' = {} /\ call' = "idle"
        /\ clean' \subseteq clean /\ chain' \subseteq chain
    BY <1>3 DEF CheapDrainFails, DrainFails, CleanDrainFails, SinkExhausted, SinkFails,
       ReturnFalse, config
  <2>2. call \notin {"cheap", "chain"}
    BY <1>3 DEF CheapDrainFails, DrainFails, CleanDrainFails, SinkExhausted, SinkFails, Flow
  <2>3. Fed' = Fed
    BY <2>1, <2>2 DEF Fed
  <2>4. QED
    BY <2>1, <2>3 DEF Still
<1>4. QED
  BY <1>1, <1>2, <1>3

(* The frame that comes out is the next one. *)
LEMMA SequenceGrows ==
  ASSUME Flow, EmittedType, NEW n \in Nat, Sequence(n), NEW f \in Nat, n <= f,
         ~ failed => f = n, failed' = failed, emitted' = Append(emitted, f)
  PROVE  Sequence(f + 1)'
<1>i. inIndex \in Nat /\ Len(emitted) \in Nat
  BY FedType, LenProperties DEF EmittedType
<1>1. emitted \in Seq(Nat)
  <2>1. Frames \subseteq Nat
    BY <1>i DEF Frames
  <2>2. QED
    BY <2>1, SeqMonotonic DEF EmittedType
<1>2. /\ Len(emitted') = Len(emitted) + 1
      /\ \A i \in 1 .. Len(emitted) : emitted'[i] = emitted[i]
      /\ emitted'[Len(emitted) + 1] = f
  BY <1>1, AppendProperties
<1>3. \A i \in 1 .. Len(emitted') : i \in 1 .. Len(emitted) \/ i = Len(emitted) + 1
  BY <1>i, <1>2
<1>4. \A i \in 1 .. Len(emitted') : emitted'[i] < f + 1
  <2>1. \A i \in 1 .. Len(emitted) : emitted[i] \in Nat /\ emitted[i] < n
    BY <1>1, ElementOfSeq DEF Sequence
  <2>2. QED
    BY <1>2, <1>3, <2>1
<1>5. ASSUME ~ failed
      PROVE  Len(emitted') = f + 1 /\ \A i \in 1 .. Len(emitted') : emitted'[i] = i - 1
  <2>1. Len(emitted) = n /\ \A i \in 1 .. Len(emitted) : emitted[i] = i - 1
    BY <1>5 DEF Sequence
  <2>2. QED
    BY <1>2, <1>3, <1>5, <2>1
<1>6. QED
  BY <1>4, <1>5 DEF Sequence

(* A step of rtgmc, or of the clean chain, takes the frames it releases    *)
(* out of an interval, and the other filters keep theirs.                  *)
LEMMA PassesStep ==
  MaxInits <= 1 /\ Fresh /\ SlotTypes /\ Flow /\ EmittedType /\ Passes /\ [Next]_vars => Passes'
<1> SUFFICES ASSUME MaxInits <= 1, Fresh, SlotTypes, Flow, EmittedType, Passes, [Next]_vars, inited'
             PROVE  Passes'
  BY DEF Passes
<1>i. Fed \in Nat /\ inIndex \in Nat /\ Len(emitted) \in Nat
  BY FedType, LenProperties DEF EmittedType
<1>1. CASE InitSucceeds
  <2>1. inits = 0
    BY <1>1, SizeAssumption DEF InitSucceeds, SlotTypes
  <2>2. /\ emitted' = << >> /\ inIndex' = 0 /\ call' = "idle"
        /\ released' = {} /\ out' = {} /\ chain' = {} /\ clean' = {}
    BY <1>1, <2>1 DEF Fresh, InitSucceeds, control, history
  <2>3. Fed' = 0
    BY <2>2 DEF Fed
  <2>4. Len(emitted') = 0
    BY <2>2
  <2>5. Cut(0, 0, 0, 0)'
    BY <2>2, <2>3, <2>4 DEF Cut, Holds, Sequence
  <2>6. QED
    BY <2>5 DEF Passes
<1>2. CASE inited
  <2>0. PICK n \in Nat, a \in Nat, b \in Nat, c \in Nat : Cut(n, a, b, c)
    BY <1>2 DEF Passes
  <2>o. n <= a /\ a <= b /\ b <= c /\ c <= Fed
    BY <2>0, Zenon DEF Cut
  <2>s. Sequence(n)
    BY <2>0, Zenon DEF Cut
  <2>h. Holds(released, n, a) /\ Holds(clean, a, b) /\ Holds(out, b, c) /\ Holds(chain, c, Fed)
    BY <2>0, Zenon DEF Cut
  <2>w. wantClean \/ a = b
    BY <2>0, Zenon DEF Cut
  <2>1. CASE CheapFeedFails
    <3>1. /\ UNCHANGED << emitted, wantClean, inIndex, chain, clean >>
          /\ failed' /\ released' = {} /\ out' = {} /\ call' = "idle" /\ call = "cheap"
      BY <2>1 DEF CheapFeedFails, ReturnFalse, config
    <3>2. Fed' = Fed + 2
      BY <1>i, <3>1 DEF Fed
    <3>3. Sequence(n)'
      BY <2>s, <3>1, Zenon DEF Sequence
    <3>4. Holds(released, n, a)' /\ Holds(clean, a, b)' /\ Holds(out, b, c)'
      BY <2>h, <3>1 DEF Holds
    <3>5. Holds(chain, c, Fed)'
      BY <1>i, <2>h, <3>1, <3>2 DEF Holds
    <3>6. c <= Fed'
      BY <1>i, <2>o, <3>2
    <3>7. Cut(n, a, b, c)'
      BY <2>o, <2>w, <3>1, <3>3, <3>4, <3>5, <3>6, Zenon DEF Cut
    <3>8. QED
      BY <3>7 DEF Passes
  <2>2. CASE ChainFeed \/ ChainFeedFails
    <3>1. /\ UNCHANGED << emitted, wantClean, inIndex, clean >>
          /\ call = "chain" /\ call' \in {"feed", "idle"} /\ out = {} /\ released = {}
      BY <2>2 DEF ChainFeed, ChainFeedFails, ReturnFalse, config, history, Flow
    <3>2. Fed' = Fed + 2 /\ Fed = 2 * inIndex - 2
      BY <1>i, <3>1 DEF Fed
    <3> DEFINE held == chain \cup Bob(inIndex - 1)
    <3>3. Holds(held, c, Fed + 2)
      <4>1. Holds(chain \cup {Fed}, c, Fed + 1)
        BY <1>i, <2>o, <2>h, HoldsMore
      <4>2. c <= Fed + 1 /\ Fed + 1 \in Nat /\ (Fed + 1) + 1 = Fed + 2
        BY <1>i, <2>o
      <4>3. Holds((chain \cup {Fed}) \cup {Fed + 1}, c, (Fed + 1) + 1)
        BY <4>1, <4>2, HoldsMore
      <4>4. Bob(inIndex - 1) = {Fed, Fed + 1}
        BY <1>i, <3>2 DEF Bob
      <4>5. held = (chain \cup {Fed}) \cup {Fed + 1}
        BY <4>4
      <4>6. QED
        BY <4>2, <4>3, <4>5, Zenon
    <3>4. CASE ChainFeed
      <4>1. PICK R \in OldestSets(held) : out' = R /\ chain' = held \ R
        BY <3>4 DEF ChainFeed
      <4>2. UNCHANGED << failed, released >>
        BY <3>4 DEF ChainFeed, history
      <4> HIDE DEF held
      <4>3. Fed + 2 \in Nat /\ c <= Fed + 2
        BY <1>i, <2>o
      <4>4. PICK m \in Nat :
              c <= m /\ m <= Fed + 2 /\ Holds(R, c, m) /\ Holds(held \ R, m, Fed + 2)
        BY <3>3, <4>1, <4>3, HoldsSplit
      <4>5. Holds(out, b, m)'
        BY <2>o, <2>h, <3>1, <4>1, <4>2, <4>4 DEF Holds
      <4>6. Holds(chain, m, Fed)'
        BY <3>2, <4>1, <4>2, <4>4, Zenon DEF Holds
      <4>7. Holds(released, n, a)' /\ Holds(clean, a, b)' /\ Sequence(n)'
        BY <2>h, <2>s, <3>1, <4>2, Zenon DEF Holds, Sequence
      <4>8. b <= m /\ m <= Fed'
        BY <1>i, <2>o, <3>2, <4>4
      <4>9. Cut(n, a, b, m)'
        BY <2>o, <2>w, <3>1, <4>5, <4>6, <4>7, <4>8, Zenon DEF Cut
      <4>10. QED
        BY <4>9 DEF Passes
    <3>5. CASE ChainFeedFails
      <4>1. failed' /\ out' = {} /\ released' = {} /\ chain' \subseteq held
        BY <3>5 DEF ChainFeedFails, ReturnFalse
      <4> HIDE DEF held
      <4>2. Holds(released, n, a)' /\ Holds(clean, a, b)' /\ Holds(out, b, c)'
        BY <2>h, <3>1, <4>1 DEF Holds
      <4>3. Holds(chain, c, Fed)'
        BY <3>2, <3>3, <4>1 DEF Holds
      <4>4. Sequence(n)'
        BY <2>s, <3>1, <4>1, Zenon DEF Sequence
      <4>5. c <= Fed'
        BY <1>i, <2>o, <3>2
      <4>6. Cut(n, a, b, c)'
        BY <2>o, <2>w, <3>1, <4>2, <4>3, <4>4, <4>5, Zenon DEF Cut
      <4>7. QED
        BY <4>6 DEF Passes
    <3>6. QED
      BY <2>2, <3>4, <3>5
  <2>3. CASE Drain
    <3>1. /\ UNCHANGED << emitted, wantClean, inIndex, clean, released, failed >>
          /\ call = "drain" /\ call' = "drainFeed" /\ out = {}
      BY <2>3 DEF Drain, config, history, Flow
    <3>2. Fed' = Fed
      BY <3>1 DEF Fed
    <3>3. PICK R \in OldestSets(chain) : out' = R /\ chain' = chain \ R
      BY <2>3 DEF Drain, PendingSets
    <3>4. PICK m \in Nat : c <= m /\ m <= Fed /\ Holds(R, c, m) /\ Holds(chain \ R, m, Fed)
      BY <1>i, <2>o, <2>h, <3>3, HoldsSplit
    <3>5. Holds(out, b, m)'
      BY <2>o, <2>h, <3>1, <3>3, <3>4 DEF Holds
    <3>6. Holds(chain, m, Fed)'
      BY <3>1, <3>2, <3>3, <3>4, Zenon DEF Holds
    <3>7. Holds(released, n, a)' /\ Holds(clean, a, b)' /\ Sequence(n)'
      BY <2>h, <2>s, <3>1, Zenon DEF Holds, Sequence
    <3>8. b <= m /\ m <= Fed'
      BY <1>i, <2>o, <3>2, <3>4
    <3>9. Cut(n, a, b, m)'
      BY <2>o, <2>w, <3>1, <3>5, <3>6, <3>7, <3>8, Zenon DEF Cut
    <3>10. QED
      BY <3>9 DEF Passes
  <2>4. CASE FeedStage1 \/ FeedStage1Fails
    <3>1. /\ UNCHANGED << emitted, wantClean, inIndex, chain >>
          /\ out # {} /\ released = {} /\ call \in {"feed", "drainFeed"}
          /\ call' \in {"feed", "drainFeed", "idle"}
      BY <2>4 DEF FeedStage1, FeedStage1Fails, Feeding, ReturnFalse, config, control, history
    <3>2. Fed' = Fed
      BY <3>1 DEF Fed
    <3>p. /\ Oldest(out) \in Nat /\ b <= Oldest(out) /\ Oldest(out) + 1 <= c
          /\ Holds(out \ {Oldest(out)}, Oldest(out) + 1, c)
          /\ ~ failed => Oldest(out) = b
      BY <2>h, <3>1, HoldsFirst
    <3>q. PICK x \in Nat : x = Oldest(out)
      BY <3>p
    <3>3. /\ x \in Nat /\ b <= x /\ x + 1 <= c
          /\ Holds(out \ {x}, x + 1, c)
          /\ ~ failed => x = b
      BY <3>p, <3>q
    <3> DEFINE held == clean \cup {x}
    <3>4. Holds(held, a, x + 1)
      BY <2>o, <2>h, <3>3, HoldsMore
    <3>5. ~ failed => n = a
      BY <2>o, <2>h, <3>1, HoldsNone
    <3>6. x + 1 \in Nat /\ a <= x + 1 /\ b <= x + 1
      BY <2>o, <3>3
    <3> HIDE DEF held
    <3>7. CASE FeedStage1 /\ wantClean
      <4>1. PICK R \in OldestSets(held) : released' = R /\ clean' = held \ R
        BY <3>q, <3>7 DEF FeedStage1, held
      <4>2. out' = out \ {x} /\ failed' = failed
        BY <3>q, <3>7 DEF FeedStage1, history
      <4>3. PICK m \in Nat :
              a <= m /\ m <= x + 1 /\ Holds(R, a, m) /\ Holds(held \ R, m, x + 1)
        BY <3>4, <3>6, <4>1, HoldsSplit
      <4>4. Holds(released, n, m)'
        BY <2>o, <3>5, <4>1, <4>2, <4>3 DEF Holds
      <4>5. Holds(clean, m, x + 1)' /\ Holds(out, x + 1, c)'
        BY <3>3, <4>1, <4>2, <4>3, Zenon DEF Holds
      <4>6. Holds(chain, c, Fed)' /\ Sequence(n)'
        BY <2>h, <2>s, <3>1, <3>2, <4>2, Zenon DEF Holds, Sequence
      <4>7. n <= m
        BY <2>o, <4>3
      <4>8. Cut(n, m, x + 1, c)'
        BY <2>o, <3>1, <3>2, <3>3, <3>7, <4>3, <4>4, <4>5, <4>6, <4>7, Zenon DEF Cut
      <4>9. QED
        BY <3>6, <4>8, Zenon DEF Passes
    <3>8. CASE FeedStage1 /\ ~ wantClean
      <4>1. released' = {x} /\ clean' = clean /\ out' = out \ {x} /\ failed' = failed
        BY <3>q, <3>8 DEF FeedStage1, history
      <4>2. a = b /\ clean = {}
        BY <2>h, <2>w, <3>8 DEF Holds
      <4>3. Holds(released, n, x + 1)'
        BY <2>o, <3>3, <3>5, <4>1, <4>2 DEF Holds
      <4>4. Holds(clean, x + 1, x + 1)'
        BY <3>6, <4>1, <4>2 DEF Holds
      <4>5. Holds(out, x + 1, c)'
        BY <3>3, <4>1, Zenon DEF Holds
      <4>6. Holds(chain, c, Fed)' /\ Sequence(n)'
        BY <2>h, <2>s, <3>1, <3>2, <4>1, Zenon DEF Holds, Sequence
      <4>7. n <= x + 1 /\ x + 1 <= x + 1
        BY <2>o, <3>3
      <4>8. Cut(n, x + 1, x + 1, c)'
        BY <2>o, <3>1, <3>2, <3>3, <4>3, <4>4, <4>5, <4>6, <4>7, Zenon DEF Cut
      <4>9. QED
        BY <3>6, <4>8, Zenon DEF Passes
    <3>9. CASE FeedStage1Fails
      <4>1. wantClean /\ clean' \subseteq held /\ out' = {} /\ released' = {} /\ failed'
        BY <3>q, <3>9 DEF FeedStage1Fails, ReturnFalse, held
      <4>2. Holds(released, n, a)' /\ Holds(clean, a, x + 1)' /\ Holds(out, x + 1, c)'
        BY <3>4, <4>1 DEF Holds
      <4>3. Holds(chain, c, Fed)'
        BY <2>h, <3>1, <3>2, <4>1 DEF Holds
      <4>4. Sequence(n)'
        BY <2>s, <3>1, <4>1, Zenon DEF Sequence
      <4>5. Cut(n, a, x + 1, c)'
        BY <2>o, <3>1, <3>2, <3>3, <3>6, <4>1, <4>2, <4>3, <4>4, Zenon DEF Cut
      <4>6. QED
        BY <3>6, <4>5, Zenon DEF Passes
    <3>10. QED
      BY <2>4, <3>7, <3>8, <3>9
  <2>5. CASE CleanDrain
    <3>1. /\ UNCHANGED << emitted, wantClean, inIndex, chain, out, failed >>
          /\ call = "cleanDrain" /\ call' = "cleanSink" /\ released = {} /\ clean # {}
      BY <2>5 DEF CleanDrain, config, history, Flow
    <3>2. Fed' = Fed
      BY <3>1 DEF Fed
    <3>3. PICK R \in OldestSets(clean) : released' = R /\ clean' = clean \ R
      BY <2>5 DEF CleanDrain
    <3>4. wantClean
      <4>1. clean \subseteq a .. b - 1
        BY <2>h DEF Holds
      <4>2. a .. a - 1 = {}
        OBVIOUS
      <4>3. a # b
        BY <3>1, <4>1, <4>2
      <4>4. QED
        BY <2>w, <4>3
    <3>5. PICK m \in Nat : a <= m /\ m <= b /\ Holds(R, a, m) /\ Holds(clean \ R, m, b)
      BY <2>o, <2>h, <3>3, HoldsSplit
    <3>6. ~ failed => n = a
      BY <2>o, <2>h, <3>1, HoldsNone
    <3>7. Holds(released, n, m)'
      BY <2>o, <3>1, <3>3, <3>5, <3>6 DEF Holds
    <3>8. Holds(clean, m, b)'
      BY <3>1, <3>3, <3>5, Zenon DEF Holds
    <3>9. Holds(out, b, c)' /\ Holds(chain, c, Fed)' /\ Sequence(n)'
      BY <2>h, <2>s, <3>1, <3>2, Zenon DEF Holds, Sequence
    <3>10. n <= m
      BY <2>o, <3>5
    <3>11. Cut(n, m, b, c)'
      BY <2>o, <3>1, <3>2, <3>4, <3>5, <3>7, <3>8, <3>9, <3>10, Zenon DEF Cut
    <3>12. QED
      BY <3>11 DEF Passes
  <2>6. CASE SinkFrame
    <3>1. /\ UNCHANGED << wantClean, inIndex, call, chain, out, clean, failed >>
          /\ released # {} /\ released' = released \ {Oldest(released)}
          /\ emitted' = Append(emitted, Oldest(released))
      BY <2>6 DEF SinkFrame, config, control
    <3>2. Fed' = Fed
      BY <3>1 DEF Fed
    <3>p. /\ Oldest(released) \in Nat /\ n <= Oldest(released) /\ Oldest(released) + 1 <= a
          /\ Holds(released \ {Oldest(released)}, Oldest(released) + 1, a)
          /\ ~ failed => Oldest(released) = n
      BY <2>h, <3>1, HoldsFirst
    <3>q. PICK f \in Nat : f = Oldest(released)
      BY <3>p
    <3>3. /\ f \in Nat /\ n <= f /\ f + 1 <= a
          /\ Holds(released \ {f}, f + 1, a)
          /\ ~ failed => f = n
      BY <3>p, <3>q
    <3>4. emitted' = Append(emitted, f) /\ released' = released \ {f}
      BY <3>1, <3>q
    <3>5. f + 1 \in Nat
      BY <3>3
    <3>6. Sequence(f + 1)'
      BY <1>i, <2>s, <3>1, <3>3, <3>4, SequenceGrows
    <3>7. Holds(released, f + 1, a)'
      BY <3>1, <3>3, <3>4, Zenon DEF Holds
    <3>8. Holds(clean, a, b)' /\ Holds(out, b, c)' /\ Holds(chain, c, Fed)'
      BY <2>h, <3>1, <3>2, Zenon DEF Holds
    <3>9. Cut(f + 1, a, b, c)'
      BY <2>o, <2>w, <3>1, <3>2, <3>3, <3>6, <3>7, <3>8, Zenon DEF Cut
    <3>10. QED
      BY <3>5, <3>9, Zenon DEF Passes
  <2>7. CASE \/ HanddifFrame \/ HanddifRefused \/ HanddifFlush
             \/ CheapFeed \/ CheapDrain \/ CheapDrainFails
             \/ DrainDone \/ DrainFails \/ FeedDone \/ CleanDrainDone \/ CleanDrainFails \/ FlushDone
             \/ SinkExhausted \/ SinkFails \/ (\E i \in 1 .. Pool : GetOutputBuf(i)) \/ UNCHANGED vars
    BY <1>2, <2>7, StillActions, StillStep
  <2>8. QED
    BY <1>2, <2>1, <2>2, <2>3, <2>4, <2>5, <2>6, <2>7
    DEF Next, InCall, Caller, Configure, InitSucceeds, InitFails, Close
<1>3. QED
  BY <1>1, <1>2 DEF Next, InCall, Caller, Configure, InitFails, Close, HanddifFrame,
     HanddifRefused, HanddifFlush, GetOutputBuf, CheapFeed, CheapFeedFails, CheapDrain,
     CheapDrainFails, ChainFeed, ChainFeedFails, Drain, DrainFails, DrainDone, FeedStage1,
     FeedStage1Fails, FeedDone, CleanDrain, CleanDrainFails, CleanDrainDone, FlushDone,
     SinkFrame, SinkExhausted, SinkFails, Flow, config, vars

-----------------------------------------------------------------------------
(* The caller's flush                                                      *)

(* Which calls come before the flush was asked for, and which after.       *)
Control ==
  /\ asked \in BOOLEAN /\ failed \in BOOLEAN /\ wantSplit \in BOOLEAN /\ cheapDrained \in BOOLEAN
  /\ call \in {"cheap", "chain", "feed"} => ~ asked
  /\ call \in {"cheapDrain", "drain", "drainFeed", "cleanDrain", "cleanSink", "flushEnd"} => asked
  /\ flushed \/ cheapDrained => asked

LEMMA ControlInit == Init => Control
BY DEF Init, Control

LEMMA ControlStep == Flow /\ ConfigTypes /\ Control /\ [Next]_vars => Control'
<1> SUFFICES ASSUME Flow, ConfigTypes, Control, [Next]_vars PROVE Control'
  OBVIOUS
<1>1. CASE Configure \/ Close \/ (\E i \in 1 .. Pool : GetOutputBuf(i)) \/ UNCHANGED vars
  <2>1. UNCHANGED << asked, failed, wantSplit, cheapDrained, call, flushed >>
    BY <1>1 DEF Configure, Close, GetOutputBuf, vars, config, side, control, history
  <2>2. QED
    BY <2>1 DEF Control
<1>2. CASE InitSucceeds \/ InitFails
  <2>1. UNCHANGED << asked, failed, cheapDrained, call, flushed >> /\ wantSplit' \in BOOLEAN
    BY <1>2 DEF InitSucceeds, InitFails, control, history, ConfigTypes
  <2>2. QED
    BY <2>1 DEF Control
<1>3. CASE HanddifFrame
  <2>1. /\ UNCHANGED << asked, failed, wantSplit, cheapDrained, flushed >>
        /\ ~ asked /\ call' \in {"cheap", "chain"}
    BY <1>3 DEF HanddifFrame, AcceptsFrames, config, side, history
  <2>2. QED
    BY <2>1 DEF Control
<1>4. CASE HanddifFlush
  <2>1. /\ UNCHANGED << failed, wantSplit, cheapDrained, flushed >>
        /\ asked' = TRUE /\ call' \in {"idle", "cheapDrain", "drain"}
    BY <1>4 DEF HanddifFlush, config, side
  <2>2. QED
    BY <2>1 DEF Control
<1>5. CASE FlushDone
  <2>1. /\ UNCHANGED << asked, failed, wantSplit, cheapDrained >>
        /\ asked /\ call' = "idle" /\ flushed' = TRUE
    BY <1>5 DEF FlushDone, Control, config, side, history
  <2>2. QED
    BY <2>1 DEF Control
<1>6. CASE CheapDrain
  <2>1. UNCHANGED << asked, failed, wantSplit, flushed >> /\ asked /\ call' \in {"cheapDrain", "drain"}
        /\ cheapDrained' \in BOOLEAN
    BY <1>6 DEF CheapDrain, Control, config, history
  <2>2. QED
    BY <2>1 DEF Control
<1>8. CASE \/ HanddifRefused \/ CheapFeed \/ ChainFeed \/ Drain \/ DrainDone
           \/ FeedStage1 \/ FeedDone \/ CleanDrain \/ CleanDrainDone \/ SinkFrame
  <2>1. UNCHANGED << asked, failed, wantSplit, cheapDrained, flushed >>
    BY <1>8 DEF HanddifRefused, CheapFeed, ChainFeed, Drain, DrainDone, FeedStage1, FeedDone,
       CleanDrain, CleanDrainDone, SinkFrame, config, side, control, history
  <2>2. CASE call' = call
    BY <2>1, <2>2 DEF Control
  <2>3. CASE CheapFeed \/ ChainFeed
    <3>1. ~ asked /\ call' \in {"chain", "feed"}
      BY <2>3 DEF CheapFeed, ChainFeed, Control
    <3>2. QED
      BY <2>1, <3>1 DEF Control
  <2>4. CASE Drain \/ DrainDone \/ CleanDrain \/ CleanDrainDone
    <3>1. asked /\ call' \in {"drainFeed", "cleanDrain", "cleanSink", "flushEnd"}
      BY <2>4 DEF Drain, DrainDone, AfterDrain, CleanDrain, CleanDrainDone, Control
    <3>2. QED
      BY <2>1, <3>1 DEF Control
  <2>5. CASE FeedDone
    <3>1. call' = "idle" \/ (asked /\ call' = "drain")
      BY <2>5 DEF FeedDone, Feeding, Control
    <3>2. QED
      BY <2>1, <3>1 DEF Control
  <2>6. QED
    BY <1>8, <2>2, <2>3, <2>4, <2>5 DEF HanddifRefused, FeedStage1, SinkFrame, control
<1>7. CASE \/ CheapFeedFails \/ CheapDrainFails \/ ChainFeedFails \/ DrainFails
           \/ FeedStage1Fails \/ CleanDrainFails \/ SinkExhausted \/ SinkFails
  <2>1. UNCHANGED << asked, wantSplit, cheapDrained, flushed >> /\ failed' = TRUE /\ call' = "idle"
    BY <1>7 DEF CheapFeedFails, CheapDrainFails, ChainFeedFails, DrainFails, FeedStage1Fails,
       CleanDrainFails, SinkExhausted, SinkFails, ReturnFalse, config, side
  <2>2. QED
    BY <2>1 DEF Control
<1>9. QED
  BY <1>1, <1>2, <1>3, <1>4, <1>5, <1>6, <1>7, <1>8 DEF Next, InCall, Caller

(* What a flush has left behind in the passes.                             *)
Outcome ==
  inited /\ ~ failed =>
    /\ call \in {"cleanDrain", "cleanSink", "flushEnd"} \/ flushed =>
         chain = {} \/ chain = 0 .. 2 * inIndex - 1
    /\ call = "flushEnd" \/ flushed => clean = {} \/ emitted = << >>

LEMMA OutcomeStep ==
  MaxInits <= 1 /\ Fresh /\ SlotTypes /\ Flow /\ Passes /\ Outcome /\ [Next]_vars => Outcome'
<1> SUFFICES ASSUME MaxInits <= 1, Fresh, SlotTypes, Flow, Passes, Outcome, [Next]_vars,
                    inited', ~ failed'
             PROVE  Outcome'
  BY DEF Outcome
<1>1. CASE InitSucceeds
  <2>1. inits = 0
    BY <1>1, SizeAssumption DEF InitSucceeds, SlotTypes
  <2>2. ~ flushed' /\ call' = "idle"
    BY <1>1, <2>1 DEF Fresh, InitSucceeds, control
  <2>3. QED
    BY <2>2 DEF Outcome
<1>2. CASE DrainDone
  <2>1. inited /\ ~ failed /\ ~ flushed /\ flushed' = flushed /\ call' = AfterDrain
        /\ UNCHANGED << chain, clean, inIndex, emitted >>
    BY <1>2 DEF DrainDone, Flow, config, passes, history
  <2>2. chain = {} \/ chain = 0 .. 2 * inIndex - 1
    BY <1>2, <2>1 DEF DrainDone, DrainComplete, ChainGivesUp
  <2>3. ~ wantClean => clean = {}
    <3>1. PICK n \in Nat, a \in Nat, b \in Nat, c \in Nat : Cut(n, a, b, c)
      BY <2>1 DEF Passes
    <3>2. clean \subseteq a .. b - 1 /\ (wantClean \/ a = b)
      BY <3>1, Zenon DEF Cut, Holds
    <3>3. a .. a - 1 = {}
      OBVIOUS
    <3>4. QED
      BY <3>2, <3>3
  <2>4. QED
    BY <2>1, <2>2, <2>3 DEF Outcome, AfterDrain
<1>3. CASE CleanDrainDone
  BY <1>3 DEF CleanDrainDone, CleanGivesUp, Flow, Outcome, config, passes, history
<1>4. CASE FlushDone
  BY <1>4 DEF FlushDone, Flow, Outcome, config, passes, history
<1>5. CASE CleanDrain \/ SinkFrame
  <2>1. /\ inited /\ ~ failed /\ ~ flushed /\ ~ flushed' /\ call' # "flushEnd"
        /\ call \in {"cleanDrain", "cleanSink", "flushEnd"} \/ call' = call
        /\ UNCHANGED << chain, inIndex >>
    <3>1. CASE CleanDrain
      BY <1>5, <3>1 DEF CleanDrain, Flow, config, history
    <3>2. CASE SinkFrame
      BY <3>2 DEF SinkFrame, Flow, config, control
    <3>3. QED
      BY <1>5, <3>1, <3>2
  <2>2. QED
    BY <2>1 DEF Outcome
<1>6. CASE \/ HanddifFrame \/ HanddifFlush \/ CheapFeed \/ CheapDrain \/ ChainFeed \/ Drain
           \/ FeedStage1 \/ FeedDone
  <2>1. CASE flushed
    <3>1. HanddifFlush
      BY <1>6, <2>1 DEF HanddifFrame, AcceptsFrames, CheapFeed, CheapDrain, ChainFeed, Drain,
         FeedStage1, FeedDone, Feeding, Flow
    <3>2. call' = "idle" /\ UNCHANGED << inited, failed, flushed, chain, clean, inIndex, emitted >>
      BY <2>1, <3>1 DEF HanddifFlush, config, passes
    <3>3. QED
      BY <2>1, <3>2 DEF Outcome
  <2>2. CASE ~ flushed
    <3>1. ~ flushed' /\ call' \notin {"cleanDrain", "cleanSink", "flushEnd"}
      BY <1>6, <2>2 DEF HanddifFrame, HanddifFlush, CheapFeed, CheapDrain, ChainFeed, Drain,
         FeedStage1, FeedDone, Feeding, control
    <3>2. QED
      BY <3>1 DEF Outcome
  <2>3. QED
    BY <2>1, <2>2
<1>7. CASE HanddifRefused \/ (\E i \in 1 .. Pool : GetOutputBuf(i)) \/ UNCHANGED vars
  <2>1. UNCHANGED << inited, failed, flushed, call, chain, clean, inIndex, emitted >>
    BY <1>7 DEF HanddifRefused, GetOutputBuf, vars, config, passes, control, history
  <2>2. QED
    BY <2>1, Zenon DEF Outcome
<1>8. QED
  BY <1>1, <1>2, <1>3, <1>4, <1>5, <1>6, <1>7 DEF Next, InCall, Caller, Configure, InitFails,
     Close, CheapFeedFails, CheapDrainFails, ChainFeedFails, DrainFails, FeedStage1Fails,
     CleanDrainFails, SinkExhausted, SinkFails, ReturnFalse, Flow, config

StreamInv ==
  TypeInv /\ Fresh /\ Passes /\ Control /\ Outcome

LEMMA StreamInit == Init => StreamInv
<1> SUFFICES ASSUME Init PROVE Fresh /\ Passes /\ Outcome
  BY TypeInit, ControlInit DEF StreamInv
<1>1. Fresh
  BY DEF Init, Fresh
<1>2. ~ inited
  BY DEF Init
<1>3. QED
  BY <1>1, <1>2 DEF Passes, Outcome

LEMMA TypeStep == TypeInv /\ [Next]_vars => TypeInv'
<1> SUFFICES ASSUME TypeInv, [Next]_vars PROVE TypeInv'
  OBVIOUS
<1>1. FrameInv' /\ SlotTypes' /\ LedgerInv' /\ ConfigTypes'
  BY FrameStep, SlotTypesStep, LedgerStep, ConfigTypesStep DEF TypeInv
<1>2. CheapTypes' /\ PictureType'
  BY CheapTypesStep, PictureTypeStep DEF TypeInv, FrameInv
<1>3. QED
  BY <1>1, <1>2 DEF TypeInv

LEMMA StreamStep == MaxInits <= 1 /\ StreamInv /\ [Next]_vars => StreamInv'
<1> SUFFICES ASSUME MaxInits <= 1, StreamInv, [Next]_vars PROVE StreamInv'
  OBVIOUS
<1>1. TypeInv /\ Flow /\ EmittedType /\ SlotTypes /\ ConfigTypes
  BY DEF StreamInv, TypeInv, FrameInv
<1>2. Fresh /\ Passes /\ Control /\ Outcome
  BY DEF StreamInv
<1>3. TypeInv' /\ Fresh' /\ Passes' /\ Control' /\ Outcome'
  BY <1>1, <1>2, TypeStep, FreshStep, PassesStep, ControlStep, OutcomeStep
<1>4. QED
  BY <1>3 DEF StreamInv

(* What a flush that succeeded leaves behind: everything is out, or of a   *)
(* stream too short for the passes nothing.                                *)
LEMMA FlushOutcome ==
  ASSUME StreamInv, inited, ~ failed, call = "flushEnd" \/ (flushed /\ call = "idle")
  PROVE  Len(emitted) \in {0, 2 * inIndex}
<1>1. Flow /\ EmittedType /\ Outcome
  BY DEF StreamInv, TypeInv, FrameInv
<1>2. inIndex \in Nat /\ Fed = 2 * inIndex
  BY <1>1, FedType DEF Fed
<1>3. out = {} /\ released = {}
  BY <1>1 DEF Flow
<1>4. PICK n \in Nat, a \in Nat, b \in Nat, c \in Nat : Cut(n, a, b, c)
  BY DEF StreamInv, Passes
<1>5. n <= a /\ a <= b /\ b <= c /\ c <= 2 * inIndex /\ Len(emitted) = n
  BY <1>2, <1>4 DEF Cut, Sequence
<1>6. n = a /\ b = c
  <2>1. Holds({}, n, a) /\ Holds({}, b, c)
    BY <1>3, <1>4, Zenon DEF Cut
  <2>2. QED
    BY <1>5, <2>1, HoldsNone
<1>7. clean = a .. b - 1 /\ chain = c .. 2 * inIndex - 1
  <2>1. Holds(clean, a, b) /\ Holds(chain, c, 2 * inIndex)
    BY <1>2, <1>4, Zenon DEF Cut
  <2>2. QED
    BY <2>1 DEF Holds
<1>8. chain = {} \/ chain = 0 .. 2 * inIndex - 1
  BY <1>1 DEF Outcome
<1>9. clean = {} \/ emitted = << >>
  BY <1>1 DEF Outcome
<1>10. CASE inIndex = 0
  BY <1>5, <1>10
<1>11. CASE inIndex > 0 /\ chain = 0 .. 2 * inIndex - 1
  <2>1. 0 \in chain
    BY <1>2, <1>11
  <2>2. c = 0
    BY <1>2, <1>7, <2>1
  <2>3. QED
    BY <1>5, <2>2
<1>12. CASE inIndex > 0 /\ chain = {} /\ clean = {}
  <2>1. ~ (c <= 2 * inIndex - 1)
    BY <1>2, <1>7, <1>12
  <2>2. ~ (a <= b - 1)
    BY <1>7, <1>12
  <2>3. QED
    BY <1>2, <1>5, <1>6, <2>1, <2>2
<1>13. CASE emitted = << >>
  BY <1>13
<1>14. QED
  BY <1>2, <1>8, <1>9, <1>10, <1>11, <1>12, <1>13

(* As long as no call has failed, what came out has no gap, the passes     *)
(* hold the rest, and a flush brings out all of it or, of a stream too     *)
(* short for the temporal filters, nothing.                                *)
THEOREM NothingLost ==
  ASSUME MaxInits <= 1
  PROVE  Spec => []NoSilentLoss
<1>1. StreamInv => NoSilentLoss
  <2> SUFFICES ASSUME StreamInv, ~ failed, inited, call = "idle"
               PROVE  /\ \A i \in 1 .. Len(emitted) : emitted[i] = i - 1
                      /\ chain \cup clean = Len(emitted) .. 2 * inIndex - 1
                      /\ flushed => Len(emitted) \in {0, 2 * inIndex}
    BY DEF NoSilentLoss
  <2>1. Flow
    BY DEF StreamInv, TypeInv, FrameInv
  <2>2. inIndex \in Nat /\ Fed = 2 * inIndex
    BY <2>1, FedType DEF Fed
  <2>3. out = {} /\ released = {}
    BY <2>1 DEF Flow
  <2>4. PICK n \in Nat, a \in Nat, b \in Nat, c \in Nat : Cut(n, a, b, c)
    BY DEF StreamInv, Passes
  <2>5. n <= a /\ a <= b /\ b <= c /\ c <= 2 * inIndex
    BY <2>2, <2>4, Zenon DEF Cut
  <2>6. Len(emitted) = n /\ \A i \in 1 .. Len(emitted) : emitted[i] = i - 1
    BY <2>4, Zenon DEF Cut, Sequence
  <2>7. n = a /\ b = c
    <3>1. Holds({}, n, a) /\ Holds({}, b, c)
      BY <2>3, <2>4, Zenon DEF Cut
    <3>2. QED
      BY <2>5, <3>1, HoldsNone
  <2>8. clean = n .. c - 1 /\ chain = c .. 2 * inIndex - 1
    <3>1. Holds(clean, a, b) /\ Holds(chain, c, 2 * inIndex)
      BY <2>2, <2>4, Zenon DEF Cut
    <3>2. QED
      BY <2>7, <3>1 DEF Holds
  <2>9. chain \cup clean = n .. 2 * inIndex - 1
    BY <2>2, <2>5, <2>7, <2>8
  <2>10. QED
    BY <2>6, <2>9, FlushOutcome
<1>2. QED
  BY <1>1, StreamInit, StreamStep, PTL DEF Spec

(* Every step of the module is a step of the stream its caller is          *)
(* promised, or changes nothing of it: frames come out in order whatever   *)
(* fails, none is skipped before a call has failed, and what a flush does  *)
(* not bring out a failure or too short a stream excuses.                  *)
THEOREM StepsCorrect ==
  ASSUME MaxInits <= 1
  PROVE  Spec => Stream!Init /\ [][Stream!Next]_(Stream!vars)
<1>1. Init => Stream!Init
  BY DEF Init, Stream!Init, Lost
<1>2. StreamInv /\ [Next]_vars => [Stream!Next]_(Stream!vars)
  <2> SUFFICES ASSUME StreamInv, [Next]_vars PROVE Stream!Next \/ UNCHANGED Stream!vars
    OBVIOUS
  <2>t. Flow /\ PassTypes /\ EmittedType /\ Control
    BY DEF StreamInv, TypeInv, FrameInv
  <2> USE DEF Stream!Next, Stream!vars, Lost
  <2>1. CASE HanddifFrame
    BY <2>1, <2>t DEF HanddifFrame, AcceptsFrames, Control, history, Stream!Accept
  <2>2. CASE HanddifFlush
    <3>1. asked' = TRUE /\ UNCHANGED << inIndex, emitted, failed, flushed >> /\ asked \in BOOLEAN
      BY <2>2, <2>t DEF HanddifFlush, Control
    <3>2. QED
      BY <3>1 DEF Stream!Ask
  <2>3. CASE \/ CheapFeedFails \/ CheapDrainFails \/ ChainFeedFails \/ DrainFails
             \/ FeedStage1Fails \/ CleanDrainFails \/ SinkExhausted \/ SinkFails
    <3>1. failed' = TRUE /\ UNCHANGED << inIndex, emitted, asked, flushed >>
      BY <2>3 DEF CheapFeedFails, CheapDrainFails, ChainFeedFails, DrainFails, FeedStage1Fails,
         CleanDrainFails, SinkExhausted, SinkFails, ReturnFalse
    <3>2. QED
      BY <3>1 DEF Stream!Fail
  <2>4. CASE SinkFrame
    <3>1. /\ inited /\ ~ flushed /\ released # {} /\ emitted' = Append(emitted, Oldest(released))
          /\ UNCHANGED << inIndex, asked, failed, flushed >>
      BY <2>4, <2>t DEF SinkFrame, Flow, control
    <3>2. Oldest(released) \in 0 .. 2 * inIndex - 1
      BY <2>t, <3>1, OldestReleased DEF Frames
    <3>3. PICK n \in Nat, a \in Nat, b \in Nat, c \in Nat : Cut(n, a, b, c)
      BY <3>1 DEF StreamInv, Passes
    <3>4. Sequence(n) /\ Holds(released, n, a)
      BY <3>3, Zenon DEF Cut
    <3>5. n <= Oldest(released) /\ (~ failed => Oldest(released) = n)
      BY <3>1, <3>4, HoldsFirst
    <3>6. Stream!StillToCome(Oldest(released))
      <4>1. \A i \in 1 .. Len(emitted) : emitted[i] \in 0 .. 2 * inIndex - 1
        BY <2>t, ElementOfSeq DEF EmittedType, Frames
      <4>2. inIndex \in Nat
        BY <2>t, FedType
      <4>3. QED
        BY <3>2, <3>4, <3>5, <4>1, <4>2 DEF Sequence, Stream!StillToCome
    <3>7. failed \/ Oldest(released) = Len(emitted)
      BY <3>4, <3>5 DEF Sequence
    <3>8. Stream!Emit
      BY <3>1, <3>2, <3>6, <3>7 DEF Stream!Emit
    <3>9. QED
      BY <3>8
  <2>5. CASE FlushDone
    <3>1. /\ inited /\ ~ flushed /\ call = "flushEnd" /\ flushed' = TRUE
          /\ UNCHANGED << inIndex, emitted, asked, failed >>
      BY <2>5, <2>t DEF FlushDone, Flow, control, history
    <3>2. asked
      BY <2>t, <3>1 DEF Control
    <3>3. failed \/ Len(emitted) \in {0, 2 * inIndex}
      BY <3>1, FlushOutcome
    <3>4. CASE Lost'
      <4>1. failed \/ emitted = << >>
        BY <2>t, <3>1, <3>3, <3>4, EmptySeq DEF EmittedType
      <4>2. QED
        BY <3>1, <3>2, <3>4, <4>1 DEF Stream!Lose
    <3>5. CASE ~ Lost'
      BY <3>1, <3>5
    <3>6. QED
      BY <3>4, <3>5
  <2>6. CASE \/ Configure \/ InitSucceeds \/ InitFails \/ Close \/ HanddifRefused
             \/ CheapFeed \/ CheapDrain \/ ChainFeed \/ Drain \/ DrainDone
             \/ FeedStage1 \/ FeedDone \/ CleanDrain \/ CleanDrainDone
             \/ (\E i \in 1 .. Pool : GetOutputBuf(i)) \/ UNCHANGED vars
    <3>1. UNCHANGED << inIndex, emitted, asked, failed, flushed >>
      BY <2>6 DEF Configure, InitSucceeds, InitFails, Close, HanddifRefused, CheapFeed, CheapDrain,
         ChainFeed, Drain, DrainDone, FeedStage1, FeedDone, CleanDrain, CleanDrainDone,
         GetOutputBuf, vars, control, history
    <3>2. QED
      BY <3>1
  <2>7. QED
    BY <2>1, <2>2, <2>3, <2>4, <2>5, <2>6 DEF Next, InCall, Caller
<1>3. QED
  BY <1>1, <1>2, StreamInit, StreamStep, PTL DEF Spec

-----------------------------------------------------------------------------
(* The split                                                               *)

(* The frames the cheap deinterlacer has been given. *)
Given == IF call = "cheap" THEN inIndex - 1 ELSE inIndex

(* The cheap frames that have been put out, those used up included. *)
Ready == Len(emitted) + Len(cheapOut)

(* The cheap queue goes on where the output has stopped.  The cheap side   *)
(* holds at most the last frame it was given, nothing when it was drained, *)
(* and every frame on its way to sink() is behind it.                      *)
Queue ==
  inited /\ ~ failed /\ wantSplit =>
    /\ \A i \in 1 .. Len(cheapOut) : cheapOut[i] = Len(emitted) + i - 1
    /\ \/ cheap = {} /\ Ready = 2 * Given
       \/ Given > 0 /\ cheap = {Given - 1} /\ Ready = 2 * (Given - 1)
    /\ cheapDrained => cheap = {}
    /\ call \in {"drain", "drainFeed"} => cheapDrained
    /\ \A k \in released \cup clean \cup out : k < Ready

LEMMA ReadyType ==
  ASSUME TypeInv
  PROVE  /\ Len(emitted) \in Nat /\ Len(cheapOut) \in Nat /\ Ready \in Nat /\ inIndex \in Nat
         /\ cheapOut \in Seq(Nat)
<1>1. Len(emitted) \in Nat /\ Len(cheapOut) \in Nat /\ inIndex \in Nat
  BY FedType, LenProperties DEF TypeInv, FrameInv, EmittedType, CheapTypes
<1>2. Frames \subseteq Nat
  BY <1>1 DEF Frames
<1>3. cheapOut \in Seq(Nat)
  BY <1>2, SeqMonotonic DEF TypeInv, CheapTypes
<1>4. QED
  BY <1>1, <1>3 DEF Ready

(* The two frames of the input behind those already put out join the queue. *)
LEMMA QueueGrows ==
  ASSUME TypeInv, NEW g \in Nat, Ready = 2 * g,
         \A i \in 1 .. Len(cheapOut) : cheapOut[i] = Len(emitted) + i - 1
  PROVE  /\ Len(Queued(g, 2)) = Len(cheapOut) + 2
         /\ \A i \in 1 .. Len(Queued(g, 2)) : Queued(g, 2)[i] = Len(emitted) + i - 1
<1>1. Len(emitted) \in Nat /\ Len(cheapOut) \in Nat /\ cheapOut \in Seq(Nat)
  BY ReadyType
<1> DEFINE two == SubSeq(BandFrames(g), 1, 2)
<1>2. two \in Seq(Nat) /\ Len(two) = 2 /\ two[1] = 2 * g /\ two[2] = 2 * g + 1
  <2>1. BandFrames(g)[1] = 2 * g /\ BandFrames(g)[2] = 2 * g + 1
    BY DEF BandFrames
  <2>2. \A i \in 1 .. 2 : BandFrames(g)[i] \in Nat
    BY <2>1
  <2>3. /\ two \in Seq(Nat)
        /\ Len(two) = IF 1 <= 2 THEN 2 - 1 + 1 ELSE 0
        /\ \A i \in 1 .. 2 - 1 + 1 : two[i] = BandFrames(g)[1 + i - 1]
    BY <2>2, SubSeqProperties
  <2>4. QED
    BY <2>1, <2>3
<1>3. Queued(g, 2) = cheapOut \o two
  BY DEF Queued
<1> HIDE DEF two
<1>4. /\ Len(cheapOut \o two) = Len(cheapOut) + Len(two)
      /\ \A i \in 1 .. Len(cheapOut) + Len(two) :
           (cheapOut \o two)[i] = IF i <= Len(cheapOut) THEN cheapOut[i] ELSE two[i - Len(cheapOut)]
  BY <1>1, <1>2, ConcatProperties, Zenon
<1>5. \A i \in 1 .. Len(cheapOut) + 2 :
        \/ i \in 1 .. Len(cheapOut)
        \/ ~ (i <= Len(cheapOut)) /\ i = Len(cheapOut) + 1 /\ i - Len(cheapOut) = 1
        \/ ~ (i <= Len(cheapOut)) /\ i = Len(cheapOut) + 2 /\ i - Len(cheapOut) = 2
  BY <1>1
<1>6. Len(emitted) + Len(cheapOut) = 2 * g
  BY DEF Ready
<1>7. ASSUME NEW i \in 1 .. Len(cheapOut) + 2
      PROVE  (cheapOut \o two)[i] = Len(emitted) + i - 1
  <2>1. (cheapOut \o two)[i] = IF i <= Len(cheapOut) THEN cheapOut[i] ELSE two[i - Len(cheapOut)]
    BY <1>2, <1>4
  <2>2. CASE i \in 1 .. Len(cheapOut)
    <3>1. (cheapOut \o two)[i] = cheapOut[i]
      BY <2>1, <2>2
    <3>2. QED
      BY <2>2, <3>1
  <2>3. CASE ~ (i <= Len(cheapOut)) /\ i = Len(cheapOut) + 1 /\ i - Len(cheapOut) = 1
    <3>1. (cheapOut \o two)[i] = 2 * g
      BY <1>2, <2>1, <2>3
    <3>2. QED
      BY <1>1, <1>6, <2>3, <3>1
  <2>4. CASE ~ (i <= Len(cheapOut)) /\ i = Len(cheapOut) + 2 /\ i - Len(cheapOut) = 2
    <3>1. (cheapOut \o two)[i] = 2 * g + 1
      BY <1>2, <2>1, <2>4
    <3>2. QED
      BY <1>1, <1>6, <2>4, <3>1
  <2>5. QED
    BY <1>5, <2>2, <2>3, <2>4
<1>8. QED
  BY <1>2, <1>3, <1>4, <1>7

LEMMA QueueStep ==
  MaxInits <= 1 /\ MinLag >= 1 /\ StreamInv /\ Queue /\ [Next]_vars => Queue'
<1> SUFFICES ASSUME MaxInits <= 1, MinLag >= 1, StreamInv, Queue, [Next]_vars,
                    inited', ~ failed', wantSplit'
             PROVE  Queue'
  BY DEF Queue
<1>t. TypeInv /\ Flow /\ PassTypes /\ Control /\ SlotTypes /\ Fresh
  BY DEF StreamInv, TypeInv, FrameInv
<1>n. /\ Len(emitted) \in Nat /\ Len(cheapOut) \in Nat /\ Ready \in Nat /\ inIndex \in Nat
      /\ cheapOut \in Seq(Nat)
  BY <1>t, ReadyType
<1>1. CASE InitSucceeds
  <2>1. inits = 0
    BY <1>1, <1>t, SizeAssumption DEF InitSucceeds, SlotTypes
  <2>2. /\ cheap' = {} /\ cheapOut' = << >> /\ emitted' = << >> /\ inIndex' = 0
        /\ call' = "idle" /\ ~ cheapDrained'
        /\ released' = {} /\ clean' = {} /\ out' = {}
    BY <1>1, <1>t, <2>1 DEF Fresh, InitSucceeds, control, history
  <2>3. Len(cheapOut') = 0 /\ Len(emitted') = 0
    BY <2>2
  <2>4. Given' = 0 /\ Ready' = 0
    BY <2>2, <2>3 DEF Given, Ready
  <2>5. QED
    BY <2>2, <2>3, <2>4 DEF Queue
<1>2. CASE inited /\ ~ failed /\ wantSplit
  <2>q. /\ \A i \in 1 .. Len(cheapOut) : cheapOut[i] = Len(emitted) + i - 1
        /\ \/ cheap = {} /\ Ready = 2 * Given
           \/ Given > 0 /\ cheap = {Given - 1} /\ Ready = 2 * (Given - 1)
        /\ cheapDrained => cheap = {}
        /\ call \in {"drain", "drainFeed"} => cheapDrained
        /\ \A k \in released \cup clean \cup out : k < Ready
    BY <1>2, Zenon DEF Queue
  <2>1. CASE CheapFeed
    <3>1. /\ call = "cheap" /\ call' = "chain" /\ inIndex > 0 /\ ~ cheapDrained
          /\ UNCHANGED << inIndex, emitted, released, clean, out, cheapDrained >>
      BY <1>t, <2>1 DEF CheapFeed, Flow, Control, passes, history
    <3>2. Given = inIndex - 1 /\ Given' = inIndex
      BY <3>1 DEF Given
    <3>3. CASE cheap = {}
      <4>1. Oldest({inIndex - 1}) = inIndex - 1
        BY <1>n, <3>1 DEF Oldest
      <4>2. cheap \cup {inIndex - 1} = {inIndex - 1}
        BY <3>3
      <4>3. cheap' = {inIndex - 1} /\ cheapOut' = cheapOut
        BY <2>1, <4>1, <4>2 DEF CheapFeed
      <4>4. Ready' = Ready /\ Ready = 2 * (inIndex - 1)
        BY <2>q, <3>1, <3>2, <3>3, <4>3 DEF Ready
      <4>5. QED
        BY <2>q, <3>1, <3>2, <4>3, <4>4 DEF Queue
    <3>4. CASE cheap # {}
      <4> DEFINE g == inIndex - 2
      <4>1. g \in Nat /\ cheap = {g} /\ Ready = 2 * g
        BY <1>n, <2>q, <3>2, <3>4
      <4>2. cheap \cup {inIndex - 1} = {g, g + 1}
        BY <1>n, <4>1
      <4>3. Oldest({g, g + 1}) = g
        <5>1. {g, g + 1} \subseteq Nat /\ {g, g + 1} # {}
          BY <4>1
        <5>2. Oldest({g, g + 1}) \in {g, g + 1} /\ \A j \in {g, g + 1} : Oldest({g, g + 1}) <= j
          BY <5>1, OldestIsFirst, Zenon
        <5>3. QED
          BY <4>1, <5>2
      <4>4. {g, g + 1} # {g} /\ {g, g + 1} \ {g} = {g + 1}
        BY <4>1
      <4>5. cheap' = {g + 1} /\ cheapOut' = Queued(g, 2)
        BY <2>1, <4>2, <4>3, <4>4, Zenon DEF CheapFeed
      <4>6. /\ Len(Queued(g, 2)) = Len(cheapOut) + 2
            /\ \A i \in 1 .. Len(Queued(g, 2)) : Queued(g, 2)[i] = Len(emitted) + i - 1
        BY <1>t, <2>q, <4>1, QueueGrows
      <4>7. Ready' = Ready + 2
        BY <1>n, <3>1, <4>5, <4>6 DEF Ready
      <4>8. Ready' = 2 * (Given' - 1) /\ Given' > 0 /\ g + 1 = Given' - 1
        BY <1>n, <3>1, <3>2, <4>1, <4>7
      <4>9. \A k \in released' \cup clean' \cup out' : k < Ready'
        <5>1. released \cup clean \cup out \subseteq Nat
          BY <1>t, <1>n DEF PassTypes, Frames
        <5>2. QED
          BY <1>n, <2>q, <3>1, <4>7, <5>1
      <4>10. \A i \in 1 .. Len(cheapOut') : cheapOut'[i] = Len(emitted') + i - 1
        BY <3>1, <4>5, <4>6
      <4> HIDE DEF g
      <4>11. QED
        BY <3>1, <4>5, <4>8, <4>9, <4>10 DEF Queue
    <3>5. QED
      BY <3>3, <3>4
  <2>2. CASE CheapDrain
    <3>1. /\ call = "cheapDrain" /\ call' \in {"cheapDrain", "drain"}
          /\ call' = "drain" => cheapDrained'
          /\ UNCHANGED << inIndex, emitted, released, clean, out >>
      BY <2>2 DEF CheapDrain, passes, history
    <3>2. Given = inIndex /\ Given' = inIndex
      BY <3>1 DEF Given
    <3>3. CASE cheap = {}
      <4>1. cheap' = {} /\ cheapOut' = cheapOut
        BY <2>2, <3>3 DEF CheapDrain
      <4>2. Ready' = Ready
        BY <3>1, <4>1 DEF Ready
      <4>3. QED
        BY <2>q, <3>1, <3>2, <3>3, <4>1, <4>2 DEF Queue
    <3>4. CASE cheap # {}
      <4> DEFINE g == inIndex - 1
      <4>1. g \in Nat /\ cheap = {g} /\ Ready = 2 * g
        BY <1>n, <2>q, <3>2, <3>4
      <4>2. Oldest({g}) = g
        BY <4>1 DEF Oldest
      <4>3. cheap' = {} /\ cheapOut' = Queued(g, 2)
        BY <2>2, <3>4, <4>1, <4>2 DEF CheapDrain
      <4>4. /\ Len(Queued(g, 2)) = Len(cheapOut) + 2
            /\ \A i \in 1 .. Len(Queued(g, 2)) : Queued(g, 2)[i] = Len(emitted) + i - 1
        BY <1>t, <2>q, <4>1, QueueGrows
      <4>5. Ready' = Ready + 2
        <5> HIDE DEF g
        <5>1. Len(emitted') = Len(emitted) /\ Len(cheapOut') = Len(cheapOut) + 2
          BY <3>1, <4>3, <4>4
        <5>2. QED
          BY <1>n, <5>1 DEF Ready
      <4>6. Ready' = 2 * Given'
        BY <1>n, <3>2, <4>1, <4>5
      <4>7. \A k \in released' \cup clean' \cup out' : k < Ready'
        <5>1. released \cup clean \cup out \subseteq Nat
          BY <1>t, <1>n DEF PassTypes, Frames
        <5>2. QED
          BY <1>n, <2>q, <3>1, <4>5, <5>1
      <4>8. \A i \in 1 .. Len(cheapOut') : cheapOut'[i] = Len(emitted') + i - 1
        BY <3>1, <4>3, <4>4
      <4> HIDE DEF g
      <4>9. QED
        BY <3>1, <4>3, <4>6, <4>7, <4>8 DEF Queue
    <3>5. QED
      BY <3>3, <3>4
  <2>3. CASE ChainFeed \/ Drain
    <3>1. /\ call' \in {"feed", "drainFeed"} /\ call # "cheap" /\ out' \subseteq Int
          /\ call' = "drainFeed" => cheapDrained
          /\ UNCHANGED << inIndex, emitted, released, clean, cheap, cheapOut, cheapDrained >>
      <4>1. inIndex > 0 => Bob(inIndex - 1) \subseteq Int
        BY <1>n DEF Bob
      <4>2. chain \subseteq Int
        BY <1>t, <1>n DEF PassTypes, Frames
      <4>3. CASE ChainFeed
        BY <1>t, <4>1, <4>2, <4>3 DEF ChainFeed, Flow, OldestSets, side, history
      <4>4. CASE Drain
        BY <2>q, <4>2, <4>4 DEF Drain, PendingSets, OldestSets, side, history
      <4>5. QED
        BY <2>3, <4>3, <4>4
    <3>2. Given = inIndex /\ Given' = inIndex /\ Ready' = Ready
      BY <3>1 DEF Given, Ready
    <3>3. \A k \in out' : k < Ready
      <4>1. CASE ChainFeed
        <5>1. \A k \in out' : k < 2 * (inIndex - MinLag)
          BY <4>1 DEF ChainFeed
        <5>2. Ready >= 2 * (inIndex - 1)
          BY <1>n, <2>q, <3>2
        <5>3. 2 * (inIndex - MinLag) \in Int /\ 2 * (inIndex - MinLag) <= 2 * (inIndex - 1)
          BY <1>n, SizeAssumption
        <5>4. QED
          BY <1>n, <3>1, <5>1, <5>2, <5>3
      <4>2. CASE Drain
        <5>1. out' \subseteq chain
          BY <4>2 DEF Drain, PendingSets, OldestSets
        <5>2. \A k \in chain : k < 2 * inIndex
          BY <1>t, <1>n DEF PassTypes, Frames
        <5>3. cheap = {}
          BY <2>q, <4>2 DEF Drain
        <5>4. Ready = 2 * inIndex
          BY <2>q, <3>2, <5>3
        <5>5. QED
          BY <5>1, <5>2, <5>4
      <4>3. QED
        BY <2>3, <4>1, <4>2
    <3>4. \A k \in released' \cup clean' \cup out' : k < Ready'
      BY <2>q, <3>1, <3>2, <3>3
    <3>5. QED
      BY <2>q, <3>1, <3>2, <3>4 DEF Queue
  <2>4. CASE SinkFrame
    <3>1. /\ cheapOut # << >> /\ cheapOut' = Tail(cheapOut)
          /\ emitted' = Append(emitted, Oldest(released))
          /\ UNCHANGED << inIndex, call, cheap, cheapDrained, clean, out >>
          /\ released' \subseteq released
      BY <1>2, <2>4 DEF SinkFrame, control
    <3>2. /\ Len(cheapOut') = Len(cheapOut) - 1
          /\ \A i \in 1 .. Len(cheapOut') : cheapOut'[i] = cheapOut[i + 1]
      BY <1>n, <3>1, HeadTailProperties
    <3>3. Len(emitted') = Len(emitted) + 1
      <4>1. released # {}
        BY <2>4 DEF SinkFrame
      <4>2. Oldest(released) \in Frames /\ emitted \in Seq(Frames)
        BY <1>t, <4>1, OldestReleased DEF TypeInv, FrameInv, EmittedType
      <4>3. QED
        BY <3>1, <4>2, AppendProperties
    <3>4. Given' = Given /\ Ready' = Ready
      BY <1>n, <3>1, <3>2, <3>3 DEF Given, Ready
    <3>5. \A i \in 1 .. Len(cheapOut') : cheapOut'[i] = Len(emitted') + i - 1
      BY <1>n, <2>q, <3>2, <3>3
    <3>6. QED
      BY <2>q, <3>1, <3>4, <3>5 DEF Queue
  <2>5. CASE FeedStage1 \/ CleanDrain
    <3>1. /\ UNCHANGED << inIndex, emitted, cheap, cheapOut, cheapDrained >>
          /\ call # "cheap" /\ call' # "cheap"
          /\ call' \in {"drain", "drainFeed"} => call' = call
          /\ released' \cup clean' \cup out' \subseteq released \cup clean \cup out
      <4>1. CASE FeedStage1
        <5>1. out # {} /\ out \subseteq Nat
          BY <1>t, <1>n, <4>1 DEF FeedStage1, PassTypes, Frames
        <5>2. Oldest(out) \in out
          BY <5>1, OldestIsFirst, Zenon
        <5>3. released' \cup clean' \cup out' \subseteq released \cup clean \cup out
          BY <4>1, <5>2 DEF FeedStage1, OldestSets
        <5>4. QED
          BY <4>1, <5>3 DEF FeedStage1, Feeding, side, control, history
      <4>2. CASE CleanDrain
        BY <4>2 DEF CleanDrain, OldestSets, side, control, history
      <4>3. QED
        BY <2>5, <4>1, <4>2
    <3>2. Given' = Given /\ Ready' = Ready
      BY <3>1 DEF Given, Ready
    <3>3. \A k \in released' \cup clean' \cup out' : k < Ready'
      BY <2>q, <3>1, <3>2
    <3>4. QED
      BY <2>q, <3>1, <3>2, <3>3 DEF Queue
  <2>6. CASE \/ HanddifFrame \/ HanddifRefused \/ HanddifFlush \/ DrainDone \/ FeedDone
             \/ CleanDrainDone \/ FlushDone \/ (\E i \in 1 .. Pool : GetOutputBuf(i))
             \/ UNCHANGED vars
    <3>1. /\ UNCHANGED << emitted, cheap, cheapOut, cheapDrained, released, clean, out >>
          /\ call' \in {"drain", "drainFeed"} => call \in {"drain", "drainFeed"} \/ cheapDrained
      <4>1. CASE HanddifFlush
        BY <1>2, <4>1 DEF HanddifFlush, CheapDrainDue, passes, side
      <4>2. CASE \/ HanddifFrame \/ HanddifRefused \/ DrainDone \/ FeedDone
                 \/ CleanDrainDone \/ FlushDone \/ (\E i \in 1 .. Pool : GetOutputBuf(i))
                 \/ UNCHANGED vars
        BY <4>2 DEF HanddifFrame, HanddifRefused, DrainDone, AfterDrain, FeedDone, Feeding,
           CleanDrainDone, FlushDone, GetOutputBuf, vars, passes, side, control, history
      <4>3. QED
        BY <2>6, <4>1, <4>2
    <3>2. Given' = Given
      <4>1. CASE HanddifFrame
        <5>1. call = "idle" /\ call' = "cheap" /\ inIndex' = inIndex + 1
          BY <1>2, <4>1 DEF HanddifFrame
        <5>2. QED
          BY <1>n, <5>1 DEF Given
      <4>2. CASE \/ HanddifRefused \/ HanddifFlush \/ DrainDone \/ FeedDone
                 \/ CleanDrainDone \/ FlushDone \/ (\E i \in 1 .. Pool : GetOutputBuf(i))
                 \/ UNCHANGED vars
        <5>1. inIndex' = inIndex /\ (call' = "cheap" <=> call = "cheap")
          BY <4>2 DEF HanddifRefused, HanddifFlush, DrainDone, AfterDrain, FeedDone, Feeding,
             CleanDrainDone, FlushDone, GetOutputBuf, vars, control
        <5>2. QED
          BY <5>1 DEF Given
      <4>3. QED
        BY <2>6, <4>1, <4>2
    <3>3. Ready' = Ready
      BY <3>1 DEF Ready
    <3>4. QED
      BY <2>q, <3>1, <3>2, <3>3 DEF Queue
  <2>7. QED
    BY <1>2, <2>1, <2>2, <2>3, <2>4, <2>5, <2>6 DEF Next, InCall, Caller, Configure,
       InitSucceeds, InitFails, Close, CheapFeedFails, CheapDrainFails, ChainFeedFails,
       DrainFails, FeedStage1Fails, CleanDrainFails, SinkExhausted, SinkFails, ReturnFalse
<1>3. QED
  <2>1. CASE inited
    <3>1. ~ failed /\ wantSplit
      BY <2>1, <1>t DEF Next, InCall, Caller, Configure, InitSucceeds, InitFails, Close,
         HanddifFrame, HanddifRefused, HanddifFlush, GetOutputBuf, CheapFeed, CheapFeedFails,
         CheapDrain, CheapDrainFails, ChainFeed, ChainFeedFails, Drain, DrainFails, DrainDone,
         FeedStage1, FeedStage1Fails, FeedDone, CleanDrain, CleanDrainFails, CleanDrainDone,
         FlushDone, SinkFrame, SinkExhausted, SinkFails, ReturnFalse, Control, config, history,
         vars
    <3>2. QED
      BY <1>2, <2>1, <3>1
  <2>2. CASE ~ inited
    <3>1. InitSucceeds
      BY <1>t, <2>2 DEF Next, InCall, Caller, Configure, InitFails, Close, HanddifFrame,
         HanddifRefused, HanddifFlush, GetOutputBuf, CheapFeed, CheapFeedFails, CheapDrain,
         CheapDrainFails, ChainFeed, ChainFeedFails, Drain, DrainFails, DrainDone, FeedStage1,
         FeedStage1Fails, FeedDone, CleanDrain, CleanDrainFails, CleanDrainDone, FlushDone,
         SinkFrame, SinkExhausted, SinkFails, Flow, config, vars
    <3>2. QED
      BY <1>1, <3>1
  <2>3. QED
    BY <2>1, <2>2

LEMMA QueueInit == Init => Queue
BY DEF Init, Queue

SplitInv == StreamInv /\ Queue

(* While no call has failed the chain never gets ahead of the cheap side:  *)
(* each frame released has its partner queued.  The chain must hold back   *)
(* an input frame at least; nothing in the code but the filters' own       *)
(* delays says that it does.                                               *)
THEOREM InStep ==
  ASSUME MaxInits <= 1, MinLag >= 1
  PROVE  Spec => []NeverOutOfStep
<1>1. Init => SplitInv
  BY StreamInit, QueueInit DEF SplitInv
<1>2. SplitInv /\ [Next]_vars => SplitInv'
  BY StreamStep, QueueStep DEF SplitInv
<1>3. SplitInv => NeverOutOfStep
  <2> SUFFICES ASSUME SplitInv, ~ failed, wantSplit PROVE Len(cheapOut) >= Cardinality(released)
    BY DEF NeverOutOfStep
  <2>1. TypeInv /\ Flow
    BY DEF SplitInv, StreamInv, TypeInv, FrameInv
  <2>2. Len(emitted) \in Nat /\ Len(cheapOut) \in Nat
    BY <2>1, ReadyType
  <2>3. CASE ~ inited
    <3>1. released = {}
      BY <2>1, <2>3 DEF Flow
    <3>2. Cardinality(released) = 0
      BY <3>1, FS_EmptySet
    <3>3. QED
      BY <2>2, <3>2
  <2>4. CASE inited
    <3>1. PICK n \in Nat, a \in Nat, b \in Nat, c \in Nat : Cut(n, a, b, c)
      BY <2>4 DEF SplitInv, StreamInv, Passes
    <3>2. n <= a /\ released = n .. a - 1 /\ Len(emitted) = n
      BY <3>1 DEF Cut, Holds, Sequence
    <3>3. \A k \in released : k < n + Len(cheapOut)
      BY <2>4, <3>2 DEF SplitInv, Queue, Ready
    <3>4. a - n <= Len(cheapOut)
      <4>1. CASE n < a
        <5>1. a - 1 \in released
          BY <3>2, <4>1
        <5>2. a - 1 < n + Len(cheapOut)
          BY <3>3, <5>1
        <5>3. QED
          BY <2>2, <5>2
      <4>2. QED
        BY <2>2, <3>2, <4>1
    <3>5. Cardinality(n .. a - 1) = IF n > a - 1 THEN 0 ELSE a - 1 - n + 1
      BY FS_Interval
    <3>6. QED
      BY <2>2, <3>2, <3>4, <3>5
  <2>5. QED
    BY <2>3, <2>4
<1>4. QED
  BY <1>1, <1>2, <1>3, PTL DEF Spec

-----------------------------------------------------------------------------
(* The bands of a picture                                                  *)

PairStepInv == SplitInv /\ SlotInv /\ PictureInv /\ PairsMatch

LEMMA PairStep ==
  MaxInits <= 1 /\ PairStepInv /\ [Next]_vars => PairsMatch'
<1> SUFFICES ASSUME MaxInits <= 1, PairStepInv, [Next]_vars, ~ failed', inited'
             PROVE  \A i \in 1 .. Len(batch') :
                      picture'[batch'[i]].chain = picture'[batch'[i]].cheap
  BY DEF PairsMatch
<1>t. /\ TypeInv /\ SlotTypes /\ SlotsPartitioned /\ Untapped /\ Flow /\ PassTypes /\ Control
      /\ PictureInv /\ PairsMatch
  BY DEF PairStepInv, SplitInv, StreamInv, SlotInv, TypeInv, FrameInv
<1>s. SlotTypes
  BY <1>t
<1>n. Len(batch) \in Nat /\ Len(freeSlots) \in Nat /\ poolSize \in Nat
  BY <1>t, LenProperties DEF SlotTypes
<1>1. CASE SinkFrame
  <2> DEFINE p    == [chain |-> Oldest(released),
                      cheap |-> IF wantSplit THEN Head(cheapOut) ELSE Oldest(released)]
             slot == freeSlots[Len(freeSlots)]
  <2>1. /\ picture' = [picture EXCEPT ![slot] = p] /\ released # {}
        /\ wantSplit => cheapOut # << >>
        /\ inited /\ ~ failed
    BY <1>1 DEF SinkFrame, config
  <2>2. p.chain = p.cheap
    <3>1. PICK n \in Nat, a \in Nat, b \in Nat, c \in Nat : Cut(n, a, b, c)
      BY <2>1 DEF PairStepInv, SplitInv, StreamInv, Passes
    <3>2. Holds(released, n, a) /\ Len(emitted) = n
      BY <2>1, <3>1 DEF Cut, Sequence
    <3>3. Oldest(released) = Len(emitted)
      BY <2>1, <3>2, HoldsFirst
    <3>4. ASSUME wantSplit PROVE Head(cheapOut) = Len(emitted)
      <4>1. \A i \in 1 .. Len(cheapOut) : cheapOut[i] = Len(emitted) + i - 1
        BY <2>1, <3>4 DEF PairStepInv, SplitInv, Queue
      <4>2. cheapOut \in Seq(Nat) /\ Len(emitted) \in Nat
        BY <1>t, ReadyType
      <4>3. 1 \in 1 .. Len(cheapOut) /\ Head(cheapOut) = cheapOut[1]
        BY <2>1, <3>4, <4>2, HeadTailProperties, EmptySeq, LenProperties
      <4>4. QED
        BY <4>1, <4>2, <4>3
    <3>5. QED
      BY <3>3, <3>4
  <2>3. /\ Len(batch') = Len(batch) + 1
        /\ \A i \in 1 .. Len(batch) : batch'[i] = batch[i]
        /\ batch'[Len(batch) + 1] = slot
        /\ Len(freeSlots) \in Nat \ {0}
        /\ UNCHANGED << inited, poolSize >>
    BY <1>1, <1>s, SinkFrameStep, Zenon
  <2> HIDE DEF p, slot
  <2>4. \A s \in 0 .. poolSize - 1 : picture'[s] = IF s = slot THEN p ELSE picture[s]
    BY <1>t, <2>1, Zenon DEF PictureInv
  <2>5. ASSUME NEW i \in 1 .. Len(batch)
        PROVE  picture'[batch'[i]].chain = picture'[batch'[i]].cheap
    <3>1. batch'[i] = batch[i] /\ batch[i] \in 0 .. poolSize - 1
      BY <1>t, <2>1, <2>3, ElementOfSeq DEF SlotsPartitioned, SlotTypes
    <3>2. batch[i] # slot
      BY <1>n, <1>t, <2>1, <2>3 DEF SlotsPartitioned, slot
    <3>3. picture'[batch'[i]] = picture[batch[i]]
      BY <2>4, <3>1, <3>2
    <3>4. QED
      BY <1>t, <2>1, <3>3 DEF PairsMatch
  <2>6. picture'[batch'[Len(batch) + 1]].chain = picture'[batch'[Len(batch) + 1]].cheap
    <3>1. slot \in 0 .. poolSize - 1
      BY <1>n, <1>t, <2>1, <2>3, ElementOfSeq DEF SlotsPartitioned, SlotTypes, slot
    <3>2. QED
      BY <2>2, <2>3, <2>4, <3>1
  <2>7. \A i \in 1 .. Len(batch') : i \in 1 .. Len(batch) \/ i = Len(batch) + 1
    BY <1>n, <2>3
  <2>8. QED
    BY <2>5, <2>6, <2>7
<1>2. CASE Retires
  <2>1. Len(batch') = 0
    BY <1>2 DEF Retires, RetireBatch
  <2>2. QED
    BY <2>1
<1>3. CASE InitSucceeds \/ InitFails
  <2>1. inits = 0
    <3>1. inits < MaxInits
      BY <1>3, Zenon DEF InitSucceeds, InitFails
    <3>2. inits \in Nat
      BY <1>s, Zenon DEF SlotTypes
    <3>3. QED
      BY <3>1, <3>2, SizeAssumption
  <2>2. batch' = << >>
    BY <1>3, <1>t, <2>1, Zenon DEF InitSucceeds, InitFails, Untapped
  <2>3. Len(batch') = 0
    BY <2>2
  <2>4. QED
    BY <2>3
<1>4. CASE UNCHANGED << inited, picture, batch >>
  <2>1. ~ failed
    BY <1>t, Zenon DEF Control, Next, InCall, Caller, Configure, InitSucceeds, InitFails, Close,
       HanddifFrame, HanddifRefused, HanddifFlush, GetOutputBuf, CheapFeed, CheapFeedFails,
       CheapDrain, CheapDrainFails, ChainFeed, ChainFeedFails, Drain, DrainFails, DrainDone,
       FeedStage1, FeedStage1Fails, FeedDone, CleanDrain, CleanDrainFails, CleanDrainDone,
       FlushDone, SinkFrame, SinkExhausted, SinkFails, ReturnFalse, history, vars
  <2>2. QED
    BY <1>t, <1>4, <2>1, Zenon DEF PairsMatch
<1>5. QED
  BY <1>1, <1>2, <1>3, <1>4, PoolSteps DEF Untouched, pool, SinkFails, ReturnFalse, Close,
     GetOutputBuf, config

(* Both bands of every frame in the batch come from the same output frame  *)
(* as long as no call has failed, whatever the delays of the two sides.    *)
THEOREM PairsCorrect ==
  ASSUME MaxInits <= 1, MinLag >= 1
  PROVE  Spec => []PairsMatch
<1>1. Init => PairStepInv
  <2> SUFFICES ASSUME Init PROVE PictureInv /\ PairsMatch
    BY StreamInit, QueueInit, SlotInit DEF PairStepInv, SplitInv
  <2>1. picture = << >> /\ poolSize = 0 /\ batch = << >> /\ emitted = << >> /\ ~ inited
    BY DEF Init
  <2>2. << >> = [s \in 0 .. 0 - 1 |-> << >>[s]]
    OBVIOUS
  <2>3. QED
    BY <2>1, <2>2 DEF PictureInv, BatchHoldsItsFrames, PairsMatch
<1>2. PairStepInv /\ [Next]_vars => PairStepInv'
  <2> SUFFICES ASSUME PairStepInv, [Next]_vars PROVE PairStepInv'
    OBVIOUS
  <2>1. SplitInv'
    BY StreamStep, QueueStep DEF PairStepInv, SplitInv
  <2>2. SlotInv'
    BY SlotTypesStep, UntappedStep, PartitionStep DEF PairStepInv, SlotInv
  <2>3. PictureInv'
    BY PictureStep DEF PairStepInv, SplitInv, StreamInv, TypeInv, FrameInv
  <2>4. PairsMatch'
    BY PairStep
  <2>5. QED
    BY <2>1, <2>2, <2>3, <2>4 DEF PairStepInv
<1>3. QED
  BY <1>1, <1>2, PTL DEF Spec, PairStepInv
=============================================================================
