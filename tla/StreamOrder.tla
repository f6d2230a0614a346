---------------------------- MODULE StreamOrder ----------------------------
(***************************************************************************)
(* What the host has queued on the CUDA stream and what the device has     *)
(* done of it: the input copies into the ring inBufs, the work of the      *)
(* chain into the slots of outPool, the output copies of getoutputbuf(),   *)
(* and around them the uploads and downloads of a caller with one device   *)
(* buffer for each direction, as RtgmDifTest has.                          *)
(*                                                                         *)
(* The calls only queue work.  Every buffer of the module is used again    *)
(* while work on its old contents is still queued, and the order of the    *)
(* stream is all that keeps a frame whole.  A frame is its number; to keep *)
(* the instances small one frame comes out for each that goes in, Lag      *)
(* calls later.  Device failures are not modelled.                         *)
(***************************************************************************)
EXTENDS Integers, Sequences

CONSTANTS
  Ring,          (* RTGMDIF_IN_BUF_RING                                     *)
  Lag,           (* input frames the filters keep references to, fewer than *)
                 (* the ring and the pool have room for                     *)
  Pool,          (* RtgmDifConfig::outputPoolFrames                         *)
  Owns,          (* whether the module makes the stream or the caller does  *)
  MaxHanded,     (* Bound on the frames handed in                           *)
  MaxReads       (* Bound on the getoutputbuf() calls for one batch         *)

ASSUME OrderAssumption ==
  /\ Ring \in Nat /\ Pool \in Nat /\ MaxHanded \in Nat /\ MaxReads \in Nat
  /\ Lag \in Nat /\ Lag < Ring /\ Lag < Pool
  /\ Owns \subseteq BOOLEAN

VARIABLES
  ownsStream,
  queue,         (* the work on the stream the device has not done yet      *)
  devIn,         (* the frame in the caller's input buffer                  *)
  devOut,        (* the frame in the caller's output buffer                 *)
  inBuf,         (* the frame in each buffer of inBufs                      *)
  slot,          (* the frame in each slot of outPool                       *)
  inPut,
  inIndex,
  uploaded,      (* frames the caller has uploaded                          *)
  freeSlots,
  batch,         (* the batch's slots, with the frame each stands for       *)
  flushed,
  host,          (* what the caller waits for or does next                  *)
  nReads,        (* getoutputbuf() calls for this batch                     *)
  wanted,        (* the frame getoutputbuf() was last called for            *)
  got            (* history: <<frame asked for, frame received>>            *)

device == << devIn, devOut, inBuf, slot >>
orderVars ==
  << ownsStream, queue, device, inPut, inIndex, uploaded, freeSlots, batch, flushed, host,
     nReads, wanted, got >>

NoFrame == -1
Frame == Int

(* Work on the stream. *)
Work ==
  [op : {"upload"}, frame : Frame]
    \cup [op : {"inCopy"}, buf : Nat]
    \cup [op : {"chain"}, buf : Nat, slot : Nat]
    \cup [op : {"outCopy"}, slot : Nat]
    \cup [op : {"download"}, frame : Frame]

OrderInit ==
  /\ ownsStream \in Owns
  /\ queue = << >>
  /\ devIn = NoFrame
  /\ devOut = NoFrame
  /\ inBuf = [b \in 0 .. Ring - 1 |-> NoFrame]
  /\ slot = [s \in 0 .. Pool - 1 |-> NoFrame]
  /\ inPut = 0
  /\ inIndex = 0
  /\ uploaded = 0
  /\ freeSlots = [i \in 1 .. Pool |-> Pool - i]
  /\ batch = << >>
  /\ flushed = FALSE
  /\ host = "run"
  /\ nReads = 0
  /\ wanted = NoFrame
  /\ got = {}

-----------------------------------------------------------------------------
(* The device                                                              *)

(* The head of the queue is done. *)
Device ==
  /\ queue # << >>
  /\ queue' = Tail(queue)
  /\ LET w == Head(queue)
     IN  \/ /\ w.op = "upload"
            /\ devIn' = w.frame
            /\ UNCHANGED << devOut, inBuf, slot, got >>
         \/ /\ w.op = "inCopy"
            /\ inBuf' = [inBuf EXCEPT ![w.buf] = devIn]
            /\ UNCHANGED << devIn, devOut, slot, got >>
         \/ /\ w.op = "chain"
            /\ slot' = [slot EXCEPT ![w.slot] = inBuf[w.buf]]
            /\ UNCHANGED << devIn, devOut, inBuf, got >>
         \/ /\ w.op = "outCopy"
            /\ devOut' = slot[w.slot]
            /\ UNCHANGED << devIn, inBuf, slot, got >>
         \/ /\ w.op = "download"
            /\ got' = got \cup {<< w.frame, devOut >>}
            /\ UNCHANGED device
  /\ UNCHANGED << ownsStream, inPut, inIndex, uploaded, freeSlots, batch, flushed, host,
                  nReads, wanted >>

-----------------------------------------------------------------------------
(* The module's calls                                                      *)

(* Mutant of NextBuf: the ring comes round a frame too early. *)
NextBufShort(i) == i % Lag

(* The buffer of inBufs that input frame i is copied into. *)
NextBuf(i) == i % Ring

(* retireBatch(): the batch's slots are free while copies from them may be *)
(* queued still.                                                           *)
Retired == freeSlots \o [i \in 1 .. Len(batch) |-> batch[i].slot]

(* The slots the next n sink() calls take. *)
Taken(free, n) == [i \in 1 .. n |-> free[Len(free) - i + 1]]

(* The chain's work for frames first .. last, in the slots they are given. *)
ChainWork(first, last, slots) ==
  [i \in 1 .. last - first + 1 |-> [op   |-> "chain",
                                    buf  |-> NextBuf(first + i - 1),
                                    slot |-> slots[i]]]

(* The frames the chain has put out when n have gone in. *)
Through(n) == IF n < Lag THEN 0 ELSE n - Lag

(* A call retires the batch, queues the work before and the chain's work   *)
(* for frames first .. last, and these are the new batch.                  *)
Release(before, first, last) ==
  LET slots == Taken(Retired, last - first + 1)
  IN  /\ queue' = queue \o before \o ChainWork(first, last, slots)
      /\ batch' = [i \in 1 .. Len(slots) |-> [slot |-> slots[i], frame |-> first + i - 1]]
      /\ freeSlots' = SubSeq(Retired, 1, Len(Retired) - Len(slots))
      /\ nReads' = 0

(* handdif(frame) *)
HanddifFrame ==
  /\ host = "run"
  /\ ~ flushed
  /\ inIndex < uploaded
  /\ Release(<< [op |-> "inCopy", buf |-> inPut] >>, Through(inIndex), Through(inIndex + 1) - 1)
  /\ inPut' = NextBuf(inPut + 1)
  /\ inIndex' = inIndex + 1
  /\ UNCHANGED << ownsStream, device, uploaded, flushed, host, wanted, got >>

(* handdif(nullptr): the tail is queued, and the host waits for the stream. *)
HanddifFlush ==
  /\ host = "run"
  /\ ~ flushed
  /\ Release(<< >>, Through(inIndex), inIndex - 1)
  /\ flushed' = TRUE
  /\ host' = "inFlush"
  /\ UNCHANGED << ownsStream, device, inPut, inIndex, uploaded, wanted, got >>

FlushReturns ==
  /\ host = "inFlush"
  /\ queue = << >>
  /\ host' = "run"
  /\ UNCHANGED << ownsStream, queue, device, inPut, inIndex, uploaded, freeSlots, batch,
                  flushed, nReads, wanted, got >>

(* getoutputbuf(): the copy is queued. *)
GetOutputBuf(i) ==
  /\ host = "run"
  /\ nReads < MaxReads
  /\ i <= Len(batch)
  /\ queue' = Append(queue, [op |-> "outCopy", slot |-> batch[i].slot])
  /\ wanted' = batch[i].frame
  /\ nReads' = nReads + 1
  /\ host' = "inGet"
  /\ UNCHANGED << ownsStream, device, inPut, inIndex, uploaded, freeSlots, batch, flushed,
                  got >>

(* Mutant of CopyAwaited: a stream of the module's own is not waited for. *)
CopyNeverAwaited == TRUE

(* It waits for the copy if the stream is the module's own. *)
CopyAwaited == ownsStream => queue = << >>

GetReturns ==
  /\ host = "inGet"
  /\ CopyAwaited
  /\ host' = "read"
  /\ UNCHANGED << ownsStream, queue, device, inPut, inIndex, uploaded, freeSlots, batch,
                  flushed, nReads, wanted, got >>

-----------------------------------------------------------------------------
(* The caller                                                              *)

(* The next frame goes into the input buffer, by way of the stream.  (A    *)
(* caller that writes the buffer by other means changes the frame it has   *)
(* handed in: handdif() has only queued the copy.)                         *)
Upload ==
  /\ host = "run"
  /\ ~ flushed
  /\ uploaded = inIndex
  /\ uploaded < MaxHanded
  /\ uploaded' = uploaded + 1
  /\ queue' = Append(queue, [op |-> "upload", frame |-> uploaded])
  /\ UNCHANGED << ownsStream, devIn, devOut, inBuf, slot, inPut, inIndex, freeSlots, batch, flushed,
                  host, nReads, wanted, got >>

(* The output buffer is read: by a download behind the copy on a stream    *)
(* the caller has, and at once otherwise.                                  *)
Read ==
  /\ host = "read"
  /\ host' = "run"
  /\ IF ownsStream
     THEN got' = got \cup {<< wanted, devOut >>} /\ UNCHANGED queue
     ELSE queue' = Append(queue, [op |-> "download", frame |-> wanted]) /\ UNCHANGED got
  /\ UNCHANGED << ownsStream, device, inPut, inIndex, uploaded, freeSlots, batch, flushed,
                  nReads, wanted >>

-----------------------------------------------------------------------------

Host ==
  \/ HanddifFrame \/ HanddifFlush \/ FlushReturns
  \/ \E i \in 1 .. Pool : GetOutputBuf(i)
  \/ GetReturns \/ Upload \/ Read

OrderNext == Device \/ Host

OrderSpec == OrderInit /\ [][OrderNext]_orderVars /\ WF_orderVars(Device)

-----------------------------------------------------------------------------

(* Every variable has its type; the input ring's index follows the count,  *)
(* and no slot is free and in the batch.                                   *)
OrderTypeOK ==
  /\ ownsStream \in BOOLEAN /\ flushed \in BOOLEAN
  /\ queue \in Seq(Work)
  /\ devIn \in Frame /\ devOut \in Frame
  /\ inBuf \in [0 .. Ring - 1 -> Frame]
  /\ slot \in [0 .. Pool - 1 -> Frame]
  /\ inIndex \in 0 .. MaxHanded /\ uploaded \in 0 .. MaxHanded
  /\ inPut = inIndex % Ring
  /\ freeSlots \in Seq(0 .. Pool - 1)
  /\ batch \in Seq([slot : 0 .. Pool - 1, frame : Frame])
  /\ Len(freeSlots) + Len(batch) = Pool
  /\ host \in {"run", "inFlush", "inGet", "read"}
  /\ nReads \in 0 .. MaxReads
  /\ wanted \in Frame
  /\ got \subseteq Frame \X Frame

(* What the caller receives is the frame it asked for, though the input    *)
(* buffer, the ring, the slots and the output buffer have all been used    *)
(* for later frames in the meantime.                                       *)
ReceivedAsAsked == \A g \in got : g[1] = g[2]

(* The module does not wait for a stream the caller has given it: "outside *)
(* of close() it is never synchronised either" (RtgmDif.h).                *)
SuppliedStreamNeverAwaited == host = "inFlush" => ownsStream

=============================================================================
