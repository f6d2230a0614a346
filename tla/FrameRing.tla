----------------------------- MODULE FrameRing -----------------------------
(***************************************************************************)
(* CleanFrameRing (RtgmDif.cpp): the FIFO ring of device frames, keyed by  *)
(* timestamp, in which the clean chain keeps the frames it will look up    *)
(* later: the reference of the shimmer repairs and the two motion          *)
(* compensated neighbours of the sharpness limit.                          *)
(*                                                                         *)
(* A frame's pixels are abstracted to its timestamp: `slot' says which     *)
(* frame each buffer of the pool holds, `entries' which buffer the ring    *)
(* believes a live frame is in.                                            *)
(***************************************************************************)
EXTENDS Integers, Sequences

CONSTANTS
  Count,        (* Buffers one alloc() asks for: CLEAN_REF_POOL or _COMP_POOL *)
  MaxPool,      (* Bound on the pool over repeated failing alloc() calls      *)
  Timestamps,   (* Timestamps the frames may carry                            *)
  None          (* What a buffer holds when it holds no whole frame           *)

ASSUME CountAssumption == Count \in Nat \ {0} /\ MaxPool \in Nat
ASSUME TimestampAssumption == Timestamps \subseteq Nat /\ None \notin Timestamps

VARIABLES
  ready,           (* the last alloc() succeeded: the chain may be fed       *)
  poolSize,        (* pool.size()                                            *)
  slot,            (* the frame each pool buffer holds                       *)
  entries,         (* the live entries, oldest first                         *)
  overflowWarned,
  peak,
  retained,        (* history: the frames push() has accepted since clear()  *)
  spent            (* history: the highest timestamp given to dropUpTo()     *)

vars == << ready, poolSize, slot, entries, overflowWarned, peak, retained, spent >>

Entry == [poolIndex : Nat, timestamp : Timestamps]

Init ==
  /\ ready = FALSE
  /\ poolSize = 0
  /\ slot = << >>
  /\ entries = << >>
  /\ overflowWarned = FALSE
  /\ peak = 0
  /\ retained = {}
  /\ spent = -1

(* The pool grown by n buffers, which hold nothing yet. *)
Grown(n) == [i \in 0 .. poolSize + n - 1 |-> IF i < poolSize THEN slot[i] ELSE None]

(* alloc() by CleanChain::init, which runs before the first push.  It      *)
(* stops at the first buffer it cannot have and keeps the n it got: the    *)
(* chain stays unused until a later init() adds Count more behind them.    *)
Alloc ==
  /\ ~ ready
  /\ \E n \in 0 .. Count :
       /\ poolSize + n <= MaxPool
       /\ poolSize' = poolSize + n
       /\ slot' = Grown(n)
       /\ ready' = (n = Count)
  /\ UNCHANGED << entries, overflowWarned, peak, retained, spent >>

(* Mutant of MakeRoom: the loop condition is > instead of >=. *)
MakeRoomLate(q) ==
  IF Len(q) <= poolSize THEN q ELSE SubSeq(q, Len(q) - poolSize + 1, Len(q))

(* What is left of the queue once push() has popped until it is shorter    *)
(* than the pool.                                                          *)
MakeRoom(q) == IF Len(q) < poolSize THEN q ELSE SubSeq(q, Len(q) - poolSize + 2, Len(q))

(* Mutant of NextSlot: the buffer is chosen by the number of live entries. *)
NextSlotByLength(q) == Len(q) % poolSize

(* The buffer push() copies into. *)
NextSlot(q) == IF q = << >> THEN 0 ELSE (q[Len(q)].poolIndex + 1) % poolSize

(* Mutant of PeakAfter: the peak is taken before the new entry is added. *)
PeakBefore(q) == IF Len(q) - 1 > peak THEN Len(q) - 1 ELSE peak

(* peak once the queue is q. *)
PeakAfter(q) == IF Len(q) > peak THEN Len(q) ELSE peak

(* push() of a frame with timestamp t whose copy succeeds. *)
Push(t) ==
  /\ ready
  /\ LET room  == MakeRoom(entries)
         index == NextSlot(room)
     IN  /\ slot' = [slot EXCEPT ![index] = t]
         /\ entries' = Append(room, [poolIndex |-> index, timestamp |-> t])
         /\ peak' = PeakAfter(entries')
  /\ overflowWarned' = (overflowWarned \/ Len(entries) >= poolSize)
  /\ retained' = retained \cup {t}
  /\ UNCHANGED << ready, poolSize, spent >>

(* push() of a frame whose copy fails: room has been made, the buffer's    *)
(* pixels are lost and no entry is added.                                  *)
PushCopyFails ==
  /\ ready
  /\ LET room == MakeRoom(entries)
     IN  /\ slot' = [slot EXCEPT ![NextSlot(room)] = None]
         /\ entries' = room
  /\ overflowWarned' = (overflowWarned \/ Len(entries) >= poolSize)
  /\ UNCHANGED << ready, poolSize, peak, retained, spent >>

(* Mutant of IsSpent: drops whatever is not newer than the next frame. *)
IsSpentOffByOne(e, t) == e.timestamp <= t + 1

(* dropUpTo(t) may pop e. *)
IsSpent(e, t) == e.timestamp <= t

(* dropUpTo(t): pops from the front while the front is spent. *)
DropUpTo(t) ==
  /\ \E n \in 0 .. Len(entries) :
       /\ \A i \in 1 .. n : IsSpent(entries[i], t)
       /\ n < Len(entries) => ~ IsSpent(entries[n + 1], t)
       /\ entries' = SubSeq(entries, n + 1, Len(entries))
  /\ spent' = IF t > spent THEN t ELSE spent
  /\ UNCHANGED << ready, poolSize, slot, overflowWarned, peak, retained >>

(* clear(): the peak and the warning flag survive it. *)
Clear ==
  /\ ready' = FALSE
  /\ poolSize' = 0
  /\ slot' = << >>
  /\ entries' = << >>
  /\ retained' = {}
  /\ spent' = -1
  /\ UNCHANGED << overflowWarned, peak >>

Next ==
  \/ Alloc
  \/ \E t \in Timestamps : Push(t)
  \/ PushCopyFails
  \/ \E t \in Timestamps : DropUpTo(t)
  \/ Clear

Spec == Init /\ [][Next]_vars

-----------------------------------------------------------------------------

(* find(t) finds a frame: some live entry has the timestamp. *)
CanFind(t) == \E i \in 1 .. Len(entries) : entries[i].timestamp = t

(* The buffer find(t) returns, if any: find() scans from the newest entry  *)
(* and stops at the first with the timestamp.                              *)
Found(t) ==
  { entries[i].poolIndex : i \in
      { j \in 1 .. Len(entries) :
          /\ entries[j].timestamp = t
          /\ \A k \in j + 1 .. Len(entries) : entries[k].timestamp # t } }

(* Every variable has its type; the live frames fit the pool. *)
TypeOK ==
  /\ ready \in BOOLEAN
  /\ poolSize \in 0 .. MaxPool
  /\ slot \in [0 .. poolSize - 1 -> Timestamps \cup {None}]
  /\ entries \in Seq(Entry)
  /\ \A i \in 1 .. Len(entries) : entries[i].poolIndex < poolSize
  /\ Len(entries) <= poolSize
  /\ overflowWarned \in BOOLEAN
  /\ peak \in Nat
  /\ retained \subseteq Timestamps
  /\ spent \in Timestamps \cup {-1}

(* What find() hands out is the frame that was asked for: no later push(), *)
(* not even a failed one or one that overflowed the ring, has written into *)
(* the buffer of a live entry.  push() relies on it ("the slot after the   *)
(* newest live entry is always free").                                     *)
FindReturnsTheFrame ==
  \A t \in Timestamps : \A b \in Found(t) : slot[b] = t

(* As long as the ring never reported an overflow, every frame retained    *)
(* and not yet declared spent can still be found: a shimmer repair finds   *)
(* its reference however failed pushes and drops interleave.               *)
NoEarlyLoss ==
  ~ overflowWarned => \A t \in retained : t > spent => CanFind(t)

(* The peak the run log reports can be trusted when the pools are sized    *)
(* from it: a frame dropped early shows as a peak of at least the pool     *)
(* that was asked for, also after clear() and a second init().             *)
PeakTellsOverflow == overflowWarned => peak >= Count

=============================================================================
