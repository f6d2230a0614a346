# RtgmDif in TLA+

RtgmDif turns an interlaced 25i stream into a progressive 50p one on a GPU. Its own
code is `src/RtgmDif/` (the module) and `src/RtgmDifTest/` (a driver that is its one
caller in the repository); the filters it drives are a copy of part of NVEnc under
`src/RtgmDif/NVEnc/`. This directory holds models of the host logic of both: what is
held back, in which buffer, for how long, and what comes out when.

Short forms used below: cpp = `src/RtgmDif/RtgmDif.cpp`, h = `src/RtgmDif/RtgmDif.h`,
RT = `src/RtgmDif/NVEnc/NVEncCore/NVEncFilterRtgmc.cu`, DG = `.../NVEncFilterDegrain.cpp`.
Every definition that models code has its lines in `PROJECT.json` under `map`.

## The system

A caller configures the module (`configure`), starts it (`init`), hands it one
interlaced frame after the other (`handdif(frame)`), and after each call reads the
frames it released (`getoutputsize`, `getoutputbuf`). `handdif(nullptr)` flushes.

                         +-- top band --> rtgmc --> [clean chain] --+
    handdif --> inBufs --+                                         +--> sink --> batch --> getoutputbuf
                         +-- bottom band --> cheapDeint --> cheapOut

The lower half exists only with a split, where the picture is cut at a row and one of
the bands is deinterlaced cheaply. Everything runs on one host thread; there are no
locks and no callbacks from other threads. What makes the code hard is that every
stage is behind its input by a lag of its own, that each keeps frames in a ring it
writes over without asking who still reads, that any call into the device may fail
half-way, and that the host only queues work on a CUDA stream that has not been done
when the call returns.

| component | state | operations | what makes it correct |
|---|---|---|---|
| the object, `RtgmDifImpl::Impl` (cpp:1127-2033) | configuration, input ring, output pool, free slots, batch and `taken` flags, counters, `flushed`, `cheapOut`, `cheapDrained` | `configure`, `init`, `handdif`, `flush`, `retireBatch`, `sink`, `getoutputbuf`, `close` | every frame out once, in order, in a slot of its own; the bands of a frame belong together; calls return; a failure is reported |
| clean frame ring, `CleanFrameRing` (cpp:199-278) | pool, queue of entries, peak, warning flag | `alloc`, `push`, `find`, `dropUpTo`, `clear` | `find` gives the frame that was asked for; nothing is dropped early without a trace |
| clean chain, `CleanChain` (cpp:291-878) | six optional stages, three frame rings | `init`, `feed`, `drain`, `runStage` | each stage's reference is still there when its frame arrives; a drain empties all |
| cheap deinterlacers, `NVEncFilterYadif`, `NVEncFilterBwdif` | ring of 4 or 3 frames, counters | `run_filter` with and without a frame | each output from its own frame and that one's neighbours; the drain brings out the last |
| analysis and degrain stage, `NVEncFilterDegrain` (DG) | ring of 16 frames, counters, frames that wait for a scene-change test, vectors | the same | the same, with vectors of the frame; fixed lag |
| RTGMC filter, `NVEncFilterRtgmc` (RT) | some ten stages, pending outputs, drain state, source cache, reference stores | `run_filter`, `drainFrom`, `drainComplete`, `reset` | order kept over stages with unlike lags; references found; drain ends |
| split geometry and flow parameters (cpp:919-1090, 1524-1532, 1670-1760) | the rows of either band | `init`, `copyBandIn`, `copyOwnedRows`, `build_flow_params` | bands cover each row once, from the rows around it and as a row of its own field |
| stream order (cpp:1840-1988, h:44-60) | work queued on the stream, buffers it reads and writes | host calls against the device | no buffer is written while queued work still needs it |
| test driver (`src/RtgmDifTest/RtgmDifTest.cpp`) | two device buffers | upload, call, download | takes part in the stream order |
| nested filters without lag, kernels, filter base, parameters, logging, SDK headers | - | - | arithmetic on pixels, tables, text; outside the models |

`PROJECT.json` lists the components with their status and, under `hazards`, each place
where one of these requirements could fail in a way a test would hardly see, with the
properties that watch over it.

## The modules

| module | models | checked in, proved in |
|---|---|---|
| `FrameStream` | abstract: what the caller of RtgmDif is promised | refined by `RtgmDif` |
| `RtgmDif` | the object: configuration, calls, batch, pool, split | `MCRtgmDif`; `RtgmDifProofs` |
| `BobDeint` | abstract: a cheap deinterlacer as the split takes it to be | refined by `Yadif` and `Bwdif` |
| `Yadif`, `Bwdif` | the two cheap deinterlacers | `MCYadif`, `MCBwdif`; `YadifProofs`, `BufferProofs` |
| `Pass` | abstract: something that holds frames back, as whoever drives it takes it to be | refined by `Degrain`, `CleanChain` and `RtgmcChain` |
| `Degrain` | `NVEncFilterDegrain`: cache, delay, waiting frames, drain | `MCRtgmcChain`, `MCDegrain`; `DegrainProofs` |
| `Stages` | such a stage with its cache left out, for the chains made of them | `CleanChain`, `RtgmcChain` |
| `Flows` | presets, flows and overrides, as far as they decide what is held back | the MC modules of the chains |
| `CleanChain` | the second pass: six stages, two compensating passes, three rings | `MCCleanChain`; `CleanChainProofs` |
| `RtgmcChain` | `NVEncFilterRtgmc`, the first pass | `MCRtgmcChain`; `RtgmcChainProofs` |
| `Ledger` | the first pass with the flows' parameters, and the backlogs RtgmDif.h documents | `MCRtgmcChain`; `RtgmcChainProofs` |
| `FrameRing` | `CleanFrameRing` | `MCCleanChain`; `CleanChainProofs` |
| `SplitGeometry` | the rows of the two bands, and where they go | `MCYadif`, `MCSplitGeometry`; `BufferProofs` |
| `StreamOrder` | the host, the CUDA stream and the caller's buffers | `MCBwdif`, `MCStreamOrder`; `BufferProofs` |
| `RingArithmetic` | lemmas on `%`, shared by the proofs | `YadifProofs`, `DegrainProofs`, `BufferProofs` |
| `StageFacts` | lemmas on sequences of frames and on the operators of `Stages` | `CleanChainProofs`, `RtgmcChainProofs` |

Four MC modules extend two models that have nothing to do with each other, and whose names
are kept apart for it:
a behaviour is about one `subject`, chosen at the start, and the other model stays in its
initial state. The states add up and do not multiply, and each subject's fairness is a conjunct of its own.
The other MC modules only extend what they instantiate. Constants are in
the `.cfg` files; where they are too large for one (`Settings <- MCSettings`) the MC module defines
them. Definitions called "Mutant of ..." are wrong on purpose: they are the plausible slips
that show each property can fail, and nothing else uses them.

What fits together how: `RtgmDif` takes the first and the second pass as sets of frames
from which the oldest come out. `RtgmcChain` and `CleanChain`, which are detailed, are shown to be
a `Pass`, which is the same assumption: oldest first, each once, and a drain that brings out all or,
before anything has come out, nothing. Both are made of the stages in `Stages`, which
is `Degrain` with its cache left out; `Degrain` too is shown to be a `Pass`. The cheap side of
`RtgmDif` behaves as `BobDeint` does, which `Yadif` and `Bwdif` implement.

### RtgmDif

A frame is its number in the output: input i gives output frames 2i and 2i + 1. What a
picture looks like is not modelled; a pool slot holds the pair of numbers its two bands
come from. A call is a series of steps in the order of the code, and `call` says where
it is: `cheap` (cpp:1892-1924), `chain` and `feed` (cpp:1926-1944, 1423-1428),
`cheapDrain`, `drain`, `drainFeed`, `cleanDrain`, `cleanSink`, `flushEnd` (`flush`,
cpp:1430-1509). `SinkFrame`, `SinkExhausted` and `SinkFails` are `sink` (cpp:1323-1382)
with its error paths; `ReturnFalse` is every way out with `false`, which loses what one
filter had released and the next had not taken. `Configure`, `InitSucceeds`,
`InitFails`, `Close` keep what the code keeps: `close` leaves the free stack, the
batch and the flags, and `init` stacks the slots upon what is there.

The chain and the clean chain enter as the sets of frames they hold. They release the
oldest first, any number at a time while frames come in, two at most per drain call of
`rtgmc` (its pending outputs). `MinLag` is the number of input frames the chain always
holds back; it is at least 1 in the code since every flow has a temporal stage with
`delta` >= 1 (with a lag of 0 `NeverOutOfStep` would fail: only the cheap side has a queue).
A drain may end with frames inside only if nothing of the pass has come out or a
call has failed (`ChainGivesUp`, `CleanGivesUp`). That is what `RtgmcChain` and `CleanChain`
show of the two passes. `CheapFeed`, `CheapDrain` and their failures are those of `BobDeint`.

Left out: pixel copies other than that they may fail; `cheapOutFree` and the input
ring's buffers (the ring is in `StreamOrder`); the checks of `init` before the pool, which change nothing;
`guardMax`, which bounds the drain loop and is not reached by a chain that releases
something at each turn (a hazard is noted for its overflow). The caller is taken not to
hand in a frame between a flush that failed and its repetition: what the code does
then depends on the inside of `rtgmc`.

### Yadif, Bwdif and BobDeint

`buf` and `cache` map slots to frame numbers; `made` records which frames each output
was made from, read from the slots at the time of the call. `RunFrame` is `run_filter`
with a frame, `RunDrain` with the null plane; `AddFails`/`CopyFails` are failures of
the copy into the ring (YADIF counts the frame, BWDIF does not), `FrameFails` and
`DrainFails` failures behind it (YADIF tries the frame again, BWDIF passes it over).
The filters' other modes are not modelled: the split always asks for bob. The caller is
taken not to hand in a frame after the drain has begun, as `flush` guarantees by
`flushed`.

### Degrain and Pass

`RunFrame` is `run_filter` with a frame (DG:1724-1773): into the cache, and, once
`OutputDelay` frames are there, the frame that far back is resolved, its vectors bound
and it joins `pending`; if more wait than `PipelineDepth` the oldest goes out. A
drain (`DrainFrame`, `DrainPending`, `DrainNothing`) works on the frames left,
then puts out those waiting (DG:1775-1793). `pending` holds references into the cache, so `Output` reads the slots when the frame
goes out. `mode`, `lowLatency` and `shared` are fixed by the stage's parameters;
`shared` says that the stage searches less far than the analysis did and copies the part
of the vectors it needs into its one workspace (DG:4302-4348).

The output delay is constant because the analysis result is attached to a frame before
the degrain stage sees it; every frame of these chains carries that data, so the
immediate path (DG:3458-3472) is not reached. Left out: the interface by which the
retouch stage is fed for the sake of its references (`feedFrameOnly`,
`buildCompensateInlineParams`, `drainReady`), which is in `RtgmcChain`, and all that concerns pixels.

### Stages and Flows

`Stages` has operators and no variables: what a stage answers to a frame (`StageFed`) and to
a drain tick (`StageTicked`), from the frames it has not worked on (`hold`, of which it keeps
`delay`) and those whose scene-change test is out (`pending`, at most `depth`), and
what a failed call may leave of them (`StageAfterFailure`).

`Flows` has `apply_vpp_rtgmc_preset` and `build_flow_params` (cpp:919-1090): the presets' deltas,
search radius, repairs and retouch modes, what each flow makes of them, the low-latency
switch, and the `-1` overrides of `RtgmDifConfig` with their clamps, in the code's order. The parameters
that are only numbers for a kernel are left out.

### CleanChain

A push (cpp:319-330) and a drain (cpp:332-358) are cascades: `at` is the stage that has `frame`, or a drain tick,
and each step is one stage: `RunTemporal` (analysis, TR1, TR2), `RunComp` (`feedCompensate`,
`drainCompensate`), `RunRepair`, `RunRetouch`, `Sink`, `PassThrough` for a stage that
is off. `drainAt` is where `drain` is: it ticks one stage until that answers nothing and goes
to the next (`StageDrained`), while what comes out runs to the end of the chain.
`Keep`, `KeepComp`, `PrunedUpTo` and `Has` are the three rings, by the frames in them: `refRing` of 24
for the repairs and the limit, `backRing` and `forwRing` of 6 for the limit's two
compensated neighbours. `unrepaired` and `unlimited` record each frame
that got to a repair or to the retouch and did not find what it needed; the code skips the stage for it and
carries on, so nothing else would tell.

`KeepFails`, `FilterFails`, `KeepCompFails` and `StepFails` are the errors, each with the frame lost
and the call over; the caller may push on or drain, and may call a drain again.
`clear` is part of `close` and is in `RtgmDif`. A step that fails
can leave two frames in `refRing` that no stage has any more, the one it worked on and the one
that was to come out (`StageAfterFailure`), until a later frame leaves the chain. So
`ReferenceAtHand` asks that the pool have room for two per failure (`RefRoom`), and the peak in the log may
be that much above the backlog (`PeakIsBacklog`).

### RtgmcChain

The same for `run_filter` of the RTGMC filter (RT:2489-2875). A push makes two frames with bob
and runs one after the other through the stages (`second` waits for its turn); a drain call goes on
from `drainAt` until something has come out (`DrainReturns`) or every stage has answered nothing.
Four stages hold frames back; the search prefilter has a pipeline of one and a drain of its own
(`PrefilterTicked`: it submits and resolves in one call). The
stages that hold nothing back matter for what they look up: EDI the input its frame was made of,
in `sources` (48 frames; a step that fails may leave an input there whose frames are lost while
older ones wait, so `SourceAtHand` asks for one entry more per failure), and the retouch its envelope, in `stored`.
The envelope is built at the EDI stage by two helpers (`Store`, RT:699-836), is stored as
pointers into the helpers' caches and to the vectors bound there, and is used when TR1 has put the
frame out: `RefsIntact` asks whether the cache still has those frames, `VectorsAt` whose the vectors are by then.
`ring`, `slot`, `pending`, `outs` are the buffers of the output frames and the two
places they are handed out from.

Left out are the paths no flow of the module turns on (noise, input-type blend,
source match, lossless, limits behind TR2, shared analysis), the store of EDI references, whose bound of 256
is never near, and the debugging hook that resets the filter in mid-stream.

### SplitGeometry

`Split`, `Unsplit` and `Refuse` are what `init` makes of `splitY` (cpp:1672-1708). `CheapRefused` is the check
YADIF and BWDIF make of their height (NVEncFilterYadif.cu:317-321, NVEncFilterBwdif.cpp:52-56), a multiple of four with
4:2:0, which fails `init` after the bands are set (cpp:1779-1784). `CropBands` is `copyBandIn` (cpp:1297-1317) for both sides, `CompositeChain` and `CompositeCheap` are `copyOwnedRows` in
the order `sink` calls it. A row is its number in its plane; what a deinterlacer makes of it is
recorded as the row, the field it takes it for, and the rows within `Reach`. Columns are not modelled.

### FrameRing

Actions are the methods. A buffer holds the timestamp of the frame copied into it, or
`None` when a copy broke off. `Push` takes any timestamp, more than the chain would
give it, so what holds here does not depend on the order of the frames.

### StreamOrder

`queue` is the work on the CUDA stream; `Device` does the head of it at any time. Host
actions queue uploads, input copies into `inBufs`, the chain's work, output copies and
downloads, in the order of the code and, for the caller, of the test driver. `Owns` is
whether the module made the stream. To keep it small, one frame comes out for each that
goes in, `Lag` calls later, reading one input buffer; the split's buffers are left out.

## Runs

| run | checks | instance |
|---|---|---|
| `rtgmdif` | `TypeOK`, `SlotsPartitioned`, `BatchHoldsItsFrames`, `PairsMatch`, `NoSilentLoss`, `NeverOutOfStep`, `ReadLedger`, `EveryCallReturns`, `ImplementsStream` | pool 4, lag 1, split and unsplit, one and two passes, with failures, 3 input frames; 1 249 914 states |
| `rtgmc_chain` | of a stage: `TypeOK`, `MadeRight`, `ConstantLag`, `OwnVectors`, `ImplementsPass` | delta 1, tr0 1, depth 2, cache 7, 10 frames, 2 failures |
| | of the filter: `ChainTypeOK`, `SourceAtHand`, `EnvelopeWhole`, `OwnLimitVectors`, `NothingPending`, `LedgerAsDocumented`, `ChainImplementsPass` | the 7 flows, low latency, widest deltas with 16 inputs; 0 to 9 inputs; 4 and 5 inputs with 2 failures; 542 143 states together |
| `clean_chain` | of the ring: `TypeOK`, `FindReturnsTheFrame`, `NoEarlyLoss`, `PeakTellsOverflow` | 3 buffers, pool up to 5, 4 timestamps |
| | of the chain: `ChainTypeOK`, `ReferenceAtHand`, `EnvelopeAtHand`, `PeakIsBacklog`, `ImplementsPass` | the 3 flows with a second pass, low latency, every preset for it, widest deltas with 27 frames; 12 frames with 2 failures; the real pools of 24 and 6; 1 340 335 states together |
| `yadif` | `TypeOK`, `MadeRight`, `NoFramePassedOver`, `ImplementsBob` | ring 4, 7 frames, 2 failures |
| | of the rows: `BandsCompose` | margin 16, reach 4, heights 0, 2, 37, 38, 40, every boundary from 2 above to 2 below the frame; 15 395 states together |
| `bwdif` | `TypeOK`, `MadeRight`, `ImplementsBob` | cache 3, 7 frames, any failures |
| | of the stream: `OrderTypeOK`, `ReceivedAsAsked` | ring 3, lag 2, pool 3, 5 frames, both owners of the stream; 29 564 states together |
| `split_small_pool` | `PairsAlwaysMatch` fails | pool 2, lag 3, no device failures |
| `reopen` | `InitStartsOver` fails | two lives of one object |
| `clean_no_repair` | `LimitNeedsNoRepair` fails | `slow_both` with `cleanRep2Thin` = 0 |
| `degrain_short_stream` | `DrainReleasesAll` fails | a stage, no failures |
| `degrain_shared_vectors` | `VectorsOfTheFrame` fails | the same, shared workspace |
| `split_chroma_fields` | `FieldsKept` fails | heights 38 and 40, any boundary |
| `stream_flush_waits` | `SuppliedStreamNeverAwaited` fails | the caller's stream |

What the passing runs show, beyond the names: `rtgmdif`, that in one life of the object
frames come out once, in order, in a slot of their own and with the right bands, that only a failed call
loses any, and that the two sides of a split never get out of step, tail included. `rtgmc_chain`, that a frame finds
its input and its envelope behind stages of unlike lag, that the backlog is what the header's ledger
says (17 output frames on `slow`, 8 on `faster`, 18, 12 and 16 for the other entries), and that the filter
keeps order and loses nothing. `clean_chain`, that references and envelopes are there when their frame comes,
in the drain too, and that the ring's peak is what the stages hold back. `yadif` and `bwdif`, that every
output is made from its own frame's neighbours, that the bands cover every row as if there
were no split, and that no buffer is written while queued work needs it.

Why the bounds are enough. In `rtgmdif` three input frames are six output frames for a
pool of four: the pool runs out in a flush, the cheap queue grows and shrinks, a flush
is repeated after failing in each of its phases. Rings are run past their length twice
(`yadif` 7 frames over 4, `bwdif` 7 over 3, the stream 5 over 3) and with room for
exactly one frame too many (a stage: 6 slots are needed of 7; the real sizes need 15
of 16 at most), so a ring one slot smaller fails. The failure bounds are one above what the
rings can take (`MadeRight` speaks of as many failures as there are spare slots; the runs go
beyond). The frame ring lets the pool differ from `Count`, since a failed `alloc` is added to by the next.

The chains are run with what the flows really give them. With the widest deltas that are accepted the clean
chain has 22 frames in it when the 23rd comes in, of a ring of 24, so 27 frames fill and
turn it over; with TR1 reaching 2 frames behind a search radius of 2 the envelopes' ring of 6 is exactly full. 16
input frames are 32 for the RTGMC filter, more than any of its backlogs. Its caches are made smaller
so that they turn over in that time: `SourceCache` 6 for 48, `CompCache` 8 for 16, which are
the least that hold with those settings; the real ones are larger. Bob's two frames a call never fill
the real ring of 32 output frames, and 2 buffers are enough. Failures are tried on the settings with the
shortest lags, where they leave most behind in least time.

The split's properties depend on where the boundary is against the margin, the frame's edge
and the multiples of 4; frames of 40 and of 38 rows, one a multiple of 4 and one not, have more than two margins and
are small enough to cut everywhere, and 37 and 0 are heights `init` refuses. `CHECK_DEADLOCK FALSE` is set where a model stops at its bound on frames, after the
flush or with the frame composed.

## What the violated properties say

Seven statements of the documentation are not what the code does; each has a run with a
counterexample and an entry under `findings`.

- `split_small_pool`: h:466-467 says the k-th frame of one band belongs with the k-th of
  the other. `sink` fails for want of a slot before it takes the cheap frame (cpp:1327,
  1369), so the repeated flush that h:504-505 calls safe pairs every later frame with an
  older one and returns true.
- `reopen`: "Releases everything" (h:534). `close` keeps `freeSlots`, `batch`, `taken`,
  `flushed`, `cheapOut` and `cheapDrained` (cpp:2010-2033).
- `degrain_short_stream`: a stage that has got fewer frames than its delay and pipeline
  answers its first drain call with nothing, and the chains take that for the end
  (cpp:331-338, RT:2634-2753). With default parameters clips of one or two input frames give no
  output, and the flush returns true.
- `degrain_shared_vectors`: with the scene-change pipeline a frame is put out with the
  vectors of a later one if the stage uses the shared workspace, though
  `rgy_prm.h:3026-3028` says the wait does not change what is in a frame.
- `stream_flush_waits`: `flush` synchronises a stream the caller supplied (cpp:1497)
  against h:494-495.
- `clean_no_repair`: "both shimmer repair stages are off, no reference ring needed" (cpp:710). The sharpness
  limit looks its frame up in that ring too (cpp:470-478); without a repair the ring has no pool,
  nothing is found, and the limit is skipped for every frame.
- `split_chroma_fields`: `splitY` "has to be even so that the chroma planes of the two bands stay
  aligned" (cpp:1681-1682), but a band of 4:2:0 that begins on a row that is even and no multiple of four begins on an
  odd row of the chroma, whose fields are then taken for one another. The cheap deinterlacer refuses most of these
  boundaries, because its band is not a multiple of four high. Two kinds get past it. In a frame whose height is no
  multiple of four (486, for one), with the cheap side at the bottom, they are the only boundaries it accepts. With
  the cheap side on top, they are those so near the lower edge of a frame whose height is a multiple of four that the
  margin is cut off and its band is the whole frame (1066 to 1078 of 1080): there it is the chain's band that begins
  on an odd row of the chroma, and the chain does not ask what its height is. `FieldsFit` says which boundaries are
  safe; `BandsCompose` holds the others to everything but the field.

Three more are recorded as hazards, or are a matter of how a comment is read, and have no run of their own:
on `slow`, whose analysis reaches further than the helpers, the limit uses a later frame's vectors (`OwnLimitVectors`
states where it does not); a `splitY` of the height turns the split off, where h:445-447 says "all
cheap"; `deintTr1Delta` 0 makes `init` fail (DG:731), though cpp:1001 says of both passes' deltas that zero turns the stage
off. In the second pass it does, and there a TR1 switched off makes every envelope one frame late, which is why `EnvelopeAtHand` asks
for `tr1 > 0`.

The caller may reuse its input buffer as h:501-502 says only as far as it writes it through the same stream,
since the copy is only queued (cpp:1869); the test driver does, and `StreamOrder` has such a caller.

## Fairness

`RtgmDif`: `WF_vars(InCall)`. The module has one thread, and a call that has begun runs on;
nothing is assumed of the caller. `Yadif`, `Bwdif`, `Degrain`: a drain that has begun goes on
until it is over or a call fails, which is the loop in `flush` and `drainFrom`; the caller
is not obliged to begin it. `CleanChain`, `RtgmcChain`: `WF_vars(asked /\ fails = 0 /\ RunStage)`, the same
of a drain's single steps. The abstract modules have the same and no more.
`StreamOrder`: `WF_vars(Device)`, a stream makes progress; no safety property needs it.

## What is proved

TLAPS checks all of it, for every value of the constants that meets the named assumptions.

- `RtgmDifProofs`: `SlotsCorrect`, `BatchCorrect`, `FlushIsFinal`, `LedgerCorrect`,
  `TypeCorrect`. `SlotInv` strengthens `SlotsPartitioned` to the sequence "free slots, then batch" being
  injective and as long as the pool; `PictureInv` says that each batch slot holds the frame
  emitted for it, which needs `SlotInv` because a sink writes a slot; `Flow` ties `call` to the
  variables in use at that point. The first two hold for one life of the object
  (`MaxInits <= 1`): `reopen` shows that they cannot hold for two.
  In the same module, about the stream: `NothingLost`, `StepsCorrect`, `InStep`, `PairsCorrect`. `Passes` says that there are
  cuts n <= a <= b <= c of the output stream such that what came out is below n, what has left the passes
  and is not out yet is from n to a, the clean chain has a to b, what `rtgmc` released is b to c, and
  `rtgmc` has the rest (`Cut`); as long as no call has failed each part has all of its interval, and
  afterwards it is still within it, which is why the order survives failures (`StepsCorrect`, every step is
  one of `FrameStream`) and the completeness does not (`NothingLost`). `Control` ties `call` to which parts are
  empty, `Outcome` says what is left when a flush has ended. With a split `Queue` says that the cheap
  queue continues exactly where the output stopped; with it and `MinLag >= 1` the cheap side is never behind
  (`InStep`), and with it and `PictureInv` the pairs match (`PairsCorrect`). All four are for one
  life (`MaxInits <= 1`); `reopen` shows why.
- `YadifProofs`: `SourcesCorrect` and `TypeCorrect` (for `Size` >= 4: three neighbours and
  the frame a failed call leaves it behind), `NothingPassedOver`, and `StepsCorrect`, that
  each step is one of `BobDeint` or a stutter. The invariant says that the
  last `Size` frames given are each in their slot.
- `DegrainProofs`: `TypeCorrect`, `SourcesCorrect`, `VectorsCorrect`, `LagCorrect`, `StepsCorrect`. `CacheRight`
  says which frames the cache holds; `InQueue` bounds how far behind
  a waiting frame may be, `Feeding` counts what the pipeline has taken and `Counted`
  what it has put out, with the number of failures as slack; `MadeSettled` says that an output
  whose reference was cut off at the stream's end was made in the drain, so that later
  frames do not change what it should have been. `StepsCorrect`, that each step is one of `Pass` with any
  failures, adds `PassInv`: the waiting frames are in order and newer than whatever came out (`Sorted`), and
  the pipeline is full once something did (`Primed`), so that a push brings out the oldest one or none.
- `BufferProofs`, about BWDIF: `TypeCorrect`, `SourcesCorrect`, `StepsCorrect` for `CacheSize` >= 3.
  About the rows: `BandsCorrect`, for every set of configurations, under `WideMargin`: the margin is a
  multiple of four and at least twice what the deinterlacers look at on a side, which
  `RTGMDIF_SPLIT_MARGIN` is. What the cheap deinterlacer's check leaves of the boundaries that fit are the multiples of
  four and those within a margin of the upper edge, where the lower band is the whole frame (`BoundaryFits`). A side's band contains the rows around each row it owns (`OwnedRowIsRight`, from
  `SideIsABand`), and the rows of the two sides partition each plane (`SidesPartition`), so that composing
  writes each once.
  About the stream: `OrderTypeCorrect` and `ReceivedCorrect`, for rings and pools that have room for the
  lag. `Done(queue, d)` is what the buffers will be when the queued work is done. A step of the device does
  not change it and a call adds work at the end, so the invariant is about those buffers only: the input ring will have the
  latest frames and the batch's slots the frames that are handed out. Nothing has to be said of how far the device
  has come.
- `CleanChainProofs`, about the ring: `TypeCorrect`, `FindCorrect`, `NoEarlyLossCorrect`, `PeakCorrect`, from
  `CountAssumption` and `TimestampAssumption`. The inductive invariant says that live entries occupy
  consecutive buffers modulo the pool, so the buffer after the newest is
  free unless the ring is full, and then is the oldest's, which `push` has just dropped.
  For the ledger: no entry has left the queue but by `dropUpTo` unless the warning is set, and a warning
  implies the peak.
- `CleanChainProofs`, about the chain: `ChainTypeCorrect`, `ReferenceCorrect`, `ChainPeakCorrect`,
  `EnvelopeCorrect`, `ChainStepsCorrect`, from `ChainAssumption`: the settings are among those
  `checkParam()` accepts, and the pools are not empty. `ChainInv` is inductive: `Ordered`, the frames are
  in order from the last stage to the first and inside each, the one under way in its place (`Conveyed`); `Control`, what
  `at`, `drainAt` and `asked` may be together; `Flowing`, without a failure each stage behind which a frame has
  come out is as full as it gets until it is drained, and is empty then; `References`, as
  long as there is room `refRing` has every frame of the chain, and of other frames no more than two for each failure.
  `ReferenceCorrect` and `ChainPeakCorrect` follow, since the chain never has more than
  `Backlog + 1` frames. `ChainStepsCorrect`, that each step is one of `Pass` or a stutter, needs
  `Flowing` for `DrainEnds`: a drain that ends with nothing put out and frames inside has
  not failed and is of a short stream.
  `Enveloped` is what `EnvelopeCorrect` adds. `Behind` says where the frames of a
  compensating pass are: those in its ring are older than those in its stage, and both than what
  the analysis still has. `Bounded` is the counting argument: among the entries of the ring from the first that TR1
  or a later frame still needs, those no one needs are at most one for each failure, so a ring of
  `Lag("tr1") + fails` entries never drops one that is needed. `Bare` has the frames that went
  without an envelope and those inside that will; each failure adds one at most.
- `RtgmcChainProofs`: `ChainTypeCorrect`, `NothingPendingCorrect`, `ChainStepsCorrect`, `SourceCorrect`,
  `EnvelopeWholeCorrect`, `OwnVectorsCorrect`, `BacklogCorrect`, `DocumentedLedgerCorrect`, from `ChainAssumption`.
  `ChainInv` is inductive: `StagesOK` and `CachesOK`, what a stage and the caches may hold; `Counted`, the
  pending outputs and the calls that make them; `Control`, what `at`, `drainAt`, `left`, `second` and the
  flags may be together; `Buffers`, each frame that is put out or pending is in a buffer of its own, as no more than `OutBufs`
  are under way; `Conveyed` and `Pushed`, the frames are in order from `put` over the outputs, the stages and the
  one under way to `second`; `Flowing`, the counting half as in the clean chain, with the prefilter's drain of its own.
  `Ending` carries it through a drain: the stages before `drainAt` are empty unless a call has failed or nothing has
  come out, and this is what makes `DrainEnds` of `Pass` true of the filter's last drain call.
  `SourceCorrect` counts: `Early` are the frames in front of EDI, and by `CountedBy` the inputs in the cache, from the
  one a waiting frame was made of on, are at most half the frames of `Early` from that one on, and one more for each
  failure, since a call that fails loses at most two of them. With as many frames as the two stages hold back, what the
  cache drops is then no input of a frame that waits.
  `EnvelopeWholeCorrect` and `OwnVectorsCorrect` rest on `LimitInv`, which says where everything is by two numbers: `e`,
  the next frame EDI gets, and `w`, the next one the helpers work on. `Reached`: what is in front of EDI are the
  frames from `e` on, and TR1 has the last ones before it. `Helped`: the helpers' caches have the last
  `CompCache` frames before `e`, their queues those from `w` on, and `w` is `HelperDelay` behind `e`
  until the drain is at EDI, and `e` when it has gone on. `Provided`: the envelope of every frame before `w` that TR1 has is stored,
  of neighbours only, and the frame that comes out of TR1 is at most `Lag("tr1") + 1` behind `e` and before `w`, as
  TR1 never holds back less than the helpers. Where it holds back as much, which is only where both hold one, the frame is `w - 1`,
  whose vectors are bound.
  `BacklogCorrect`: `NoneLost` has the frames put out as 0, 1, 2, ... and the filter with the rest; once something has
  come out every stage is `Full`, so the rest is what the stages hold back together. `DocumentedLedgerCorrect` works that out for the flows of the
  header's ledger, from `Preset` and `DeintParams`, and assumes `TestDepth` = 2, as in the code.
- `StageFacts`: what a stage answers to a frame and to a tick (`FedAnswer`, `TickedAnswer`: the oldest frame or none, in order, no
  frame lost, never more than delay and depth), and what it may be left with by a call that fails.

Only model-checked: liveness (`EveryCallReturns` and the fair halves of
`ImplementsStream`, `ImplementsBob`, `ImplementsPass`, `ChainImplementsPass`), which is out of TLAPS's reach.
Each invariant of a passing run is the subject of a theorem.
`FlushIsFinal` is proved and not in a run, as `ImplementsStream` implies it there.

## What is not modelled

- The kernels, and what the nested filters do to pixels: a frame in, a frame out, nothing kept.
  Bob, EDI, retouch and the shimmer repairs are steps of the chains; lossless and masks are in no flow.
- Paths of `NVEncFilterRtgmc` and `NVEncFilterDegrain` that no flow of this module turns on (see
  RtgmcChain and Degrain above).
- The filter base, the parameters' tables and printing, logging, options and file handling of the test driver,
  the SDK headers. Most of the repository's lines are these: vendored headers, kernels, tables and text without
  state of this system. The host threads, queues, pipes and monitors that come with NVEnc
  (`rgy_queue`, `rgy_pipe`, `rgy_perf_monitor`) are not called by this module. That is why the map
  covers a small share of the repository's lines although it has nearly all of `RtgmDif.cpp`'s control.
- `guardMax` overflowing (cpp:1435), which takes five hundred million frames; a caller who goes on after a failed flush.
- The checks of `init` on bit depth, colour space and device, which are one choice to fail.
