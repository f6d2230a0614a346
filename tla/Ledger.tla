------------------------------- MODULE Ledger -------------------------------
(***************************************************************************)
(* The RTGMC filter with the parameters the flows give it, and the ledger  *)
(* RtgmDif.h keeps of how far each of them is behind.                      *)
(***************************************************************************)
EXTENDS RtgmcChain, Flows

(* NVEncFilterRtgmc::init() of a configuration: the limit is on where      *)
(* slmode wants it (initRetouchCompFilters()).                             *)
SettingOf(cfg, faults, n) ==
  LET d == DeintParams(cfg)
  IN  [tr0 |-> d.tr0, analyze |-> d.analyze, tr1 |-> d.tr1, tr2 |-> d.tr2,
       limit |-> d.slmode \in {2, 4} /\ d.slrad >= 1,
       lowLatency |-> cfg.lowLatency, faults |-> faults, inputs |-> n]

(* The backlog in output frames as RtgmDif.h has it: "17 output frames on  *)
(* `slow`, 8 on `faster`", and in input frames "slower 9.0   slow 8.5      *)
(* slow + analyze.delta 1: 8.0   fast 6.0   faster 4.0".                   *)
Documented ==
  {<< Plain("slow"), 17 >>, << Plain("faster_nn1"), 8 >>, << Plain("slower"), 18 >>,
   << With(Plain("slow"), "deintAnalyzeDelta", 1), 16 >>, << Plain("fast_deint"), 12 >>}

(* The filter is behind its input by what the ledger in RtgmDif.h says of  *)
(* the flow, which is what a caller who pairs the fields waits for.        *)
LedgerAsDocumented ==
  \A d \in Documented :
    (\E faults \in BOOLEAN, n \in 0 .. MaxInputs : parameters = SettingOf(d[1], faults, n)) => BacklogIs(d[2])
=============================================================================
