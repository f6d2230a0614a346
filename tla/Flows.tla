-------------------------------- MODULE Flows --------------------------------
(***************************************************************************)
(* The parameters of the two passes of a flow: apply_vpp_rtgmc_preset()    *)
(* (rgy_prm.cpp) and build_flow_params() (RtgmDif.cpp).  Only what decides *)
(* how many frames a pass holds, or which of its stages there are, is      *)
(* kept: the search radius, the deltas, the repairs and the retouch modes. *)
(***************************************************************************)
EXTENDS Integers

(* VppRtgmcPreset, from the slowest down. *)
Placebo   == 0
VerySlow  == 1
Slower    == 2
Slow      == 3
Medium    == 4
Fast      == 5
Faster    == 6
VeryFast  == 7
SuperFast == 8
UltraFast == 9
Draft     == 10
Presets   == Placebo .. Draft

(* RtgmDifFlow, and the flows with a second pass (flow_wants_clean()). *)
Flow       == {"fast_deint", "fast_both", "fast_opt", "faster_nn1", "slower", "slow", "slow_both"}
CleanFlows == {"fast_both", "fast_opt", "slow_both"}

(* RGY_DEGRAIN_MAX_DELTA *)
MaxDelta == 5

Least(a, b) == IF a < b THEN a ELSE b

(* apply_vpp_rtgmc_preset(): what preset p sets. *)
Preset(p) ==
  LET tr0 == IF p <= Fast THEN 2 ELSE IF p <= UltraFast THEN 1 ELSE 0
  IN  [tr0     |-> tr0,
       analyze |-> tr0,
       tr1     |-> IF p <= Slower THEN 2 ELSE 1,
       tr2     |-> CASE p = Placebo -> 3 [] p = VerySlow -> 2 [] p \in Slower .. Medium -> 1
                     [] OTHER -> 0,
       rep1    |-> 0,
       rep2    |-> IF p <= VeryFast THEN 4 ELSE IF p <= UltraFast THEN 3 ELSE 0,
       smode   |-> IF p <= UltraFast THEN 2 ELSE 0,
       slmode  |-> IF p <= VeryFast THEN 2 ELSE 0,
       slrad   |-> IF p = Placebo THEN 3 ELSE 1]

(* The fields of RtgmDifConfig that say -1 for "the preset's value". *)
Overrides == {"deintAnalyzeDelta", "deintTr0", "deintTr1Delta", "deintTr2Delta",
              "deintRetouchSmode", "cleanPreset", "cleanAnalyzeDelta", "cleanTr1Delta",
              "cleanTr2Delta", "cleanRep2Thin"}

(* A configuration with nothing overridden, and with some things so. *)
Plain(flow) == [flow |-> flow, lowLatency |-> FALSE, set |-> [f \in Overrides |-> -1]]
With(cfg, field, value) == [cfg EXCEPT !.set[field] = value]

(* The value an override leaves where value was. *)
Over(cfg, field, value) == IF cfg.set[field] >= 0 THEN cfg.set[field] ELSE value

(* The same for a delta, which is held to the greatest there is. *)
OverDelta(cfg, field, value) ==
  IF cfg.set[field] >= 0 THEN Least(cfg.set[field], MaxDelta) ELSE value

PresetOf(flow) ==
  CASE flow = "faster_nn1" -> Faster
    [] flow = "slower" -> Slower
    [] flow \in {"slow", "slow_both"} -> Slow
    [] OTHER -> Fast

(* build_flow_params(), the first pass: the low-latency switch comes before *)
(* the single fields.                                                       *)
DeintParams(cfg) ==
  LET p == Preset(PresetOf(cfg.flow))
      l == IF cfg.lowLatency THEN [p EXCEPT !.tr0 = 1, !.analyze = 1, !.tr2 = 0] ELSE p
  IN  [l EXCEPT !.tr0     = Over(cfg, "deintTr0", @),
                !.analyze = OverDelta(cfg, "deintAnalyzeDelta", @),
                !.tr1     = OverDelta(cfg, "deintTr1Delta", @),
                !.tr2     = OverDelta(cfg, "deintTr2Delta", @),
                !.smode   = Over(cfg, "deintRetouchSmode", @)]

(* build_flow_params(), the second pass: the first one's parameters or     *)
(* those of a preset of its own, then what the flow and the caller want.   *)
CleanParams(cfg) ==
  LET d == DeintParams(cfg)
      b == IF cfg.set["cleanPreset"] >= 0 THEN Preset(Least(cfg.set["cleanPreset"], Draft)) ELSE d
      f == IF cfg.flow = "fast_opt" THEN [b EXCEPT !.tr1 = 2, !.tr2 = 1] ELSE b
  IN  [f EXCEPT !.analyze = OverDelta(cfg, "cleanAnalyzeDelta", @),
                !.tr1     = OverDelta(cfg, "cleanTr1Delta", @),
                !.tr2     = OverDelta(cfg, "cleanTr2Delta", @),
                !.rep2    = IF cfg.set["cleanRep2Thin"] >= 0
                            THEN Least(cfg.set["cleanRep2Thin"], 7) ELSE @,
                !.smode   = 0]
=============================================================================
