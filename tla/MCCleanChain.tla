---------------------------- MODULE MCCleanChain ----------------------------
(***************************************************************************)
(* The clean chain with the parameters the flows give it, and the ring of  *)
(* frames it is built on, each by itself: `subject' says which of the two  *)
(* a behaviour is about, and the other stays as it is at the start.        *)
(***************************************************************************)
EXTENDS CleanChain, FrameRing, Flows

CONSTANT Subjects
VARIABLE subject

allVars == << subject, vars, chainVars >>

(* CleanChain::init() of a configuration: the repairs are on where they    *)
(* thin, the limit where slmode wants it.                                  *)
SettingOf(cfg, faults, frames) ==
  LET c == CleanParams(cfg)
  IN  [tr0 |-> c.tr0, analyze |-> c.analyze, tr1 |-> c.tr1, tr2 |-> c.tr2,
       rep1 |-> c.rep1 > 0, rep2 |-> c.rep2 > 0,
       limit |-> c.slmode \in {2, 4} /\ c.slrad >= 1,
       lowLatency |-> cfg.lowLatency, faults |-> faults, frames |-> frames]

(* The flows, their low-latency variants, every preset for the second pass *)
(* and the widest deltas that are accepted.                                *)
Plains == {Plain(f) : f \in CleanFlows}

Configs ==
  Plains
    \cup {[c EXCEPT !.lowLatency = TRUE] : c \in Plains}
    \cup {With(Plain("slow_both"), "cleanPreset", p) : p \in Presets}
    \cup {With(With(With(Plain("fast_opt"), "cleanAnalyzeDelta", 5), "cleanTr2Delta", 5),
               "cleanTr1Delta", d) : d \in 0 .. 2}
    \cup {With(Plain("fast_both"), "cleanRep2Thin", 0)}

(* Short streams with failures: a search radius of 1 and deltas of 1. *)
Faulty == With(With(Plain("slow_both"), "deintTr0", 0), "cleanAnalyzeDelta", 1)

MCSettings ==
  {SettingOf(c, FALSE, MaxIn) : c \in Configs}
    \cup {SettingOf([Faulty EXCEPT !.lowLatency = l], TRUE, 12) : l \in BOOLEAN}

(* The repair off, and nothing else changed. *)
MCNoRepair == {SettingOf(With(Plain("slow_both"), "cleanRep2Thin", 0), FALSE, MaxIn)}

MCInit ==
  /\ subject \in Subjects
  /\ Init /\ ChainInit
  /\ subject = "ring" => setting = CHOOSE s \in Settings : TRUE

IsRing  == subject = "ring" /\ UNCHANGED << subject, chainVars >>
IsChain == subject = "chain" /\ UNCHANGED << subject, vars >>

MCNext == (IsRing /\ Next) \/ (IsChain /\ ChainNext)

(* A drain that has begun goes on until it ends or a step fails. *)
MCSpec ==
  MCInit /\ [][MCNext]_allVars /\ WF_allVars(IsChain /\ asked /\ fails = 0 /\ RunStage)
=====
