---------------------------- MODULE MCRtgmcChain ----------------------------
(***************************************************************************)
(* The RTGMC filter with the parameters the flows give it, and the stage   *)
(* it is mostly made of, each by itself: `subject' says which of the two a *)
(* behaviour is about, and the other stays as it is at the start.          *)
(***************************************************************************)
EXTENDS Ledger, Degrain

CONSTANT Subjects
VARIABLE subject

allVars == << subject, vars, chainVars >>

(* The flows, their low-latency variants, and the widest deltas there are. *)
Plains == {Plain(f) : f \in Flow}

Configs ==
  Plains
    \cup {[c EXCEPT !.lowLatency = TRUE] : c \in Plains}
    \cup {With(Plain("slow"), "deintAnalyzeDelta", 1)}
    \cup {With(With(With(Plain("slow"), "deintAnalyzeDelta", 5), "deintTr2Delta", 5),
               "deintTr1Delta", d) : d \in 1 .. 2}

(* Short streams with failures: no search radius, deltas of 1. *)
Faulty == With(With(Plain("faster_nn1"), "deintTr0", 0), "deintAnalyzeDelta", 1)

MCSettings ==
  {SettingOf(c, FALSE, MaxInputs) : c \in Configs}
    \cup {SettingOf(With(Plain("slow"), "deintAnalyzeDelta", 1), FALSE, n) : n \in 0 .. 9}
    \cup {SettingOf([Faulty EXCEPT !.lowLatency = l], TRUE, 4) : l \in BOOLEAN}
    \cup {SettingOf(With(Faulty, "deintTr2Delta", 1), TRUE, 5)}

MCInit ==
  /\ subject \in Subjects
  /\ Init /\ ChainInit
  /\ subject = "stage" => parameters = CHOOSE s \in Settings : TRUE
  /\ subject = "chain" => mode = "Degrain" /\ lowLatency /\ ~ shared

IsStage == subject = "stage" /\ UNCHANGED << subject, chainVars >>
IsChain == subject = "chain" /\ UNCHANGED << subject, vars >>

MCNext == (IsStage /\ Next) \/ (IsChain /\ ChainNext)

(* A drain that has begun goes on until it ends or a call fails. *)
MCSpec ==
  /\ MCInit
  /\ [][MCNext]_allVars
  /\ WF_allVars(IsStage /\ fails = 0 /\ RunDrain)
  /\ WF_allVars(IsChain /\ drainAsked /\ failures = 0 /\ RunStage)
=============================================================================
