-------------------------- MODULE RtgmcChainProofs --------------------------
(***************************************************************************)
(* Proofs about RtgmcChain, for every set of parameters init() accepts,    *)
(* every length of the stream and every place a step may fail at.          *)
(*                                                                         *)
(* The invariant has the frames in order along the chain: what a later     *)
(* stage has comes before what an earlier one has, and what is put out but *)
(* not taken before both.  With it every step of the filter is a step of   *)
(* the pass that RtgmDif takes it to be.  That a drain which has ended has *)
(* left nothing needs the other half: without a failure a stage that has   *)
(* put a frame out holds back as much as it ever does until the drain is   *)
(* at it, which leaves it empty.                                           *)
(*                                                                         *)
(* What the caches must hold is a matter of counting: the sources, against *)
(* the frames in front of EDI; the helpers' frames and envelopes, by the   *)
(* next frame EDI gets and the next one the helpers work on.               *)
(***************************************************************************)
EXTENDS Ledger, StageFacts

(* Where a stage stands in the chain; a call that returns is behind all.   *)
Pos ==
  [idle |-> 0, prefilter |-> 1, analyze |-> 2, edi |-> 3, tr1 |-> 4, retouch |-> 5, tr2 |-> 6,
   sink |-> 7, return |-> 8]

Places == DOMAIN After \cup {"sink", "return", "idle"}

(* No stage runs.                                                          *)
Rest == {"idle", "return"}

(* The frames in a chain whose stages are st, with frame f under way.      *)
Under(f) == IF f = Tick THEN {} ELSE {f}

ChainOf(st, f) == (UNION {InStage(st[s]) : s \in Filters}) \cup Under(f)

(* Only stage s is another in st2.                                         *)
OnlyOne(st, st2, s) == \A t \in Filters : t # s => st2[t] = st[t]

(* The frames are in order along the chain, the one at p included.         *)
Ordered(st, p, f) ==
  /\ \A s \in Filters : InOrder(st[s])
  /\ \A s, t \in Filters : Pos[s] < Pos[t] => Before(InStage(st[t]), InStage(st[s]))
  /\ \A s \in Filters :
       /\ f # Tick /\ Pos[p] <= Pos[s] => Before(InStage(st[s]), {f})
       /\ f # Tick /\ Pos[s] < Pos[p] => Before({f}, InStage(st[s]))

(* A frame has come out of stage s; some says that one has come out of     *)
(* the chain.                                                              *)
Passed(st, p, f, some, s) ==
  \/ some
  \/ f # Tick /\ Pos[s] < Pos[p]
  \/ \E t \in Filters : Pos[s] < Pos[t] /\ InStage(st[t]) # {}

(* Stage x holds back as much as it ever does.                             *)
Full(x, delay, depth) == Len(x.hold) = delay /\ Len(x.pending) = depth

-----------------------------------------------------------------------------

(* Every stage keeps within its delay, and one that is off has nothing.    *)
StagesOK ==
  /\ stage \in [Filters -> Holding(Frames)]
  /\ \A s \in Filters : Len(stage[s].hold) <= Delay(s) /\ Len(stage[s].pending) <= DepthOf(s)
  /\ \A s \in Filters : ~ Enabled(s) => stage[s] = EmptyStage

Helping == [hold : Seq(Frames), cache : Seq(Frames), bound : Frames \cup {Tick}]

Envelopes == [frame : Frames, back : SUBSET Frames, forw : SUBSET Frames]

(* And so do the helpers and the caches.                                   *)
CachesOK ==
  /\ sources \in Seq(Frames) /\ Len(sources) <= SourceCache
  /\ helper \in [Helpers -> Helping]
  /\ \A h \in Helpers : Len(helper[h].hold) <= HelperDelay /\ Len(helper[h].cache) <= CompCache
  /\ stored \subseteq Envelopes
  /\ missed \in [Needs -> SUBSET Frames]

Counted ==
  /\ parameters \in Settings
  /\ inputs \in 0 .. parameters.inputs
  /\ put \in Seq(Frames)
  /\ failures \in 0 .. MaxFailures

(* Who has the frame: a push has one under way until it returns, a drain   *)
(* ticks the stage it is at and takes what comes out down the chain.       *)
Control ==
  /\ at \in Places /\ drainAt \in DOMAIN After \cup {"sink"}
  /\ frame \in Frames \cup {Tick} /\ second \in Frames \cup {Tick}
  /\ drained \in BOOLEAN /\ drainAsked \in BOOLEAN /\ drainEnded \in BOOLEAN
  /\ left \in 0 .. Most(2, MaxReturn)
  /\ at \in Rest \/ drainAsked => second = Tick
  /\ at \in Rest => frame = Tick
  /\ drained <=> drainAt = "sink"
  /\ ~ drainAsked => ~ drainEnded /\ drainAt = "prefilter"
  /\ ~ drainAsked /\ at \notin Rest => frame # Tick /\ left = 2 /\ inputs > 0
  /\ ~ drainAsked /\ at = "return" => left \in 1 .. 2 /\ inputs > 0
  /\ drainAsked /\ at # "idle" => ~ drainEnded
  /\ drainAsked /\ at \notin Rest => ~ drained /\ left = MaxReturn
  /\ drainAsked /\ at \notin Rest /\ frame = Tick => at = drainAt
  /\ drainAsked /\ frame # Tick => Pos[drainAt] < Pos[at]

(* The frames in the buffers of q. *)
Out(q) == {ring[q[i]] : i \in 1 .. Len(q)}

Slots == 0 .. OutBufs - 1

(* What is in the buffers: a push puts one frame out for either of the two *)
(* it makes, at most, and a drain call one.                                *)
Buffers ==
  /\ ring \in [Slots -> Frames \cup {Tick}]
  /\ slot \in Slots
  /\ outs \in Seq(Slots) /\ pendingOut \in Seq(Slots)
  /\ Tick \notin Out(outs) /\ Tick \notin Out(pendingOut)
  /\ outs # << >> => ~ drainAsked /\ at # "idle"
  /\ pendingOut # << >> => drainAsked /\ at = "return" /\ left = MaxReturn
  /\ Len(pendingOut) <= 1
  /\ Len(outs) + Len(pendingOut) <= (IF at = "return" THEN left ELSE IF second # Tick THEN 0 ELSE 1)
  /\ outs # << >> /\ at # "return" => Head(outs) # slot
  /\ \A i, j \in 1 .. Len(outs) : i < j => ring[outs[i]] < ring[outs[j]]

(* The frames that have not come out of the last stage. *)
Inside == ChainOf(stage, frame) \cup Under(second)

Leaving == Out(outs) \cup Out(pendingOut)

(* The frames are in order along the chain, those put out before them.     *)
Conveyed ==
  /\ Ordered(stage, at, frame)
  /\ Before(ChainOf(stage, frame), Under(second))
  /\ Before(Leaving, Inside)
  /\ Inside \cup Leaving \subseteq 0 .. 2 * inputs - 1

(* A push has its two frames in the chain until it returns or fails, the   *)
(* later one behind all that it puts out.                                  *)
Pushed ==
  ~ drainAsked /\ at # "idle" =>
    /\ at # "return" \/ outs # << >> \/ failures = 0 =>
         2 * inputs - left .. 2 * inputs - 1 \subseteq Inside \cup Leaving
    /\ outs # << >> => 2 * inputs - 1 \in Inside
    /\ at \notin Rest \cup {"prefilter"} =>
         2 * inputs - 1 \in Under(second) \cup InStage(stage["prefilter"])

(* A frame has come out of the chain. *)
Some == put # << >> \/ outs # << >> \/ pendingOut # << >>

(* Without a failure a stage that has put a frame out holds back as much   *)
(* as it ever does until the drain is at it, which leaves it empty.        *)
Primed(s) ==
  /\ stage[s].hold # << >> /\ s # "prefilter" => Len(stage[s].pending) = DepthOf(s)
  /\ drainAsked /\ Pos[s] < Pos[drainAt] => InStage(stage[s]) = {}
  /\ ~ drainAsked \/ Pos[drainAt] < Pos[s] => Full(stage[s], Delay(s), DepthOf(s))

Flowing ==
  failures = 0 =>
    \A s \in Filters : Enabled(s) /\ Passed(stage, at, frame, Some, s) => Primed(s)

ChainInv ==
  StagesOK /\ CachesOK /\ Counted /\ Control /\ Buffers /\ Conveyed /\ Pushed /\ Flowing

-----------------------------------------------------------------------------
(* The places and the parameters                                           *)

(* Where the stages are. *)
LEMMA PosFacts ==
  /\ \A p \in Places : Pos[p] \in 0 .. 8
  /\ \A p \in DOMAIN After : p \in Places /\ p \notin Rest /\ After[p] \in Places /\ Pos[After[p]] = Pos[p] + 1
                             /\ Pos[p] >= 1 /\ After[p] \in DOMAIN After \cup {"sink"} /\ p # "sink"
  /\ \A p, r \in Places : Pos[p] = Pos[r] => p = r
  /\ Filters \subseteq DOMAIN After /\ "edi" \in DOMAIN After /\ "retouch" \in DOMAIN After
  /\ "edi" \notin Filters /\ "retouch" \notin Filters /\ "sink" \notin Filters
  /\ Rest \subseteq Places /\ "sink" \in Places /\ "sink" \notin Rest /\ Pos["sink"] = 7 /\ Pos["prefilter"] = 1
  /\ Pos["edi"] = 3 /\ Pos["retouch"] = 5
  /\ "prefilter" \in Filters /\ "analyze" \in Filters /\ "tr1" \in Filters /\ "tr2" \in Filters
  /\ \A p \in Filters : Pos[p] <= 6
  /\ \A p \in DOMAIN After : Pos[p] <= 6
  /\ Places \ Rest = DOMAIN After \cup {"sink"}
  /\ "idle" \in Rest /\ "return" \in Rest /\ Pos["return"] = 8 /\ Pos["idle"] = 0
<1>1. DOMAIN After = {"prefilter", "analyze", "edi", "tr1", "retouch", "tr2"}
  BY DEF After
<1>2. Places = {"prefilter", "analyze", "edi", "tr1", "retouch", "tr2", "sink", "return", "idle"}
  BY <1>1 DEF Places
<1>3. /\ Pos["prefilter"] = 1 /\ Pos["analyze"] = 2 /\ Pos["edi"] = 3 /\ Pos["tr1"] = 4
      /\ Pos["retouch"] = 5 /\ Pos["tr2"] = 6 /\ Pos["sink"] = 7 /\ Pos["return"] = 8 /\ Pos["idle"] = 0
  BY DEF Pos
<1>4. /\ After["prefilter"] = "analyze" /\ After["analyze"] = "edi" /\ After["edi"] = "tr1"
      /\ After["tr1"] = "retouch" /\ After["retouch"] = "tr2" /\ After["tr2"] = "sink"
  BY DEF After
<1>5. \A p \in Places : Pos[p] \in 0 .. 8
  BY <1>2, <1>3
<1>6. \A p \in DOMAIN After : p \in Places /\ After[p] \in Places /\ Pos[After[p]] = Pos[p] + 1
                              /\ Pos[p] >= 1 /\ After[p] \in DOMAIN After \cup {"sink"} /\ p # "sink"
  BY <1>1, <1>2, <1>3, <1>4
<1>7. \A p, r \in Places : Pos[p] = Pos[r] => p = r
  BY <1>2, <1>3
<1>8. \A p \in DOMAIN After : p \notin Rest /\ Pos[p] <= 6
  BY <1>1, <1>3 DEF Rest
<1>9. Places \ Rest = DOMAIN After \cup {"sink"}
  BY <1>1, <1>2 DEF Rest
<1>10. QED
  BY <1>1, <1>2, <1>3, <1>5, <1>6, <1>7, <1>8, <1>9 DEF Filters, Rest

(* What init() accepts makes numbers of the delays. *)
LEMMA Parameters ==
  ASSUME parameters \in Settings
  PROVE  /\ \A s \in Filters : Delay(s) \in Nat /\ DepthOf(s) \in Nat /\ Lag(s) \in Nat
         /\ HelperDelay \in Nat /\ HelperDelay >= 1
         /\ parameters.inputs \in 0 .. MaxInputs
         /\ DepthOf("prefilter") = 1 /\ Enabled("prefilter") /\ Enabled("analyze") /\ Enabled("tr1")
         /\ parameters.tr0 \in Nat /\ parameters.analyze \in Nat /\ parameters.tr1 \in 1 .. 2
         /\ parameters.tr2 \in Nat /\ parameters.limit \in BOOLEAN /\ parameters.lowLatency \in BOOLEAN
         /\ NestedDelta \in Nat /\ NestedDelta >= 1 /\ Search \in Nat
<1>1. parameters \in Setting
  BY ChainAssumption
<1>2. /\ parameters.tr0 \in Nat /\ parameters.analyze \in Nat /\ parameters.tr1 \in 1 .. 2
      /\ parameters.tr2 \in Nat /\ parameters.limit \in BOOLEAN /\ parameters.lowLatency \in BOOLEAN
      /\ parameters.inputs \in 0 .. MaxInputs
  BY <1>1, ChainAssumption DEF Setting
<1>3. NestedDelta \in Nat /\ NestedDelta >= 1
  BY <1>2 DEF NestedDelta, Most
<1>4. Search \in Nat
  BY <1>2 DEF Search
<1>5. \A s \in Filters : Delay(s) \in Nat
  <2>1. Delay("prefilter") \in Nat
    BY <1>2 DEF Delay
  <2>2. Delay("analyze") \in Nat
    BY <1>2, <1>3 DEF Delay
  <2>3. Delay("tr1") \in Nat
    BY <1>2, <1>4 DEF Delay
  <2>4. Delay("tr2") \in Nat
    BY <1>2, <1>4 DEF Delay
  <2>5. QED
    BY <2>1, <2>2, <2>3, <2>4 DEF Filters
<1>6. DepthOf("prefilter") = 1
  BY DEF DepthOf
<1>7. \A s \in Filters : DepthOf(s) \in Nat
  <2>1. DepthOf("analyze") \in Nat
    BY DEF DepthOf
  <2>2. DepthOf("tr1") \in Nat
    BY ChainAssumption DEF DepthOf
  <2>3. DepthOf("tr2") \in Nat
    BY ChainAssumption DEF DepthOf
  <2>4. QED
    BY <1>6, <2>1, <2>2, <2>3 DEF Filters
<1>8. \A s \in Filters : Lag(s) \in Nat
  BY <1>5, <1>7 DEF Lag
<1>9. HelperDelay \in Nat /\ HelperDelay >= 1
  BY <1>4 DEF HelperDelay
<1>10. Enabled("prefilter") /\ Enabled("analyze") /\ Enabled("tr1")
  BY DEF Enabled
<1>11. QED
  BY <1>2, <1>3, <1>4, <1>5, <1>6, <1>7, <1>8, <1>9, <1>10

(* The frames along the chain                                              *)

(* The order along the chain, with no frame under way, does not depend on  *)
(* the place; a frame that is lost leaves the others in order.             *)
LEMMA OrderDropped ==
  ASSUME NEW st, NEW p, NEW f, Ordered(st, p, f), NEW r
  PROVE  Ordered(st, r, Tick)
BY DEF Ordered

(* A frame goes on past a stage that has none.                             *)
LEMMA OrderMoved ==
  ASSUME NEW st, NEW p \in DOMAIN After, NEW f, Ordered(st, p, f), p \in Filters => InStage(st[p]) = {}
  PROVE  Ordered(st, After[p], f)
<1>1. ASSUME NEW s \in Filters, f # Tick
      PROVE  /\ Pos[After[p]] <= Pos[s] => Before(InStage(st[s]), {f})
             /\ Pos[s] < Pos[After[p]] => Before({f}, InStage(st[s]))
  <2>1. Pos[After[p]] = Pos[p] + 1 /\ Pos[p] \in Int /\ Pos[s] \in Int /\ p \in Places /\ s \in Places
    BY PosFacts
  <2>2. Pos[After[p]] <= Pos[s] => Pos[p] <= Pos[s]
    BY <2>1
  <2>3. Pos[s] < Pos[After[p]] => Pos[s] < Pos[p] \/ Pos[s] = Pos[p]
    BY <2>1
  <2>4. Pos[s] = Pos[p] => s = p
    BY <2>1, PosFacts
  <2>5. InStage(st[s]) = {} => Before({f}, InStage(st[s]))
    BY DEF Before
  <2>6. QED
    BY <1>1, <2>2, <2>3, <2>4, <2>5 DEF Ordered
<1>2. QED
  BY <1>1 DEF Ordered

(* A later frame enters the chain.                                         *)
LEMMA OrderEnters ==
  ASSUME NEW st, NEW p, NEW f, Ordered(st, p, Tick), Before(ChainOf(st, Tick), {f})
  PROVE  Ordered(st, "prefilter", f)
<1>1. ASSUME NEW s \in Filters
      PROVE  /\ Before(InStage(st[s]), {f})
             /\ ~ Pos[s] < Pos["prefilter"]
  <2>1. InStage(st[s]) \subseteq ChainOf(st, Tick)
    BY DEF ChainOf
  <2>2. Pos[s] >= 1 /\ Pos["prefilter"] = 1 /\ Pos[s] \in Int
    BY PosFacts
  <2>3. QED
    BY <2>1, <2>2 DEF Before
<1>2. QED
  BY <1>1 DEF Ordered

(* The frame at the sink is the first of those in the chain.               *)
LEMMA OldestAtSink ==
  ASSUME NEW st, NEW f, f # Tick, Ordered(st, "sink", f)
  PROVE  Before({f}, ChainOf(st, Tick))
<1>1. ASSUME NEW s \in Filters PROVE Before({f}, InStage(st[s]))
  <2>1. Pos[s] < Pos["sink"]
    <3>1. Pos[s] <= 6 /\ Pos["sink"] = 7 /\ Pos[s] \in Int
      BY PosFacts
    <3>2. QED
      BY <3>1
  <2>2. QED
    BY <2>1 DEF Ordered
<1>2. QED
  BY <1>1 DEF Before, ChainOf, Under

(* Stage s is left with x of the frames it had and the one it was given.   *)
LEMMA OrderLeft ==
  ASSUME NEW st, NEW s \in Filters, NEW f, Ordered(st, s, f),
         NEW x \in Holding(Frames), InOrder(x), InStage(x) \subseteq InStage(st[s]) \cup Under(f),
         NEW st2, st2[s] = x, OnlyOne(st, st2, s), NEW r
  PROVE  Ordered(st2, r, Tick)
<1>1. st2[s] = x /\ \A t \in Filters : t # s => st2[t] = st[t]
  BY DEF OnlyOne
<1>2. ASSUME NEW t \in Filters, Pos[t] < Pos[s]
      PROVE  Before(InStage(st[s]) \cup Under(f), InStage(st[t]))
  BY <1>2 DEF Ordered, Before, Under
<1>3. ASSUME NEW t \in Filters, Pos[s] < Pos[t]
      PROVE  Before(InStage(st[t]), InStage(st[s]) \cup Under(f))
  <2>1. Pos[s] <= Pos[t]
    BY <1>3, PosFacts
  <2>2. QED
    BY <1>3, <2>1 DEF Ordered, Before, Under
<1>4. ASSUME NEW t \in Filters, NEW u \in Filters, Pos[t] < Pos[u]
      PROVE  Before(InStage(st2[u]), InStage(st2[t]))
  <2>1. CASE t = s
    <3>1. u # s
      BY <1>4, <2>1, PosFacts
    <3>2. Before(InStage(st[u]), InStage(st[s]) \cup Under(f))
      BY <1>3, <1>4, <2>1
    <3>3. QED
      BY <1>1, <2>1, <3>1, <3>2 DEF Before
  <2>2. CASE u = s
    <3>1. t # s
      BY <1>4, <2>2, PosFacts
    <3>2. Before(InStage(st[s]) \cup Under(f), InStage(st[t]))
      BY <1>2, <1>4, <2>2
    <3>3. QED
      BY <1>1, <2>2, <3>1, <3>2 DEF Before
  <2>3. CASE t # s /\ u # s
    BY <1>1, <1>4, <2>3 DEF Ordered
  <2>4. QED
    BY <2>1, <2>2, <2>3
<1>5. \A t \in Filters : InOrder(st2[t])
  BY <1>1 DEF Ordered
<1>6. QED
  BY <1>4, <1>5 DEF Ordered

(* A frame in the chain is under way or in a stage.                        *)
LEMMA ChainMember ==
  ASSUME NEW st, NEW f, NEW e
  PROVE  e \in ChainOf(st, f) <=> e \in Under(f) \/ \E s \in Filters : e \in InStage(st[s])
<1>1. ASSUME NEW s \in Filters, e \in InStage(st[s]) PROVE e \in ChainOf(st, f)
  BY <1>1 DEF ChainOf
<1>2. ASSUME e \in ChainOf(st, f), e \notin Under(f) PROVE \E s \in Filters : e \in InStage(st[s])
  BY <1>2 DEF ChainOf
<1>3. e \in Under(f) => e \in ChainOf(st, f)
  BY DEF ChainOf
<1>4. QED
  BY <1>1, <1>2, <1>3

(* What is in the chain when stage s is left with x.                       *)
LEMMA ChainLeft ==
  ASSUME NEW st, NEW s \in Filters, NEW f,
         NEW x, InStage(x) \subseteq InStage(st[s]) \cup Under(f),
         NEW st2, st2[s] = x, OnlyOne(st, st2, s), NEW g, Under(g) \subseteq InStage(st[s]) \cup Under(f)
  PROVE  /\ ChainOf(st2, g) \subseteq ChainOf(st, f)
         /\ ChainOf(st, f) \ ChainOf(st2, g)
              \subseteq (InStage(st[s]) \cup Under(f)) \ (InStage(x) \cup Under(g))
<1>1. st2[s] = x /\ \A t \in Filters : t # s => st2[t] = st[t]
  BY DEF OnlyOne
<1>2. ASSUME NEW e \in ChainOf(st2, g) PROVE e \in ChainOf(st, f)
  <2>1. CASE e \in Under(g) \/ e \in InStage(st2[s])
    <3>1. e \in InStage(st[s]) \cup Under(f)
      BY <1>1, <2>1
    <3>2. QED
      BY <3>1, ChainMember
  <2>2. CASE \E t \in Filters : t # s /\ e \in InStage(st2[t])
    BY <1>1, <2>2, ChainMember
  <2>3. QED
    BY <2>1, <2>2, ChainMember
<1>3. ASSUME NEW e \in ChainOf(st, f), e \notin ChainOf(st2, g)
      PROVE  e \in (InStage(st[s]) \cup Under(f)) \ (InStage(x) \cup Under(g))
  <2>1. e \notin Under(g) /\ \A t \in Filters : e \notin InStage(st2[t])
    BY <1>3, ChainMember
  <2>2. e \in Under(f) \/ \E t \in Filters : e \in InStage(st[t])
    BY ChainMember
  <2>3. QED
    BY <1>1, <2>1, <2>2
<1>4. QED
  BY <1>2, <1>3

(* Stage s answers: what it had and was given is in order along the chain, *)
(* and all of it is still there.                                           *)
LEMMA OrderAnswered ==
  ASSUME NEW st, NEW s \in Filters, NEW f, Ordered(st, s, f),
         NEW a, InOrder(a), Answers(InStage(st[s]) \cup Under(f), a),
         NEW x \in Holding(Frames), x = [hold |-> a.hold, pending |-> a.pending],
         NEW st2, st2[s] = x, OnlyOne(st, st2, s), Tick \notin InStage(st[s])
  PROVE  /\ ~ PutsOut(a) => /\ \A r : Ordered(st2, r, Tick)
                            /\ ChainOf(st2, Tick) = ChainOf(st, f)
         /\ \A g \in a.out : Ordered(st2, After[s], g) /\ ChainOf(st2, g) = ChainOf(st, f)
<1> DEFINE had == InStage(st[s]) \cup Under(f)
<1>1. InStage(x) = InStage(a) /\ InOrder(x)
  BY DEF InStage, InOrder
<1>2. InStage(x) \subseteq had /\ Tick \notin had
  <2>1. InStage(a) \subseteq had
    BY DEF Answers
  <2>2. QED
    BY <1>1, <2>1 DEF Under
<1>3. \A r : Ordered(st2, r, Tick)
  BY <1>1, <1>2, OrderLeft
<1>4. ASSUME ~ PutsOut(a) PROVE ChainOf(st2, Tick) = ChainOf(st, f)
  <2>1. InStage(x) = had /\ Under(Tick) = {}
    BY <1>1, <1>4 DEF Answers, PutsOut, Under
  <2>2. /\ ChainOf(st2, Tick) \subseteq ChainOf(st, f)
        /\ ChainOf(st, f) \ ChainOf(st2, Tick) \subseteq had \ (InStage(x) \cup Under(Tick))
    <3>1. InStage(x) \subseteq had /\ Under(Tick) \subseteq had
      BY <1>2, <2>1
    <3>2. QED
      BY <3>1, ChainLeft
  <2>3. QED
    BY <2>1, <2>2
<1>5. ASSUME NEW g \in a.out PROVE Ordered(st2, After[s], g) /\ ChainOf(st2, g) = ChainOf(st, f)
  <2>1. g \in had /\ InStage(x) = had \ {g} /\ Before({g}, InStage(x))
    BY <1>1, <1>5 DEF Answers
  <2>2. g # Tick /\ Under(g) = {g}
    BY <1>2, <2>1 DEF Under
  <2>3. ChainOf(st2, g) = ChainOf(st, f)
    <3>1. /\ ChainOf(st2, g) \subseteq ChainOf(st, f)
          /\ ChainOf(st, f) \ ChainOf(st2, g) \subseteq had \ (InStage(x) \cup Under(g))
      <4>1. InStage(x) \subseteq had /\ Under(g) \subseteq had
        BY <1>2, <2>1, <2>2
      <4>2. QED
        BY <4>1, ChainLeft
    <3>2. QED
      BY <2>1, <2>2, <3>1
  <2>4. st2[s] = x /\ \A t \in Filters : t # s => st2[t] = st[t]
    BY DEF OnlyOne
  <2>5. Pos[After[s]] = Pos[s] + 1 /\ Pos[s] \in Int
    BY PosFacts
  <2>6. ASSUME NEW t \in Filters, Pos[After[s]] <= Pos[t] PROVE Before(InStage(st2[t]), {g})
    <3>1. t # s /\ Pos[s] < Pos[t] /\ Pos[s] <= Pos[t]
      <4>1. Pos[t] \in Int
        BY PosFacts
      <4>2. QED
        BY <2>5, <2>6, <4>1
    <3>2. Before(InStage(st[t]), InStage(st[s])) /\ (f # Tick => Before(InStage(st[t]), {f}))
      BY <3>1 DEF Ordered
    <3>3. QED
      BY <2>1, <2>4, <3>1, <3>2 DEF Before, Under
  <2>7. ASSUME NEW t \in Filters, Pos[t] < Pos[After[s]] PROVE Before({g}, InStage(st2[t]))
    <3>1. CASE t = s
      BY <2>1, <2>4, <3>1
    <3>2. CASE t # s
      <4>1. Pos[t] < Pos[s]
        <5>1. Pos[t] \in Int /\ Pos[t] # Pos[s]
          BY <3>2, PosFacts
        <5>2. QED
          BY <2>5, <2>7, <5>1
      <4>2. Before(InStage(st[s]), InStage(st[t])) /\ (f # Tick => Before({f}, InStage(st[t])))
        BY <4>1 DEF Ordered
      <4>3. QED
        BY <2>1, <2>4, <3>2, <4>2 DEF Before, Under
    <3>3. QED
      BY <3>1, <3>2
  <2>8. Ordered(st2, After[s], Tick)
    BY <1>3
  <2>9. Ordered(st2, After[s], g)
    BY <2>6, <2>7, <2>8 DEF Ordered
  <2>10. QED
    BY <2>3, <2>9
<1>6. QED
  BY <1>3, <1>4, <1>5

(* The stages that have the chain's frames are all that counts.            *)
LEMMA StagesAlone ==
  ASSUME NEW st, NEW st2, \A s \in Filters : st2[s] = st[s], NEW p, NEW f
  PROVE  /\ Ordered(st2, p, f) <=> Ordered(st, p, f)
         /\ ChainOf(st2, f) = ChainOf(st, f)
         /\ \A q, s : Passed(st2, p, f, q, s) <=> Passed(st, p, f, q, s)
<1>1. Ordered(st2, p, f) <=> Ordered(st, p, f)
  BY DEF Ordered
<1>2. \A e : e \in ChainOf(st2, f) <=> e \in ChainOf(st, f)
  BY ChainMember
<1>3. \A q, s : Passed(st2, p, f, q, s) <=> Passed(st, p, f, q, s)
  BY DEF Passed
<1>4. QED
  BY <1>1, <1>2, <1>3

(* What init() has made of the parameters does not change.                 *)
LEMMA ParametersKept ==
  ASSUME parameters' = parameters
  PROVE  /\ \A s : Delay(s)' = Delay(s) /\ DepthOf(s)' = DepthOf(s)
         /\ \A s : Enabled(s)' = Enabled(s) /\ Lag(s)' = Lag(s)
         /\ HelperDelay' = HelperDelay /\ NestedDelta' = NestedDelta
<1>1. \A s : Delay(s)' = Delay(s)
  BY DEF Delay, NestedDelta, Search, Most
<1>2. \A s : DepthOf(s)' = DepthOf(s)
  BY DEF DepthOf
<1>3. \A s : Enabled(s)' = Enabled(s)
  BY DEF Enabled
<1>4. \A s : Lag(s)' = Lag(s)
  BY <1>1, <1>2, <1>3 DEF Lag
<1>5. HelperDelay' = HelperDelay /\ NestedDelta' = NestedDelta
  BY DEF HelperDelay, NestedDelta, Search, Most
<1>6. QED
  BY <1>1, <1>2, <1>3, <1>4, <1>5

(* One stage is left with other frames. *)
LEMMA StagesKept ==
  ASSUME StagesOK, parameters' = parameters, NEW s \in Filters, Enabled(s), NEW x \in Holding(Frames),
         Len(x.hold) <= Delay(s), Len(x.pending) <= DepthOf(s), stage' = [stage EXCEPT ![s] = x]
  PROVE  StagesOK' /\ stage'[s] = x /\ OnlyOne(stage, stage', s)
<1>1. stage' \in [Filters -> Holding(Frames)]
  BY DEF StagesOK
<1>2. stage'[s] = x /\ \A t \in Filters : t # s => stage'[t] = stage[t]
  BY DEF StagesOK
<1>3. /\ \A t : Delay(t)' = Delay(t) /\ DepthOf(t)' = DepthOf(t)
      /\ \A t : Enabled(t)' = Enabled(t)
  BY ParametersKept
<1>4. ASSUME NEW t \in Filters
      PROVE  /\ Len(stage'[t].hold) <= Delay(t)' /\ Len(stage'[t].pending) <= DepthOf(t)'
             /\ ~ Enabled(t)' => stage'[t] = EmptyStage
  <2>1. CASE t = s
    BY <1>2, <1>3, <2>1
  <2>2. CASE t # s
    BY <1>2, <1>3, <2>2 DEF StagesOK
  <2>3. QED
    BY <2>1, <2>2
<1>5. OnlyOne(stage, stage', s)
  BY <1>2, PosFacts DEF OnlyOne
<1>6. QED
  BY <1>1, <1>2, <1>4, <1>5 DEF StagesOK

(* No stage changes. *)
LEMMA StagesSame ==
  ASSUME StagesOK, parameters' = parameters, stage' = stage
  PROVE  StagesOK'
<1>1. /\ \A t : Delay(t)' = Delay(t) /\ DepthOf(t)' = DepthOf(t)
      /\ \A t : Enabled(t)' = Enabled(t)
  BY ParametersKept
<1>2. QED
  BY <1>1 DEF StagesOK

(* The frames are numbers.                                                 *)
LEMMA FramesFacts ==
  /\ Frames \in SUBSET Int /\ Frames \subseteq Nat /\ Tick \notin Frames /\ Tick \in Int
  /\ \A n \in 0 .. MaxInputs : 0 .. 2 * n - 1 \subseteq Frames
BY ChainAssumption DEF Frames, Tick

(* The frames of a stage are frames, and there are no more of them than it *)
(* may hold back.                                                          *)
LEMMA StageCount ==
  ASSUME StagesOK, parameters \in Settings, NEW s \in Filters
  PROVE  /\ InStage(stage[s]) \subseteq Frames /\ IsFiniteSet(InStage(stage[s]))
         /\ Cardinality(InStage(stage[s])) \in Nat /\ Cardinality(InStage(stage[s])) <= Lag(s)
         /\ ~ Enabled(s) => InStage(stage[s]) = {}
<1>1. stage[s] \in Holding(Frames) /\ stage[s].hold \in Seq(Frames) /\ stage[s].pending \in Seq(Frames)
  BY DEF StagesOK, Holding
<1>2. PICK h \in Seq(Frames), p \in Seq(Frames) : h = stage[s].hold /\ p = stage[s].pending
  BY <1>1
<1>3. InStage(stage[s]) = Elems(h) \cup Elems(p)
  BY <1>2 DEF InStage, Elems
<1>4. /\ Elems(h) \subseteq Frames /\ IsFiniteSet(Elems(h)) /\ Cardinality(Elems(h)) <= Len(h)
      /\ Cardinality(Elems(h)) \in Nat
      /\ Elems(p) \subseteq Frames /\ IsFiniteSet(Elems(p)) /\ Cardinality(Elems(p)) <= Len(p)
      /\ Cardinality(Elems(p)) \in Nat
  BY ElemsCount
<1>5. /\ IsFiniteSet(Elems(h) \cup Elems(p))
      /\ Cardinality(Elems(h) \cup Elems(p))
           = Cardinality(Elems(h)) + Cardinality(Elems(p)) - Cardinality(Elems(h) \cap Elems(p))
      /\ Cardinality(Elems(h) \cap Elems(p)) \in Nat /\ Cardinality(Elems(h) \cup Elems(p)) \in Nat
  <2>1. IsFiniteSet(Elems(h) \cap Elems(p))
    BY <1>4, FS_Intersection
  <2>2. QED
    BY <1>4, <2>1, FS_Union, FS_CardinalityType
<1>6. Cardinality(InStage(stage[s])) \in Nat /\ Cardinality(InStage(stage[s])) <= Len(h) + Len(p)
  <2>1. Len(h) \in Nat /\ Len(p) \in Nat
    BY LenProperties
  <2>2. QED
    BY <1>3, <1>4, <1>5, <2>1
<1>7. CASE Enabled(s)
  <2>1. Len(h) <= Delay(s) /\ Len(p) <= DepthOf(s) /\ Lag(s) = Delay(s) + DepthOf(s)
    BY <1>2, <1>7 DEF StagesOK, Lag
  <2>2. Delay(s) \in Nat /\ DepthOf(s) \in Nat /\ Len(h) \in Nat /\ Len(p) \in Nat
    BY Parameters, LenProperties
  <2>3. QED
    BY <1>3, <1>4, <1>5, <1>6, <1>7, <2>1, <2>2
<1>8. CASE ~ Enabled(s)
  <2>1. stage[s] = EmptyStage
    BY <1>8 DEF StagesOK
  <2>2. h = << >> /\ p = << >> /\ Len(h) = 0 /\ Len(p) = 0
    BY <1>2, <2>1 DEF EmptyStage
  <2>3. Elems(h) = {} /\ Elems(p) = {}
    BY <2>2 DEF Elems
  <2>4. Lag(s) = 0
    BY <1>8 DEF Lag
  <2>5. Cardinality(InStage(stage[s])) <= 0
    BY <1>6, <2>2
  <2>6. QED
    BY <1>3, <1>4, <1>5, <1>6, <2>3, <2>4, <2>5
<1>9. QED
  BY <1>7, <1>8

(* A drain tick to the prefilter brings a frame out whenever it has one,   *)
(* as if the test of no frame were waited for.                             *)
TickedDepth(s) == IF s = "prefilter" THEN Len(stage[s].pending) ELSE DepthOf(s)

LEMMA PrefilterAsTicked ==
  ASSUME NEW S, NEW st \in Holding(S)
  PROVE  PrefilterTicked(st) = StageTicked(st, Len(st.pending)) /\ Len(st.pending) \in Nat
<1>1. st.pending \in Seq(S) /\ st.hold \in Seq(S) /\ Len(st.pending) \in Nat
  BY LenProperties DEF Holding
<1>2. CASE st.hold = << >>
  BY <1>1, <1>2 DEF PrefilterTicked, StageTicked
<1>3. CASE st.hold # << >>
  <2>1. PICK q : q = Append(st.pending, Head(st.hold))
    OBVIOUS
  <2>2. Len(q) = Len(st.pending) + 1 /\ q # << >>
    <3>1. Head(st.hold) \in S
      BY <1>1, <1>3, HeadTailProperties
    <3>2. QED
      BY <1>1, <2>1, <3>1, AppendProperties
  <2>3. Len(q) > Len(st.pending)
    BY <1>1, <2>2
  <2>4. StageTicked(st, Len(st.pending)) = Puts(Tail(st.hold), q)
    BY <1>3, <2>1, <2>3 DEF StageTicked, Worked
  <2>5. PrefilterTicked(st) = Puts(Tail(st.hold), q)
    BY <1>3, <2>1, <2>2 DEF PrefilterTicked
  <2>6. QED
    BY <1>1, <2>4, <2>5
<1>4. QED
  BY <1>2, <1>3

LEMMA AnswerToTick ==
  ASSUME StagesOK, parameters \in Settings, frame = Tick, NEW s \in Filters
  PROVE  /\ Answer(s) = StageTicked(stage[s], TickedDepth(s))
         /\ TickedDepth(s) \in Nat /\ Len(stage[s].pending) <= TickedDepth(s)
         /\ TickedDepth(s) <= DepthOf(s)
         /\ s # "prefilter" => TickedDepth(s) = DepthOf(s)
         /\ s = "prefilter" => TickedDepth(s) = Len(stage[s].pending)
<1>1. stage[s] \in Holding(Frames) /\ Len(stage[s].pending) <= DepthOf(s) /\ DepthOf(s) \in Nat
  BY Parameters DEF StagesOK
<1>2. PrefilterTicked(stage[s]) = StageTicked(stage[s], Len(stage[s].pending)) /\ Len(stage[s].pending) \in Nat
  BY <1>1, PrefilterAsTicked
<1>3. CASE s = "prefilter"
  BY <1>1, <1>2, <1>3 DEF TickedDepth, Answer
<1>4. CASE s # "prefilter"
  BY <1>1, <1>4 DEF TickedDepth, Answer
<1>5. QED
  BY <1>3, <1>4

(* A stage keeps within its delay whatever it is given. *)
LEMMA AnswerTyped ==
  ASSUME StagesOK, parameters \in Settings, frame \in Frames \cup {Tick}, NEW s \in Filters,
         NEW a, a = Answer(s)
  PROVE  /\ [hold |-> a.hold, pending |-> a.pending] \in Holding(Frames)
         /\ Len(a.hold) <= Delay(s) /\ Len(a.pending) <= DepthOf(s)
         /\ a.out \in SUBSET Frames
<1>1. PICK d \in Nat, n \in Nat : d = Delay(s) /\ n = DepthOf(s)
  BY Parameters
<1>2. PICK st \in Holding(Frames) : st = stage[s]
  BY DEF StagesOK
<1>3. Len(st.hold) <= d /\ Len(st.pending) <= n /\ Frames \in SUBSET Int
  BY <1>1, <1>2, FramesFacts DEF StagesOK
<1>4. /\ a.hold \in Seq(Frames) /\ a.pending \in Seq(Frames) /\ a.out \in SUBSET Frames
      /\ Len(a.hold) <= d /\ Len(a.pending) <= n
  <2>1. CASE frame = Tick
    <3>0. PICK m \in Nat : m = TickedDepth(s) /\ Len(st.pending) <= m /\ m <= n
      BY <1>1, <1>2, <2>1, AnswerToTick
    <3>1. a = StageTicked(st, m)
      BY <1>2, <2>1, <3>0, AnswerToTick
    <3>2. /\ a.hold \in Seq(Frames) /\ a.pending \in Seq(Frames) /\ a.out \in SUBSET Frames
          /\ Len(a.hold) <= Len(st.hold) /\ Len(a.pending) <= m
      BY <1>3, <3>0, <3>1, TickedAnswer
    <3>3. Len(a.hold) \in Nat /\ Len(st.hold) \in Nat /\ Len(a.pending) \in Nat
      BY <3>2, LenProperties DEF Holding
    <3>4. QED
      BY <1>3, <3>0, <3>2, <3>3
  <2>2. CASE frame # Tick
    <3>1. PICK f \in Frames : f = frame
      BY <2>2
    <3>2. a = StageFed(st, f, d, n)
      BY <1>1, <1>2, <2>2, <3>1 DEF Answer
    <3>3. FedAs(Frames, st, f, d, n, a)
      BY <1>3, <3>2, FedAnswer
    <3>4. QED
      BY <3>3 DEF FedAs
  <2>3. QED
    BY <2>1, <2>2
<1>5. QED
  BY <1>1, <1>4 DEF Holding

(* One of the chain's own stages keeps the order of what it has and is     *)
(* given.                                                                  *)
LEMMA AnswerOrdered ==
  ASSUME StagesOK, parameters \in Settings, frame \in Frames \cup {Tick}, Conveyed, at \in Filters,
         NEW a, a = Answer(at)
  PROVE  InOrder(a) /\ Answers(InStage(stage[at]) \cup Under(frame), a)
<1>1. PICK s \in Filters : s = at
  OBVIOUS
<1>2. PICK d \in Nat, n \in Nat : d = Delay(s) /\ n = DepthOf(s)
  BY Parameters, PosFacts
<1>3. PICK st \in Holding(Frames) : st = stage[s]
  BY PosFacts DEF StagesOK
<1>4. Len(st.hold) <= d /\ Len(st.pending) <= n /\ Frames \in SUBSET Int
  BY <1>2, <1>3, FramesFacts, PosFacts DEF StagesOK
<1>5. InOrder(st) /\ (frame # Tick => Before(InStage(st), {frame}))
  <2>1. Pos[at] <= Pos[s]
    <3>1. Pos[s] \in Int
      BY PosFacts
    <3>2. QED
      BY <1>1, <3>1
  <2>2. QED
    BY <1>1, <1>3, <2>1 DEF Conveyed, Ordered
<1>6. CASE frame = Tick
  <2>0. PICK m \in Nat : m = TickedDepth(s) /\ Len(st.pending) <= m
    BY <1>1, <1>3, <1>6, AnswerToTick
  <2>1. a = StageTicked(st, m)
    BY <1>1, <1>3, <1>6, <2>0, AnswerToTick
  <2>2. Answers(InStage(st), a) /\ InOrder(a)
    BY <1>4, <1>5, <2>0, <2>1, TickedAnswer
  <2>3. InStage(st) \cup Under(frame) = InStage(st)
    BY <1>6 DEF Under
  <2>4. QED
    BY <1>1, <1>3, <2>2, <2>3
<1>7. CASE frame # Tick
  <2>1. PICK f \in Frames : f = frame
    BY <1>7
  <2>2. a = StageFed(st, f, d, n)
    BY <1>1, <1>2, <1>3, <1>7, <2>1 DEF Answer
  <2>3. Before(InStage(st), {f})
    BY <1>5, <1>7, <2>1
  <2>4. Answers(InStage(st) \cup {f}, a) /\ InOrder(a)
    <3>1. FedAs(Frames, st, f, d, n, a)
      BY <1>4, <2>2, FedAnswer
    <3>2. QED
      BY <1>5, <2>3, <3>1 DEF FedAs
  <2>5. InStage(st) \cup Under(frame) = InStage(st) \cup {f}
    BY <1>7, <2>1 DEF Under
  <2>6. QED
    BY <1>1, <1>3, <2>4, <2>5
<1>8. QED
  BY <1>6, <1>7

(* A stage that puts a frame out for the one it is given is full, and one  *)
(* that is full does.                                                      *)
LEMMA AnswerFed ==
  ASSUME StagesOK, parameters \in Settings, frame \in Frames, NEW s \in Filters, NEW a, a = Answer(s)
  PROVE  /\ PutsOut(a) => Full(a, Delay(s), DepthOf(s))
         /\ Full(stage[s], Delay(s), DepthOf(s)) => PutsOut(a)
<1>1. PICK d \in Nat, n \in Nat : d = Delay(s) /\ n = DepthOf(s)
  BY Parameters
<1>2. PICK st \in Holding(Frames) : st = stage[s]
  BY DEF StagesOK
<1>3. Len(st.hold) <= d /\ Len(st.pending) <= n /\ Frames \in SUBSET Int
  BY <1>1, <1>2, FramesFacts DEF StagesOK
<1>4. PICK f \in Frames : f = frame
  OBVIOUS
<1>5. a = StageFed(st, f, d, n)
  <2>1. frame # Tick
    BY FramesFacts
  <2>2. QED
    BY <1>1, <1>2, <1>4, <2>1 DEF Answer
<1>6. /\ PutsOut(a) => Len(a.hold) = d /\ Len(a.pending) = n
      /\ Len(st.hold) = d /\ Len(st.pending) = n => PutsOut(a)
  <2>1. FedAs(Frames, st, f, d, n, a)
    BY <1>3, <1>5, FedAnswer
  <2>2. QED
    BY <2>1 DEF FedAs
<1>7. QED
  BY <1>1, <1>2, <1>6 DEF Full

(* A stage that has put a frame out has something to drain until it has no *)
(* frame any more.                                                         *)
LEMMA AnswerTicked ==
  ASSUME StagesOK, parameters \in Settings, frame = Tick, NEW s \in Filters, NEW a, a = Answer(s)
  PROVE  /\ PutsOut(a) /\ a.hold # << >> /\ s # "prefilter" => Len(a.pending) = DepthOf(s)
         /\ ~ PutsOut(a) => \/ InStage(stage[s]) = {}
                            \/ /\ s # "prefilter" /\ stage[s].hold # << >>
                               /\ Len(stage[s].pending) # DepthOf(s)
<1>1. PICK n \in Nat : n = TickedDepth(s)
  BY AnswerToTick
<1>2. PICK st \in Holding(Frames) : st = stage[s]
  BY DEF StagesOK
<1>3. Len(st.pending) <= n /\ Frames \in SUBSET Int
  BY <1>1, <1>2, AnswerToTick, FramesFacts
<1>4. a = StageTicked(st, n)
  BY <1>1, <1>2, AnswerToTick
<1>5. /\ PutsOut(a) /\ a.hold # << >> => Len(a.pending) = n
      /\ ~ PutsOut(a) => \/ InStage(st) = {}
                         \/ st.hold # << >> /\ Len(st.pending) # n
  BY <1>3, <1>4, TickedAnswer
<1>6. /\ s # "prefilter" => n = DepthOf(s)
      /\ s = "prefilter" => n = Len(st.pending)
  BY <1>1, <1>2, AnswerToTick
<1>7. QED
  BY <1>2, <1>5, <1>6

(* What a call that fails leaves in a stage is what was there, or what the *)
(* answer leaves, as a rule without what it has worked on.                 *)
LEMMA FailureLeaves ==
  ASSUME NEW s, NEW x \in LeftByFailure(s)
  PROVE  \/ x \in StageAfterFailure(stage[s], Answer(s))
         \/ x = [hold |-> Answer(s).hold, pending |-> Answer(s).pending] /\ PutsOut(Answer(s))
BY DEF LeftByFailure, PrefilterAfterFailure, StageAfterFailure, PutsOut

(* What a call that fails leaves in a stage. *)
LEMMA FailureTyped ==
  ASSUME StagesOK, parameters \in Settings, frame \in Frames \cup {Tick}, NEW s \in Filters,
         NEW x \in LeftByFailure(s)
  PROVE  x \in Holding(Frames) /\ Len(x.hold) <= Delay(s) /\ Len(x.pending) <= DepthOf(s)
<1>1. PICK d \in Nat, n \in Nat : d = Delay(s) /\ n = DepthOf(s)
  BY Parameters
<1>2. PICK st \in Holding(Frames) : st = stage[s]
  BY DEF StagesOK
<1>3. Len(st.hold) <= d /\ Len(st.pending) <= n /\ Frames \in SUBSET Int
  BY <1>1, <1>2, FramesFacts DEF StagesOK
<1>4. CASE x = [hold |-> Answer(s).hold, pending |-> Answer(s).pending]
  BY <1>4, AnswerTyped
<1>5. CASE x \in StageAfterFailure(st, Answer(s)) /\ frame = Tick
  <2>0. PICK m \in Nat : m = TickedDepth(s) /\ Len(st.pending) <= m /\ m <= n
    BY <1>1, <1>2, <1>5, AnswerToTick
  <2>1. x \in StageAfterFailure(st, StageTicked(st, m))
    <3>1. Answer(s) = StageTicked(st, m)
      BY <1>2, <1>5, <2>0, AnswerToTick
    <3>2. QED
      BY <1>5, <3>1
  <2>2. /\ x \in Holding(Frames) /\ Len(x.hold) <= Len(st.hold) /\ Len(x.pending) <= m
        /\ x.hold \in Seq(Frames) /\ x.pending \in Seq(Frames)
    BY <1>3, <2>0, <2>1, TickedFails
  <2>3. Len(x.hold) \in Nat /\ Len(st.hold) \in Nat /\ Len(x.pending) \in Nat
    BY <2>2, LenProperties DEF Holding
  <2>4. Len(x.hold) <= d /\ Len(x.pending) <= n
    BY <1>3, <2>0, <2>2, <2>3
  <2>5. QED
    BY <1>1, <2>2, <2>4
<1>6. CASE x \in StageAfterFailure(st, Answer(s)) /\ frame # Tick
  <2>1. PICK f \in Frames : f = frame
    BY <1>6
  <2>2. Answer(s) = StageFed(st, f, d, n)
    BY <1>1, <1>2, <1>6, <2>1 DEF Answer
  <2>3. x \in StageAfterFailure(st, StageFed(st, f, d, n))
    BY <1>6, <2>2
  <2>4. x \in Holding(Frames) /\ Len(x.hold) <= d /\ Len(x.pending) <= n
    BY <1>3, <2>3, FedFails
  <2>5. QED
    BY <1>1, <2>4
<1>7. QED
  BY <1>2, <1>4, <1>5, <1>6, FailureLeaves

(* It costs the chain two frames at most. *)
LEMMA FailureOrdered ==
  ASSUME StagesOK, parameters \in Settings, frame \in Frames \cup {Tick}, Conveyed, at \in Filters,
         NEW x \in LeftByFailure(at)
  PROVE  InOrder(x) /\ Leaves(InStage(stage[at]) \cup Under(frame), x)
<1>1. PICK s \in Filters : s = at
  OBVIOUS
<1>2. PICK d \in Nat, n \in Nat : d = Delay(s) /\ n = DepthOf(s)
  BY Parameters, PosFacts
<1>3. PICK st \in Holding(Frames) : st = stage[s]
  BY PosFacts DEF StagesOK
<1>4. Len(st.hold) <= d /\ Len(st.pending) <= n /\ Frames \in SUBSET Int
  BY <1>2, <1>3, FramesFacts, PosFacts DEF StagesOK
<1>5. InOrder(st) /\ (frame # Tick => Before(InStage(st), {frame}))
  <2>1. Pos[at] <= Pos[s]
    <3>1. Pos[s] \in Int
      BY PosFacts
    <3>2. QED
      BY <1>1, <3>1
  <2>2. QED
    BY <1>1, <1>3, <2>1 DEF Conveyed, Ordered
<1>6. CASE x = [hold |-> Answer(s).hold, pending |-> Answer(s).pending]
  <2>1. PICK a : a = Answer(s)
    OBVIOUS
  <2>2. InOrder(a) /\ Answers(InStage(st) \cup Under(frame), a)
    BY <1>1, <1>3, <2>1, AnswerOrdered
  <2>3. InOrder(x) /\ InStage(x) = InStage(a)
    BY <1>6, <2>1, <2>2 DEF InOrder, InStage
  <2>4. Leaves(InStage(st) \cup Under(frame), x)
    BY <2>2, <2>3 DEF Answers, Leaves
  <2>5. QED
    BY <1>1, <1>3, <2>3, <2>4
<1>7. CASE x \in StageAfterFailure(st, Answer(s)) /\ frame = Tick
  <2>0. PICK m \in Nat : m = TickedDepth(s) /\ Len(st.pending) <= m
    BY <1>1, <1>3, <1>7, AnswerToTick
  <2>1. x \in StageAfterFailure(st, StageTicked(st, m))
    <3>1. Answer(s) = StageTicked(st, m)
      BY <1>1, <1>3, <1>7, <2>0, AnswerToTick
    <3>2. QED
      BY <1>7, <3>1
  <2>2. InOrder(x) /\ Leaves(InStage(st), x)
    BY <1>4, <1>5, <2>0, <2>1, TickedFails
  <2>3. InStage(st) \cup Under(frame) = InStage(st)
    BY <1>7 DEF Under
  <2>4. QED
    BY <1>1, <1>3, <2>2, <2>3
<1>8. CASE x \in StageAfterFailure(st, Answer(s)) /\ frame # Tick
  <2>1. PICK f \in Frames : f = frame
    BY <1>8
  <2>2. Answer(s) = StageFed(st, f, d, n)
    BY <1>1, <1>2, <1>3, <1>8, <2>1 DEF Answer
  <2>3. x \in StageAfterFailure(st, StageFed(st, f, d, n))
    BY <1>8, <2>2
  <2>4. Before(InStage(st), {f})
    BY <1>5, <1>8, <2>1
  <2>5. InOrder(x) /\ Leaves(InStage(st) \cup {f}, x)
    BY <1>4, <1>5, <2>3, <2>4, FedFails
  <2>6. InStage(st) \cup Under(frame) = InStage(st) \cup {f}
    BY <1>8, <2>1 DEF Under
  <2>7. QED
    BY <1>1, <1>3, <2>5, <2>6
<1>9. QED
  BY <1>1, <1>3, <1>6, <1>7, <1>8, FailureLeaves

-----------------------------------------------------------------------------
(* From one step to the next                                               *)

(* The buffers stay as they are. *)
BuffersSame == ring' = ring /\ slot' = slot /\ outs' = outs /\ pendingOut' = pendingOut

(* The frame, or what comes out for it, goes on to the next stage.         *)
LEMMA ControlGoes ==
  ASSUME Control, Buffers, at \in DOMAIN After, NEW g \in Frames, Goes(After[at], g), inputs' = inputs, BuffersSame
  PROVE  Control' /\ Buffers'
<1>1. /\ at' = After[at] /\ frame' = g /\ second' = second /\ left' = left /\ drainAt' = drainAt
      /\ drained' = drained /\ drainAsked' = drainAsked /\ drainEnded' = drainEnded
  BY DEF Goes
<1>2. /\ at \in Places /\ at' \in Places /\ Pos[After[at]] = Pos[at] + 1 /\ at \notin Rest /\ at' \notin Rest
      /\ at # "return" /\ at' # "return" /\ at # "idle" /\ at' # "idle" /\ Pos[at] \in Int
  BY <1>1, PosFacts
<1>3. g # Tick
  BY FramesFacts
<1>4. drainAsked => Pos[drainAt] < Pos[After[at]]
  <2>1. ASSUME drainAsked, frame = Tick PROVE Pos[drainAt] = Pos[at]
    BY <1>2, <2>1 DEF Control
  <2>2. ASSUME drainAsked, frame # Tick PROVE Pos[drainAt] < Pos[at]
    BY <2>2 DEF Control
  <2>3. Pos[drainAt] \in Int
    BY PosFacts DEF Control
  <2>4. QED
    BY <1>2, <2>1, <2>2, <2>3
<1>5. Control'
  BY <1>1, <1>2, <1>3, <1>4 DEF Control
<1>6. Buffers'
  BY <1>1, <1>2 DEF Buffers, BuffersSame, Out
<1>7. QED
  BY <1>5, <1>6

(* Nothing is left of a frame or of a tick, but nothing has come out. *)
LEMMA ControlEnds ==
  ASSUME Control, Buffers, at \in DOMAIN After, CascadeEnds, inputs' = inputs, BuffersSame
  PROVE  Control' /\ Buffers'
<1>1. /\ frame' = second /\ second' = Tick /\ left' = left /\ drainAt' = drainAt
      /\ drained' = drained /\ drainAsked' = drainAsked /\ drainEnded' = drainEnded
      /\ pendingOut' = pendingOut
  BY DEF CascadeEnds, BuffersSame
<1>2. at \in Places /\ at \notin Rest /\ at # "return" /\ at # "idle"
  BY PosFacts
<1>3. pendingOut = << >>
  BY <1>2 DEF Buffers
<1>4. at' = (IF drainAsked THEN drainAt ELSE IF second # Tick THEN "prefilter" ELSE "return")
  BY <1>1, <1>3 DEF CascadeEnds
<1>5. "return" \in Rest /\ "return" \in Places /\ "return" # "idle" /\ "prefilter" \in Places /\ "prefilter" \notin Rest
      /\ "prefilter" # "return" /\ "prefilter" # "idle"
  BY PosFacts
<1>6. CASE drainAsked
  <2>1. /\ drainAt \in DOMAIN After /\ at' = drainAt /\ outs = << >> /\ second = Tick /\ frame' = Tick
        /\ ~ drained /\ ~ drainEnded /\ left = MaxReturn /\ drainAt \in Places
    BY <1>1, <1>2, <1>4, <1>6 DEF Control, Buffers, Places
  <2>2. at' \notin Rest /\ at' # "return" /\ at' # "idle"
    BY <2>1, PosFacts
  <2>3. Control'
    BY <1>1, <1>6, <2>1, <2>2 DEF Control
  <2>4. Len(outs) + Len(pendingOut) <= 1 /\ outs' = << >> /\ pendingOut' = << >>
    BY <1>3, <2>1 DEF BuffersSame
  <2>5. Buffers'
    BY <1>1, <1>6, <2>1, <2>2, <2>4 DEF Buffers, BuffersSame, Out
  <2>6. QED
    BY <2>3, <2>5
<1>7. CASE ~ drainAsked /\ second # Tick
  <2>1. at' = "prefilter" /\ frame' # Tick /\ ~ drainEnded /\ drainAt = "prefilter" /\ left = 2 /\ inputs > 0
    BY <1>1, <1>2, <1>4, <1>7 DEF Control
  <2>2. Control'
    BY <1>1, <1>5, <1>7, <2>1 DEF Control
  <2>3. Len(outs) + Len(pendingOut) <= 0
    BY <1>2, <1>7 DEF Buffers
  <2>4. Len(outs) \in Nat /\ Len(pendingOut) \in Nat
    BY LenProperties DEF Buffers
  <2>5. Len(outs) + Len(pendingOut) <= 1
    BY <2>3, <2>4
  <2>6. Buffers'
    BY <1>1, <1>2, <1>5, <1>7, <2>1, <2>5 DEF Buffers, BuffersSame, Out
  <2>7. QED
    BY <2>2, <2>6
<1>8. CASE ~ drainAsked /\ second = Tick
  <2>1. at' = "return" /\ frame' = Tick /\ ~ drainEnded /\ drainAt = "prefilter" /\ left = 2 /\ inputs > 0
    BY <1>1, <1>2, <1>4, <1>8 DEF Control
  <2>2. Control'
    BY <1>1, <1>5, <1>8, <2>1 DEF Control
  <2>3. Len(outs) + Len(pendingOut) <= 1
    BY <1>2, <1>8 DEF Buffers
  <2>4. Len(outs) \in Nat /\ Len(pendingOut) \in Nat
    BY LenProperties DEF Buffers
  <2>5. Len(outs) + Len(pendingOut) <= left
    BY <2>1, <2>3, <2>4
  <2>6. Buffers'
    BY <1>1, <1>2, <1>3, <1>5, <1>8, <2>1, <2>5 DEF Buffers, BuffersSame, Out
  <2>7. QED
    BY <2>2, <2>6
<1>9. QED
  BY <1>6, <1>7, <1>8

(* The drain goes on to the next stage. *)
LEMMA ControlDrained ==
  ASSUME Control, Buffers, at \in DOMAIN After, frame = Tick, StageDrained, inputs' = inputs, BuffersSame
  PROVE  Control' /\ Buffers' /\ drainAsked /\ drainAt = at
<1>1. at \in Places /\ at \notin Rest /\ at # "idle" /\ at # "return"
  BY PosFacts
<1>2. drainAsked /\ ~ drainEnded /\ drainAt = at /\ second = Tick /\ left = MaxReturn
  BY <1>1 DEF Control
<1>3. /\ drainAt' = After[at] /\ drained' = (drainAt' = "sink") /\ frame' = Tick
      /\ at' = (IF drained' THEN "return" ELSE drainAt')
      /\ second' = second /\ left' = left /\ drainAsked' = drainAsked /\ drainEnded' = drainEnded
  BY <1>2 DEF StageDrained
<1>4. /\ After[at] \in DOMAIN After \cup {"sink"} /\ After[at] \in Places /\ After[at] \notin Rest
      /\ "return" \in Rest /\ "return" \in Places /\ "return" # "idle"
  BY PosFacts
<1>5. outs = << >> /\ pendingOut = << >>
  BY <1>1, <1>2 DEF Buffers
<1>6. Control'
  <2>1. CASE After[at] = "sink"
    BY <1>2, <1>3, <1>4, <2>1 DEF Control
  <2>2. CASE After[at] # "sink"
    BY <1>2, <1>3, <1>4, <2>2 DEF Control
  <2>3. QED
    BY <2>1, <2>2
<1>7. Buffers'
  <2>1. /\ Len(outs) + Len(pendingOut) <= 1 /\ Len(outs) + Len(pendingOut) <= left
        /\ outs' = << >> /\ pendingOut' = << >>
    BY <1>2, <1>5, ChainAssumption DEF BuffersSame
  <2>2. QED
    BY <1>2, <1>3, <2>1 DEF Buffers, BuffersSame, Out
<1>8. QED
  BY <1>2, <1>6, <1>7

(* The call breaks off. *)
LEMMA ControlFails ==
  ASSUME Control, Buffers, at \in DOMAIN After \cup {"sink"}, CallFails, inputs' = inputs,
         ring' = ring, slot' \in Slots, pendingOut' = pendingOut
  PROVE  Control' /\ Buffers'
<1>1. /\ at' = (IF drainAsked THEN "idle" ELSE "return") /\ frame' = Tick /\ second' = Tick
      /\ outs' = << >> /\ left' = left /\ drainAt' = drainAt /\ drained' = drained
      /\ drainAsked' = drainAsked /\ drainEnded' = drainEnded
  BY DEF CallFails
<1>2. at \in Places /\ at \notin Rest /\ at # "idle" /\ at # "return"
  BY PosFacts
<1>3. /\ "return" \in Rest /\ "return" \in Places /\ "return" # "idle" /\ "idle" \in Rest /\ "idle" \in Places
  BY PosFacts
<1>4. Control'
  BY <1>1, <1>2, <1>3 DEF Control
<1>5. pendingOut = << >>
  BY <1>2 DEF Buffers
<1>6. Buffers'
  <2>1. /\ Len(outs') = 0 /\ Len(pendingOut') = 0 /\ Out(outs)' = {} /\ Out(pendingOut)' = {}
    BY <1>1, <1>5 DEF Out
  <2>2. 0 <= left
    BY ChainAssumption DEF Control, Most
  <2>3. outs' = << >> /\ outs' \in Seq(Slots) /\ pendingOut' = << >> /\ pendingOut' \in Seq(Slots)
    BY <1>1, <1>5
  <2>4. /\ Len(outs') + Len(pendingOut') <= 0 /\ Len(pendingOut') <= 1
        /\ Len(outs') + Len(pendingOut') <= 1 /\ Len(outs') + Len(pendingOut') <= left'
    BY <1>1, <2>1, <2>2
  <2>5. \A i, j \in 1 .. Len(outs') : i < j => ring'[outs'[i]] < ring'[outs'[j]]
    BY <2>1
  <2>6. QED
    BY <1>1, <2>1, <2>3, <2>4, <2>5 DEF Buffers
<1>7. QED
  BY <1>4, <1>6
(* Of the frames at p, or waiting there, some go on to the next stage: no  *)
(* other stage is passed by that.                                          *)
LEMMA PassedElsewhere ==
  ASSUME NEW st, NEW st2, NEW p \in Filters, OnlyOne(st, st2, p), NEW f, NEW g, NEW r,
         InStage(st2[p]) \cup Under(g) \subseteq InStage(st[p]) \cup Under(f),
         g # Tick => r = After[p], NEW q, NEW s \in Filters, s # p \/ g = Tick, Passed(st2, r, g, q, s)
  PROVE  Passed(st, p, f, q, s)
<1>1. Pos[After[p]] = Pos[p] + 1 /\ Pos[p] \in Int /\ Pos[s] \in Int /\ p \in Places /\ s \in Places
  BY PosFacts
<1>2. Pos[s] = Pos[p] => s = p
  BY <1>1, PosFacts
<1>3. CASE q
  BY <1>3 DEF Passed
<1>4. CASE g # Tick /\ Pos[s] < Pos[r]
  <2>1. Pos[s] < Pos[p]
    BY <1>1, <1>2, <1>4
  <2>2. g \in InStage(st[p]) \cup Under(f)
    BY <1>4 DEF Under
  <2>3. QED
    BY <2>1, <2>2 DEF Passed, Under
<1>5. CASE \E t \in Filters : Pos[s] < Pos[t] /\ InStage(st2[t]) # {}
  <2>1. PICK t \in Filters : Pos[s] < Pos[t] /\ InStage(st2[t]) # {}
    BY <1>5
  <2>2. CASE t # p
    BY <2>1, <2>2 DEF Passed, OnlyOne
  <2>3. CASE t = p
    <3>1. InStage(st[p]) # {} \/ Under(f) # {}
      BY <2>1, <2>3
    <3>2. Under(f) # {} => f # Tick
      BY DEF Under
    <3>3. QED
      BY <2>1, <2>3, <3>1, <3>2 DEF Passed
  <2>4. QED
    BY <2>2, <2>3
<1>6. QED
  BY <1>3, <1>4, <1>5 DEF Passed

(* A frame goes on from a stage that is not s. *)
LEMMA PassedMoved ==
  ASSUME NEW st, NEW p \in DOMAIN After, NEW f, NEW q, NEW s \in Filters, s # p,
         Passed(st, After[p], f, q, s)
  PROVE  Passed(st, p, f, q, s)
<1>1. Pos[After[p]] = Pos[p] + 1 /\ Pos[p] \in Int /\ Pos[s] \in Int /\ p \in Places /\ s \in Places
  BY PosFacts
<1>2. Pos[s] < Pos[After[p]] => Pos[s] < Pos[p]
  <2>1. Pos[s] # Pos[p]
    BY <1>1, PosFacts
  <2>2. QED
    BY <1>1, <2>1
<1>3. QED
  BY <1>2 DEF Passed

(* With no frame under way the place does not count. *)
LEMMA PassedTick ==
  ASSUME NEW st, NEW p, NEW r, NEW q, NEW s
  PROVE  Passed(st, p, Tick, q, s) <=> Passed(st, r, Tick, q, s)
BY DEF Passed

(* A stage that is left alone remains as full as it was. *)
LEMMA PrimedKept ==
  ASSUME NEW s \in Filters, Primed(s), stage'[s] = stage[s], parameters' = parameters, drainAsked' = drainAsked,
         drainAt' = drainAt
  PROVE  Primed(s)'
<1>1. Delay(s)' = Delay(s) /\ DepthOf(s)' = DepthOf(s)
  BY ParametersKept
<1>2. QED
  BY <1>1 DEF Primed

(* The drain goes on from another stage. *)
LEMMA PrimedDrained ==
  ASSUME NEW s \in Filters, Primed(s), stage'[s] = stage[s], parameters' = parameters, drainAsked, drainAsked',
         NEW p \in DOMAIN After, p # s, drainAt = p, drainAt' = After[p]
  PROVE  Primed(s)'
<1>1. Delay(s)' = Delay(s) /\ DepthOf(s)' = DepthOf(s)
  BY ParametersKept
<1>2. Pos[After[p]] = Pos[p] + 1 /\ Pos[p] \in Int /\ Pos[s] \in Int /\ p \in Places /\ s \in Places
  BY PosFacts
<1>3. Pos[s] # Pos[p]
  BY <1>2, PosFacts
<1>4. /\ Pos[s] < Pos[drainAt'] => Pos[s] < Pos[drainAt]
      /\ Pos[drainAt'] < Pos[s] => Pos[drainAt] < Pos[s]
  BY <1>2, <1>3
<1>5. QED
  BY <1>1, <1>4 DEF Primed

(* The newest frame of a push is in front of all others until the          *)
(* prefilter has it.                                                       *)
LEMMA NewestFirst ==
  ASSUME Control, Conveyed, Pushed, ~ drainAsked, at = "prefilter", second = Tick, inputs \in Nat, StagesOK
  PROVE  frame = 2 * inputs - 1
<1>1. at \in Places /\ at \notin Rest /\ at # "return" /\ at # "idle" /\ Pos[at] = 1
  BY PosFacts
<1>2. frame # Tick /\ left = 2 /\ frame \in Frames /\ frame \in Int /\ inputs > 0
  BY <1>1, FramesFacts DEF Control
<1>3. frame \in Inside
  BY <1>2 DEF Inside, ChainOf, Under
<1>4. frame <= 2 * inputs - 1
  BY <1>3 DEF Conveyed
<1>5. 2 * inputs - 1 \in Inside \cup Leaving
  <2>1. 2 * inputs - left .. 2 * inputs - 1 \subseteq Inside \cup Leaving
    BY <1>1 DEF Pushed
  <2>2. QED
    BY <1>2, <2>1
<1>6. 2 * inputs - 1 \notin Leaving
  <2>1. Before(Leaving, Inside)
    BY DEF Conveyed
  <2>2. QED
    BY <1>2, <1>3, <1>4, <2>1 DEF Before
<1>7. ASSUME NEW s \in Filters PROVE 2 * inputs - 1 \notin InStage(stage[s])
  <2>1. Pos[s] >= 1 /\ Pos[s] \in Int
    BY PosFacts
  <2>2. Pos[at] <= Pos[s]
    BY <1>1, <2>1
  <2>3. Before(InStage(stage[s]), {frame})
    BY <1>2, <2>2 DEF Conveyed, Ordered
  <2>4. QED
    BY <1>2, <1>4, <2>3 DEF Before
<1>8. 2 * inputs - 1 \in ChainOf(stage, frame)
  BY <1>5, <1>6 DEF Inside, Under
<1>9. 2 * inputs - 1 \in Under(frame)
  BY <1>7, <1>8, ChainMember
<1>10. QED
  BY <1>9 DEF Under

(* A step that leaves the frames in the chain leaves them in order, and a  *)
(* push keeps its frames.                                                  *)
LEMMA FramesMove ==
  ASSUME StagesOK, Control, Conveyed, Pushed, at \in DOMAIN After, inputs' = inputs, inputs \in Nat,
         failures' = failures, BuffersSame, pendingOut = << >> \/ ~ drainAsked,
         NEW st, st = stage', NEW g, g = Tick \/ g \in Frames,
         \A r : Ordered(st, r, Tick), g # Tick => Ordered(st, After[at], g),
         ChainOf(st, g) = ChainOf(stage, frame),
         \/ g # Tick /\ Goes(After[at], g)
         \/ g = Tick /\ frame # Tick /\ CascadeEnds
         \/ g = Tick /\ frame = Tick /\ StageDrained,
         at # "prefilter" => st["prefilter"] = stage["prefilter"],
         at = "prefilter" /\ g # Tick /\ frame # Tick => frame \in InStage(st["prefilter"])
  PROVE  Conveyed' /\ Pushed' /\ Inside' = Inside /\ Leaving' = Leaving
<1>1. at \in Places /\ at \notin Rest /\ at # "return" /\ at # "idle" /\ "return" \in Rest
  BY PosFacts
<1>2. Leaving' = Leaving
  BY DEF Leaving, Out, BuffersSame
<1>3. /\ inputs' = inputs /\ drainAsked' = drainAsked /\ left' = left
      /\ outs' = outs /\ failures' = failures
  BY DEF Goes, CascadeEnds, StageDrained, BuffersSame
<1>4. Before(ChainOf(stage, frame), Under(second))
  BY DEF Conveyed
<1>5. /\ Ordered(st, at', frame') /\ Before(ChainOf(st, frame'), Under(second'))
      /\ ChainOf(st, frame') \cup Under(second') = Inside
  <2>1. CASE g # Tick /\ Goes(After[at], g)
    <3>1. at' = After[at] /\ frame' = g /\ second' = second
      BY <2>1 DEF Goes
    <3>2. QED
      BY <1>4, <2>1, <3>1 DEF Inside
  <2>2. CASE g = Tick /\ frame # Tick /\ CascadeEnds
    <3>1. frame' = second /\ second' = Tick /\ Under(second') = {}
      BY <2>2 DEF CascadeEnds, Under
    <3>2. CASE second = Tick
      <4>1. Ordered(st, at', frame') /\ ChainOf(st, frame') = ChainOf(st, g) /\ Under(second) = {}
        BY <2>2, <3>1, <3>2 DEF Under
      <4>2. QED
        BY <3>1, <4>1 DEF Inside, Before
    <3>3. CASE second # Tick
      <4>1. at' = "prefilter" /\ Under(second) = {second}
        BY <1>1, <2>2, <3>3 DEF CascadeEnds, Control, Under
      <4>2. Before(ChainOf(st, Tick), {second})
        BY <1>4, <2>2, <4>1
      <4>3. Ordered(st, "prefilter", second)
        BY <4>2, OrderEnters
      <4>4. \A e : e \in ChainOf(st, second) <=> e \in ChainOf(st, Tick) \/ e = second
        BY <4>1, ChainMember DEF Under
      <4>5. ChainOf(st, second) = ChainOf(st, Tick) \cup {second}
        BY <4>4
      <4>6. QED
        BY <2>2, <3>1, <4>1, <4>3, <4>5 DEF Inside, Before
    <3>4. QED
      BY <3>2, <3>3
  <2>3. CASE g = Tick /\ frame = Tick /\ StageDrained
    <3>1. frame' = Tick /\ second' = second
      BY <2>3 DEF StageDrained
    <3>2. QED
      BY <1>4, <2>3, <3>1 DEF Inside
  <2>4. QED
    BY <2>1, <2>2, <2>3
<1>6. Inside' = Inside
  BY <1>5 DEF Inside
<1>7. Conveyed'
  BY <1>2, <1>3, <1>5, <1>6 DEF Conveyed
<1>8. ASSUME ~ drainAsked, at' \notin Rest \cup {"prefilter"}
      PROVE  2 * inputs - 1 \in Under(second') \cup InStage(st["prefilter"])
  <2>1. g # Tick /\ Goes(After[at], g)
    <3>1. CASE CascadeEnds
      BY <1>8, <1>1, <3>1 DEF CascadeEnds
    <3>2. CASE frame = Tick
      BY <1>1, <1>8, <3>2 DEF Control
    <3>3. QED
      BY <3>1, <3>2
  <2>2. second' = second /\ frame # Tick
    BY <1>1, <1>8, <2>1 DEF Goes, Control
  <2>3. CASE at # "prefilter"
    BY <1>1, <1>8, <2>2, <2>3 DEF Pushed
  <2>4. CASE at = "prefilter" /\ second = Tick
    <3>1. frame = 2 * inputs - 1
      BY <1>8, <2>4, NewestFirst
    <3>2. QED
      BY <2>1, <2>2, <2>4, <3>1
  <2>5. CASE at = "prefilter" /\ second # Tick
    <3>1. 2 * inputs - 1 \in Inside \cup Leaving
      <4>1. left = 2
        BY <1>1, <1>8 DEF Control
      <4>2. 2 * inputs - left .. 2 * inputs - 1 \subseteq Inside \cup Leaving
        BY <1>1, <1>8 DEF Pushed
      <4>3. QED
        BY <4>1, <4>2
    <3>2. second \in Inside /\ Before(ChainOf(stage, frame), {second}) /\ second <= 2 * inputs - 1 /\ second \in Int
      BY <1>4, <2>5, FramesFacts DEF Inside, Under, Conveyed, Control
    <3>3. 2 * inputs - 1 \notin Leaving
      <4>1. Before(Leaving, Inside)
        BY DEF Conveyed
      <4>2. QED
        BY <3>2, <4>1 DEF Before
    <3>4. 2 * inputs - 1 \notin ChainOf(stage, frame)
      BY <3>2 DEF Before
    <3>5. QED
      BY <2>2, <3>1, <3>3, <3>4 DEF Inside
  <2>6. QED
    BY <2>3, <2>4, <2>5
<1>9. Pushed'
  <2>1. SUFFICES ASSUME ~ drainAsked, at' # "idle"
                 PROVE  /\ at' # "return" \/ outs # << >> \/ failures = 0 =>
                             2 * inputs - left .. 2 * inputs - 1 \subseteq Inside \cup Leaving
                        /\ outs # << >> => 2 * inputs - 1 \in Inside
                        /\ at' \notin Rest \cup {"prefilter"} =>
                             2 * inputs - 1 \in Under(second') \cup InStage(st["prefilter"])
    BY <1>2, <1>3, <1>6 DEF Pushed
  <2>2. QED
    BY <1>1, <1>8, <2>1 DEF Pushed
<1>10. QED
  BY <1>2, <1>6, <1>7, <1>9

-----------------------------------------------------------------------------
(* The stages that hold frames back                                        *)

(* The caches stay as they are. *)
LEMMA CachesSame ==
  ASSUME CachesOK, parameters' = parameters, sources' = sources, helper' = helper, stored' = stored,
         missed' = missed
  PROVE  CachesOK'
<1>1. HelperDelay' = HelperDelay
  BY ParametersKept
<1>2. QED
  BY <1>1 DEF CachesOK

(* The prefilter keeps the frame it is given. *)
LEMMA PrefilterKeeps ==
  ASSUME StagesOK, parameters \in Settings, Conveyed, at = "prefilter", frame \in Frames,
         NEW a, a = Answer(at), PutsOut(a)
  PROVE  frame \in InStage(a)
<1>1. at \in Filters /\ frame # Tick /\ Pos[at] \in Int /\ DepthOf(at) = 1 /\ frame \in Int
  BY PosFacts, FramesFacts, Parameters
<1>2. Len(a.pending) = 1
  BY <1>1, AnswerFed DEF Full
<1>3. a.pending[1] \in InStage(a)
  BY <1>2 DEF InStage
<1>4. PICK x : InStage(a) = (InStage(stage[at]) \cup {frame}) \ {x} /\ Before({x}, InStage(a))
  <2>1. Answers(InStage(stage[at]) \cup Under(frame), a)
    BY <1>1, AnswerOrdered
  <2>2. QED
    BY <1>1, <2>1 DEF Answers, PutsOut, Under
<1>5. Before(InStage(stage[at]), {frame})
  <2>1. Pos[at] <= Pos[at]
    BY <1>1
  <2>2. QED
    BY <1>1, <2>1 DEF Conveyed, Ordered
<1>6. InStage(stage[at]) \subseteq Int
  BY <1>1, StageCount, FramesFacts
<1>7. x # frame
  <2>1. ASSUME x = frame PROVE FALSE
    <3>1. PICK e : e = a.pending[1] /\ e \in InStage(stage[at]) /\ e \in InStage(a)
      BY <1>3, <1>4, <2>1
    <3>2. e < frame /\ frame < e /\ e \in Int
      BY <1>4, <1>5, <1>6, <2>1, <3>1 DEF Before
    <3>3. QED
      BY <1>1, <3>2
  <2>2. QED
    BY <2>1
<1>8. QED
  BY <1>4, <1>7

(* The stage at the frame gets it, or a tick: nothing is lost of what is   *)
(* in the chain, and the order is kept.                                    *)
LEMMA TemporalStep ==
  ASSUME StagesOK, Counted, Control, Buffers, Conveyed, Pushed, RunTemporal
  PROVE  /\ StagesOK' /\ Control' /\ Buffers' /\ Conveyed' /\ Pushed'
         /\ Inside' = Inside /\ Leaving' = Leaving
<1>1. /\ at \in Filters /\ Enabled(at) /\ at \in DOMAIN After /\ at \notin Rest /\ at # "return"
      /\ parameters' = parameters /\ inputs' = inputs /\ failures' = failures /\ BuffersSame
      /\ parameters \in Settings /\ inputs \in Nat
  BY PosFacts, Parameters DEF RunTemporal, Counted, outputs, BuffersSame
<1>2. PICK a : a = Answer(at)
  OBVIOUS
<1>3. PICK x \in Holding(Frames) :
        /\ x = [hold |-> a.hold, pending |-> a.pending]
        /\ Len(x.hold) <= Delay(at) /\ Len(x.pending) <= DepthOf(at)
  BY <1>1, <1>2, AnswerTyped DEF Control
<1>4. /\ stage' = [stage EXCEPT ![at] = x]
      /\ \/ \E f \in a.out : Goes(After[at], f)
         \/ a.out = {} /\ frame # Tick /\ CascadeEnds
         \/ a.out = {} /\ frame = Tick /\ StageDrained
  BY <1>2, <1>3 DEF RunTemporal, Left
<1>5. StagesOK' /\ stage'[at] = x /\ OnlyOne(stage, stage', at)
  BY <1>1, <1>3, <1>4, StagesKept
<1>6. InOrder(a) /\ Answers(InStage(stage[at]) \cup Under(frame), a) /\ a.out \in SUBSET Frames
  BY <1>1, <1>2, AnswerOrdered, AnswerTyped DEF Control
<1>7. /\ ~ PutsOut(a) => /\ \A r : Ordered(stage', r, Tick)
                         /\ ChainOf(stage', Tick) = ChainOf(stage, frame)
      /\ \A g \in a.out : Ordered(stage', After[at], g) /\ ChainOf(stage', g) = ChainOf(stage, frame)
  <2>1. Tick \notin InStage(stage[at])
    BY <1>1, StageCount, FramesFacts
  <2>2. Ordered(stage, at, frame)
    BY DEF Conveyed
  <2>3. PICK st, st2, s, f : st = stage /\ st2 = stage' /\ s = at /\ f = frame
    OBVIOUS
  <2>4. /\ s \in Filters /\ Ordered(st, s, f) /\ InOrder(a) /\ Answers(InStage(st[s]) \cup Under(f), a)
        /\ st2[s] = x /\ OnlyOne(st, st2, s) /\ Tick \notin InStage(st[s])
    BY <1>1, <1>5, <1>6, <2>1, <2>2, <2>3
  <2>5. x = [hold |-> a.hold, pending |-> a.pending]
    BY <1>3
  <2>6. /\ ~ PutsOut(a) => /\ \A r : Ordered(st2, r, Tick)
                           /\ ChainOf(st2, Tick) = ChainOf(st, f)
        /\ \A g \in a.out : Ordered(st2, After[s], g) /\ ChainOf(st2, g) = ChainOf(st, f)
    BY <2>4, <2>5, OrderAnswered
  <2>7. QED
    BY <2>3, <2>6
<1>8. PICK g : /\ g = Tick \/ g \in Frames
               /\ \A r : Ordered(stage', r, Tick)
               /\ g # Tick => Ordered(stage', After[at], g)
               /\ ChainOf(stage', g) = ChainOf(stage, frame)
               /\ \/ g # Tick /\ Goes(After[at], g) /\ PutsOut(a)
                  \/ g = Tick /\ frame # Tick /\ CascadeEnds
                  \/ g = Tick /\ frame = Tick /\ StageDrained
  <2>1. CASE a.out = {}
    BY <1>4, <1>7, <2>1 DEF PutsOut
  <2>2. CASE a.out # {}
    <3>1. PICK g \in a.out : Goes(After[at], g)
      BY <1>4, <2>2
    <3>2. g \in Frames /\ g # Tick /\ Ordered(stage', After[at], g) /\ ChainOf(stage', g) = ChainOf(stage, frame)
      BY <1>6, <1>7, <3>1, FramesFacts
    <3>3. \A r : Ordered(stage', r, Tick)
      BY <3>2, OrderDropped
    <3>4. QED
      BY <2>2, <3>1, <3>2, <3>3 DEF PutsOut
  <2>3. QED
    BY <2>1, <2>2
<1>9. Control' /\ Buffers'
  BY <1>1, <1>8, ControlGoes, ControlEnds, ControlDrained
<1>10. at # "prefilter" => stage'["prefilter"] = stage["prefilter"]
  BY <1>5, PosFacts DEF OnlyOne
<1>11. at = "prefilter" /\ g # Tick /\ frame # Tick => frame \in InStage(stage'["prefilter"])
  <2>1. ASSUME at = "prefilter", g # Tick, frame # Tick PROVE frame \in InStage(x)
    <3>1. frame \in InStage(a)
      BY <1>1, <1>2, <1>8, <2>1, PrefilterKeeps DEF Control
    <3>2. InStage(x) = InStage(a)
      BY <1>3 DEF InStage
    <3>3. QED
      BY <3>1, <3>2
  <2>2. QED
    BY <1>5, <2>1
<1>12. pendingOut = << >>
  BY <1>1 DEF Buffers
<1>13. Conveyed' /\ Pushed' /\ Inside' = Inside /\ Leaving' = Leaving
  <2>1. PICK st : st = stage'
    OBVIOUS
  <2>2. /\ \A r : Ordered(st, r, Tick)
        /\ g # Tick => Ordered(st, After[at], g)
        /\ ChainOf(st, g) = ChainOf(stage, frame)
        /\ at # "prefilter" => st["prefilter"] = stage["prefilter"]
        /\ at = "prefilter" /\ g # Tick /\ frame # Tick => frame \in InStage(st["prefilter"])
    BY <1>8, <1>10, <1>11, <2>1
  <2>3. \/ g # Tick /\ Goes(After[at], g)
        \/ g = Tick /\ frame # Tick /\ CascadeEnds
        \/ g = Tick /\ frame = Tick /\ StageDrained
    BY <1>8
  <2>4. (g = Tick \/ g \in Frames) /\ (pendingOut = << >> \/ ~ drainAsked)
    BY <1>8, <1>12
  <2>5. QED
    BY <1>1, <2>1, <2>2, <2>3, <2>4, FramesMove
<1>14. QED
  BY <1>5, <1>9, <1>13

(* The frame that enters the chain has passed no stage. *)
LEMMA PassedEnters ==
  ASSUME NEW st, NEW f, NEW q, NEW s \in Filters, Passed(st, "prefilter", f, q, s), NEW r
  PROVE  Passed(st, r, Tick, q, s)
<1>1. ~ Pos[s] < Pos["prefilter"]
  <2>1. Pos[s] >= 1 /\ Pos["prefilter"] = 1 /\ Pos[s] \in Int
    BY PosFacts
  <2>2. QED
    BY <2>1
<1>2. QED
  BY <1>1 DEF Passed

(* Where a frame goes, or the next one if none does. *)
LEMMA PassedNext ==
  ASSUME Control, at \in DOMAIN After, pendingOut' = << >> \/ ~ drainAsked, NEW g,
         \/ g # Tick /\ Goes(After[at], g)
         \/ g = Tick /\ frame # Tick /\ CascadeEnds
         \/ g = Tick /\ frame = Tick /\ StageDrained,
         NEW st, NEW q, NEW s \in Filters, Passed(st, at', frame', q, s)
  PROVE  Passed(st, After[at], g, q, s)
<1>1. CASE g # Tick /\ Goes(After[at], g)
  BY <1>1 DEF Goes
<1>2. CASE g = Tick /\ frame = Tick /\ StageDrained
  <2>1. Passed(st, at', Tick, q, s)
    BY <1>2 DEF StageDrained
  <2>2. QED
    BY <1>2, <2>1, PassedTick
<1>3. CASE g = Tick /\ frame # Tick /\ CascadeEnds
  <2>1. CASE second = Tick
    <3>1. Passed(st, at', Tick, q, s)
      BY <1>3, <2>1 DEF CascadeEnds
    <3>2. QED
      BY <1>3, <3>1, PassedTick
  <2>2. CASE second # Tick
    <3>1. at' = "prefilter"
      BY <1>3, <2>2 DEF CascadeEnds, Control
    <3>2. PICK f : Passed(st, "prefilter", f, q, s)
      BY <3>1
    <3>3. QED
      BY <1>3, <3>2, PassedEnters
  <2>3. QED
    BY <2>1, <2>2
<1>4. QED
  BY <1>1, <1>2, <1>3

(* The step of a stage that holds frames back keeps the stages full.       *)
LEMMA TemporalFlow ==
  ASSUME StagesOK, Counted, Control, Buffers, Conveyed, Flowing, RunTemporal
  PROVE  Flowing'
<1>1. /\ at \in Filters /\ Enabled(at) /\ at \in DOMAIN After /\ at \notin Rest /\ at # "return"
      /\ parameters' = parameters /\ inputs' = inputs /\ failures' = failures /\ put' = put
      /\ outs' = outs /\ pendingOut' = pendingOut /\ parameters \in Settings
  BY PosFacts DEF RunTemporal, Counted, outputs
<1>2. PICK a : a = Answer(at)
  OBVIOUS
<1>3. PICK x \in Holding(Frames) :
        /\ x = [hold |-> a.hold, pending |-> a.pending]
        /\ Len(x.hold) <= Delay(at) /\ Len(x.pending) <= DepthOf(at)
  BY <1>1, <1>2, AnswerTyped DEF Control
<1>4. /\ stage' = [stage EXCEPT ![at] = x]
      /\ \/ \E f \in a.out : Goes(After[at], f)
         \/ a.out = {} /\ frame # Tick /\ CascadeEnds
         \/ a.out = {} /\ frame = Tick /\ StageDrained
  BY <1>2, <1>3 DEF RunTemporal, Left
<1>5. stage'[at] = x /\ OnlyOne(stage, stage', at)
  BY <1>1, <1>3, <1>4, StagesKept
<1>6. Answers(InStage(stage[at]) \cup Under(frame), a) /\ a.out \in SUBSET Frames
  BY <1>1, <1>2, AnswerOrdered, AnswerTyped DEF Control
<1>7. InStage(x) = InStage(a)
  BY <1>3 DEF InStage
<1>8. PICK g : /\ InStage(stage'[at]) \cup Under(g) \subseteq InStage(stage[at]) \cup Under(frame)
               /\ g # Tick => PutsOut(a)
               /\ g = Tick => ~ PutsOut(a)
               /\ \/ g # Tick /\ Goes(After[at], g)
                  \/ g = Tick /\ frame # Tick /\ CascadeEnds
                  \/ g = Tick /\ frame = Tick /\ StageDrained
  <2>1. CASE \E f \in a.out : Goes(After[at], f)
    <3>1. PICK g \in a.out : Goes(After[at], g)
      BY <2>1
    <3>2. g # Tick /\ PutsOut(a)
      BY <1>6, <3>1, FramesFacts DEF PutsOut
    <3>3. Under(g) = {g}
      BY <3>2 DEF Under
    <3>4. QED
      BY <1>5, <1>6, <1>7, <3>1, <3>2, <3>3 DEF Answers
  <2>2. CASE a.out = {}
    <3>1. ~ PutsOut(a) /\ Under(Tick) = {}
      BY <2>2 DEF PutsOut, Under
    <3>2. QED
      BY <1>4, <1>5, <1>6, <1>7, <2>2, <3>1 DEF Answers
  <2>3. QED
    BY <1>4, <2>1, <2>2
<1>9. SUFFICES ASSUME failures = 0, NEW s \in Filters, Enabled(s)', Passed(stage, at, frame, Some, s)'
               PROVE  Primed(s)'
  BY <1>1 DEF Flowing
<1>10. Enabled(s) /\ Some' = Some
  BY <1>1, <1>9, ParametersKept DEF Some
<1>11. ASSUME s # at \/ g = Tick PROVE Passed(stage, at, frame, Some, s) /\ Primed(s)
  <2>1. PICK st2, p, q, f : st2 = stage' /\ p = at /\ q = Some /\ f = frame
    OBVIOUS
  <2>2. Passed(st2, After[p], g, q, s)
    <3>1. Passed(st2, at', frame', q, s)
      BY <1>9, <1>10, <2>1
    <3>2. pendingOut' = << >>
      BY <1>1 DEF Buffers
    <3>3. QED
      BY <1>1, <1>8, <2>1, <3>1, <3>2, PassedNext
  <2>3. /\ p \in Filters /\ (s # p \/ g = Tick)
        /\ InStage(st2[p]) \cup Under(g) \subseteq InStage(stage[p]) \cup Under(f)
    BY <1>1, <1>5, <1>8, <1>11, <2>1
  <2>4. OnlyOne(stage, st2, p)
    BY <1>5, <2>1
  <2>5. Passed(stage, p, f, q, s)
    BY <2>2, <2>3, <2>4, PassedElsewhere
  <2>6. QED
    BY <1>9, <1>10, <2>1, <2>5 DEF Flowing
<1>12. CASE frame # Tick
  <2>1. drainAsked' = drainAsked /\ drainAt' = drainAt
    BY <1>8, <1>12 DEF Goes, CascadeEnds
  <2>2. CASE s # at
    <3>1. stage'[s] = stage[s]
      BY <1>5, <2>2 DEF OnlyOne
    <3>2. QED
      BY <1>1, <1>11, <2>1, <2>2, <3>1, PrimedKept
  <2>3. CASE s = at
    <3>1. drainAsked => Pos[drainAt] < Pos[s]
      BY <1>12, <2>3 DEF Control
    <3>2. Pos[s] \in Int /\ Pos[drainAt] \in Int
      BY PosFacts DEF Control
    <3>3. frame \in Frames
      BY <1>12 DEF Control
    <3>4. /\ PutsOut(a) => Full(a, Delay(s), DepthOf(s))
          /\ Full(stage[s], Delay(s), DepthOf(s)) => PutsOut(a)
      BY <1>1, <1>2, <2>3, <3>3, AnswerFed
    <3>5. PutsOut(a)
      <4>1. CASE g = Tick
        <5>1. Full(stage[s], Delay(s), DepthOf(s))
          <6>1. ~ drainAsked \/ Pos[drainAt] < Pos[s]
            BY <3>1 DEF Control
          <6>2. QED
            BY <1>11, <4>1, <6>1 DEF Primed
        <5>2. QED
          BY <3>4, <5>1
      <4>2. QED
        BY <1>8, <4>1
    <3>6. Full(stage'[s], Delay(s)', DepthOf(s)')
      <4>1. Full(x, Delay(s), DepthOf(s))
        BY <1>3, <3>4, <3>5 DEF Full
      <4>2. QED
        BY <1>1, <1>5, <2>3, <4>1, ParametersKept
    <3>7. drainAsked' => ~ Pos[s] < Pos[drainAt']
      BY <2>1, <3>1, <3>2
    <3>8. QED
      BY <3>6, <3>7 DEF Primed, Full
  <2>4. QED
    BY <2>2, <2>3
<1>13. CASE frame = Tick
  <2>1. drainAsked /\ drainAt = at
    BY <1>1, <1>13 DEF Control
  <2>2. /\ PutsOut(a) /\ a.hold # << >> /\ at # "prefilter" => Len(a.pending) = DepthOf(at)
        /\ ~ PutsOut(a) => \/ InStage(stage[at]) = {}
                           \/ /\ at # "prefilter" /\ stage[at].hold # << >>
                              /\ Len(stage[at].pending) # DepthOf(at)
    BY <1>1, <1>2, <1>13, AnswerTicked
  <2>3. CASE PutsOut(a)
    <3>1. drainAsked' = drainAsked /\ drainAt' = drainAt
      BY <1>8, <2>3 DEF Goes
    <3>2. CASE s # at
      <4>1. stage'[s] = stage[s]
        BY <1>5, <3>2 DEF OnlyOne
      <4>2. QED
        BY <1>1, <1>11, <3>1, <3>2, <4>1, PrimedKept
    <3>3. CASE s = at
      <4>1. stage'[s].hold # << >> /\ s # "prefilter" => Len(stage'[s].pending) = DepthOf(s)'
        <5>1. DepthOf(s)' = DepthOf(s)
          BY <1>1, ParametersKept
        <5>2. QED
          BY <1>3, <1>5, <2>2, <2>3, <3>3, <5>1
      <4>2. ~ Pos[s] < Pos[drainAt'] /\ ~ Pos[drainAt'] < Pos[s] /\ drainAsked'
        <5>1. Pos[s] \in Int
          BY PosFacts
        <5>2. QED
          BY <2>1, <3>1, <3>3, <5>1
      <4>3. QED
        BY <4>1, <4>2 DEF Primed
    <3>4. QED
      BY <3>2, <3>3
  <2>4. CASE ~ PutsOut(a)
    <3>1. g = Tick /\ drainAt' = After[at] /\ drainAsked'
      BY <1>8, <1>13, <2>1, <2>4 DEF StageDrained
    <3>2. CASE s # at
      <4>1. stage'[s] = stage[s]
        BY <1>5, <3>2 DEF OnlyOne
      <4>2. QED
        BY <1>1, <1>11, <2>1, <3>1, <3>2, <4>1, PrimedDrained
    <3>3. CASE s = at
      <4>1. Primed(s)
        BY <1>11, <3>1
      <4>2. InStage(stage[at]) = {}
        BY <2>2, <2>4, <3>3, <4>1 DEF Primed
      <4>3. InStage(stage'[s]) = {}
        BY <1>5, <1>6, <1>7, <1>13, <2>4, <3>3, <4>2 DEF Answers, PutsOut, Under
      <4>4. stage'[s].hold = << >>
        <5>1. x.hold \in Seq(Frames) /\ x = stage'[s]
          BY <1>5, <3>3 DEF Holding
        <5>2. ASSUME x.hold # << >> PROVE FALSE
          <6>1. Len(x.hold) \in Nat /\ Len(x.hold) # 0
            BY <5>1, <5>2, LenProperties
          <6>2. 1 \in 1 .. Len(x.hold)
            BY <6>1
          <6>3. x.hold[1] \in InStage(x)
            BY <6>2 DEF InStage
          <6>4. QED
            BY <4>3, <5>1, <6>3
        <5>3. QED
          BY <5>1, <5>2
      <4>5. ~ Pos[drainAt'] < Pos[s]
        <5>1. Pos[After[s]] = Pos[s] + 1 /\ Pos[s] \in Int
          BY PosFacts
        <5>2. QED
          BY <3>1, <3>3, <5>1
      <4>6. QED
        BY <3>1, <4>3, <4>4, <4>5 DEF Primed
    <3>4. QED
      BY <3>2, <3>3
  <2>5. QED
    BY <2>3, <2>4
<1>14. QED
  BY <1>12, <1>13

-----------------------------------------------------------------------------
(* The places that hold nothing back                                       *)

(* The parameters, the counts and the answers stay as they are. *)
LEMMA CountedSame ==
  ASSUME Counted, parameters' = parameters, inputs' = inputs, put' = put, failures' = failures
  PROVE  Counted'
BY DEF Counted

(* A step at a place that has no frame but the one under way: it goes on,  *)
(* or the drain does.                                                      *)
LEMMA QuietStep ==
  ASSUME StagesOK, Counted, Control, Buffers, Conveyed, Pushed, Flowing,
         at \in DOMAIN After, at \notin Filters \/ ~ Enabled(at),
         parameters' = parameters, inputs' = inputs, failures' = failures, put' = put, stage' = stage,
         BuffersSame,
         \/ frame # Tick /\ Goes(After[at], frame)
         \/ frame = Tick /\ StageDrained
  PROVE  /\ StagesOK' /\ Control' /\ Buffers' /\ Conveyed' /\ Pushed' /\ Flowing'
         /\ Inside' = Inside /\ Leaving' = Leaving
<1>1. at \in Places /\ at \notin Rest /\ at # "return" /\ inputs \in Nat
  BY PosFacts, Parameters DEF Counted
<1>2. StagesOK'
  BY StagesSame
<1>3. Control' /\ Buffers'
  BY ControlGoes, ControlDrained DEF Control
<1>4. at # "prefilter"
  BY PosFacts, Parameters DEF Counted
<1>5. at \in Filters => InStage(stage[at]) = {}
  <2>1. ASSUME at \in Filters PROVE InStage(stage[at]) = {}
    BY <2>1, StageCount DEF Counted
  <2>2. QED
    BY <2>1
<1>6. Ordered(stage, After[at], frame) /\ \A r : Ordered(stage, r, Tick)
  <2>1. Ordered(stage, at, frame)
    BY DEF Conveyed
  <2>2. QED
    BY <1>5, <2>1, OrderMoved, OrderDropped
<1>7. /\ pendingOut = << >> /\ pendingOut' = << >>
      /\ (frame = Tick \/ frame \in Frames)
  BY <1>1 DEF Buffers, BuffersSame, Control
<1>8. Conveyed' /\ Pushed' /\ Inside' = Inside /\ Leaving' = Leaving
  <2>1. PICK st, g : st = stage' /\ g = frame
    OBVIOUS
  <2>2. /\ \A r : Ordered(st, r, Tick)
        /\ g # Tick => Ordered(st, After[at], g)
        /\ ChainOf(st, g) = ChainOf(stage, frame)
        /\ at # "prefilter" => st["prefilter"] = stage["prefilter"]
        /\ at = "prefilter" /\ g # Tick /\ frame # Tick => frame \in InStage(st["prefilter"])
    BY <1>4, <1>6, <2>1
  <2>3. \/ g # Tick /\ Goes(After[at], g)
        \/ g = Tick /\ frame # Tick /\ CascadeEnds
        \/ g = Tick /\ frame = Tick /\ StageDrained
    BY <2>1
  <2>4. (g = Tick \/ g \in Frames) /\ (pendingOut = << >> \/ ~ drainAsked)
    BY <1>7, <2>1
  <2>5. QED
    BY <1>1, <2>1, <2>2, <2>3, <2>4, FramesMove
<1>9. ASSUME failures = 0, NEW s \in Filters, Enabled(s)', Passed(stage, at, frame, Some, s)'
      PROVE  Primed(s)'
  <2>1. Enabled(s) /\ s # at /\ Some' = Some
    BY <1>9, ParametersKept DEF Some, BuffersSame
  <2>2. Passed(stage, After[at], frame, Some, s)
    <3>1. PICK st, q, g : st = stage /\ q = Some /\ g = frame
      OBVIOUS
    <3>2. Passed(st, at', frame', q, s)
      BY <1>9, <2>1, <3>1
    <3>3. \/ g # Tick /\ Goes(After[at], g)
          \/ g = Tick /\ frame # Tick /\ CascadeEnds
          \/ g = Tick /\ frame = Tick /\ StageDrained
      BY <3>1
    <3>4. Passed(st, After[at], g, q, s)
      BY <1>7, <3>2, <3>3, PassedNext
    <3>5. QED
      BY <3>1, <3>4
  <2>3. Passed(stage, at, frame, Some, s)
    BY <2>1, <2>2, PassedMoved
  <2>4. Primed(s)
    BY <1>9, <2>1, <2>3 DEF Flowing
  <2>5. CASE Goes(After[at], frame)
    <3>1. drainAsked' = drainAsked /\ drainAt' = drainAt
      BY <2>5 DEF Goes
    <3>2. QED
      BY <2>4, <3>1, PrimedKept
  <2>6. CASE frame = Tick /\ StageDrained
    <3>1. drainAsked /\ drainAt = at
      BY <2>6, ControlDrained
    <3>2. drainAsked' /\ drainAt' = After[at]
      BY <2>6, <3>1 DEF StageDrained
    <3>3. QED
      BY <2>1, <2>4, <3>1, <3>2, PrimedDrained
  <2>7. QED
    BY <2>5, <2>6
<1>10. QED
  BY <1>2, <1>3, <1>8, <1>9 DEF Flowing

(* A stage that is off. *)
LEMMA PassThroughStep ==
  ASSUME ChainInv, PassThrough
  PROVE  ChainInv' /\ Inside' = Inside /\ Leaving' = Leaving
<1>1. /\ at \in DOMAIN After /\ ~ Enabled(at)
      /\ parameters' = parameters /\ inputs' = inputs /\ failures' = failures /\ put' = put
      /\ stage' = stage /\ sources' = sources /\ helper' = helper /\ stored' = stored /\ missed' = missed
      /\ BuffersSame
      /\ \/ frame # Tick /\ Goes(After[at], frame)
         \/ frame = Tick /\ StageDrained
  BY PosFacts DEF PassThrough, caches, outputs, BuffersSame
<1>2. /\ StagesOK' /\ Control' /\ Buffers' /\ Conveyed' /\ Pushed' /\ Flowing'
      /\ Inside' = Inside /\ Leaving' = Leaving
  BY <1>1, QuietStep DEF ChainInv
<1>3. CachesOK' /\ Counted'
  BY <1>1, CachesSame, CountedSame DEF ChainInv
<1>4. QED
  BY <1>2, <1>3 DEF ChainInv

(* A stage that holds frames back. *)
LEMMA RunTemporalStep ==
  ASSUME ChainInv, RunTemporal
  PROVE  ChainInv' /\ Inside' = Inside /\ Leaving' = Leaving
<1>1. /\ parameters' = parameters /\ inputs' = inputs /\ failures' = failures /\ put' = put
      /\ sources' = sources /\ helper' = helper /\ stored' = stored /\ missed' = missed
  BY DEF RunTemporal
<1>2. /\ StagesOK' /\ Control' /\ Buffers' /\ Conveyed' /\ Pushed'
      /\ Inside' = Inside /\ Leaving' = Leaving
  BY TemporalStep DEF ChainInv
<1>3. Flowing' /\ CachesOK' /\ Counted'
  BY <1>1, TemporalFlow, CachesSame, CountedSame DEF ChainInv
<1>4. QED
  BY <1>2, <1>3 DEF ChainInv

-----------------------------------------------------------------------------
(* EDI and the helpers                                                     *)

(* A cache that is full loses its oldest. *)
LEMMA CachedFacts ==
  ASSUME NEW S \in SUBSET Int, NEW q \in Seq(S), NEW size \in Nat \ {0}, Len(q) <= size, NEW f \in S,
         NEW r, r = Cached(q, size, f)
  PROVE  /\ r \in Seq(S) /\ Len(r) <= size /\ Elems(r) \subseteq Elems(q) \cup {f} /\ f \in Elems(r)
         /\ Sorted(q) /\ Before(Elems(q), {f}) => Sorted(r)
         /\ Len(q) < size => Elems(r) = Elems(q) \cup {f} /\ Len(r) = Len(q) + 1
         /\ ~ Len(q) < size => Len(r) = size /\ (Sorted(q) => Elems(r) = (Elems(q) \ {Head(q)}) \cup {f})
<1>1. Len(q) \in Nat
  BY LenProperties
<1>2. CASE Len(q) < size
  <2>1. r = Append(q, f)
    BY <1>2 DEF Cached
  <2>2. /\ Append(q, f) \in Seq(S) /\ Len(Append(q, f)) = Len(q) + 1
        /\ Elems(Append(q, f)) = Elems(q) \cup {f}
        /\ Sorted(q) /\ Before(Elems(q), {f}) => Sorted(Append(q, f))
    BY AppendElems
  <2>3. QED
    BY <1>1, <1>2, <2>1, <2>2
<1>3. CASE ~ Len(q) < size
  <2>1. r = Append(Tail(q), f) /\ Len(q) = size /\ q # << >>
    BY <1>1, <1>3 DEF Cached
  <2>2. /\ Tail(q) \in Seq(S) /\ Len(Tail(q)) = Len(q) - 1 /\ Len(q) >= 1
        /\ Elems(q) = Elems(Tail(q)) \cup {Head(q)}
        /\ Sorted(q) => Sorted(Tail(q)) /\ Elems(Tail(q)) = Elems(q) \ {Head(q)}
    BY <2>1, TailElems
  <2>3. PICK u \in Seq(S) : u = Tail(q)
    BY <2>2
  <2>4. /\ Append(u, f) \in Seq(S) /\ Len(Append(u, f)) = Len(u) + 1
        /\ Elems(Append(u, f)) = Elems(u) \cup {f}
        /\ Sorted(u) /\ Before(Elems(u), {f}) => Sorted(Append(u, f))
    BY AppendElems
  <2>5. Elems(u) \subseteq Elems(q) /\ (Before(Elems(q), {f}) => Before(Elems(u), {f}))
    BY <2>2, <2>3 DEF Before
  <2>6. QED
    BY <1>1, <1>3, <2>1, <2>2, <2>3, <2>4, <2>5
<1>4. QED
  BY <1>2, <1>3

(* And is never larger than it may be. *)
LEMMA CachedTyped ==
  ASSUME NEW S \in SUBSET Int, NEW q \in Seq(S), NEW size \in Nat \ {0}, Len(q) <= size, NEW f \in S
  PROVE  Cached(q, size, f) \in Seq(S) /\ Len(Cached(q, size, f)) <= size
<1>1. PICK r : r = Cached(q, size, f)
  OBVIOUS
<1>2. r \in Seq(S) /\ Len(r) <= size
  BY <1>1, CachedFacts
<1>3. QED
  BY <1>1, <1>2

(* The frames around another in a cache are those of the cache. *)
LEMMA AroundFacts ==
  ASSUME NEW q, NEW f
  PROVE  Around(q, f) \subseteq Elems(q)
BY DEF Around, Elems

(* A helper before it works on its next frame. *)
LEMMA TurnTyped ==
  ASSUME CachesOK, parameters \in Settings, frame \in Frames \cup {Tick}, NEW h \in Helpers,
         NEW x, x = Turn(h)
  PROVE  /\ x \in Helping /\ Len(x.cache) <= CompCache /\ Len(x.hold) <= HelperDelay + 1
         /\ frame = Tick => Len(x.hold) <= HelperDelay
<1>1. /\ helper[h] \in Helping /\ Len(helper[h].hold) <= HelperDelay /\ Len(helper[h].cache) <= CompCache
      /\ HelperDelay \in Nat
  BY Parameters DEF CachesOK
<1>2. PICK y \in Helping : y = helper[h]
  BY <1>1
<1>3. PICK p \in Seq(Frames), q \in Seq(Frames) : p = y.hold /\ q = y.cache
  BY DEF Helping
<1>4. Len(p) \in Nat /\ Len(q) \in Nat /\ Len(p) <= HelperDelay /\ Len(q) <= CompCache
  BY <1>1, <1>2, <1>3, LenProperties
<1>5. CASE frame = Tick
  BY <1>1, <1>2, <1>3, <1>4, <1>5 DEF Turn
<1>6. CASE frame # Tick
  <2>1. PICK f \in Frames : f = frame
    BY <1>6
  <2>2. PICK u, v : u = Append(p, f) /\ v = Cached(q, CompCache, f)
    OBVIOUS
  <2>3. x = [y EXCEPT !.hold = u, !.cache = v]
    <3>1. x = [y EXCEPT !.hold = Append(@, f), !.cache = Cached(@, CompCache, f)]
      BY <1>2, <1>6, <2>1 DEF Turn, HelperFed
    <3>2. QED
      BY <1>3, <2>2, <3>1
  <2>4. u \in Seq(Frames) /\ Len(u) = Len(p) + 1
    BY <2>2, AppendProperties
  <2>5. v \in Seq(Frames) /\ Len(v) <= CompCache
    <3>1. CompCache \in Nat \ {0} /\ Frames \in SUBSET Int /\ Len(q) <= CompCache
      BY <1>4, ChainAssumption, FramesFacts
    <3>2. QED
      BY <2>2, <3>1, CachedFacts
  <2>6. x \in Helping /\ x.hold = u /\ x.cache = v
    <3>1. u \in Seq(Frames) /\ v \in Seq(Frames)
      BY <2>4, <2>5
    <3>2. /\ [y EXCEPT !.hold = u, !.cache = v] \in Helping
          /\ [y EXCEPT !.hold = u, !.cache = v].hold = u
          /\ [y EXCEPT !.hold = u, !.cache = v].cache = v
          /\ [y EXCEPT !.hold = u, !.cache = v].bound = y.bound
      BY <3>1 DEF Helping
    <3>3. QED
      BY <2>3, <3>2
  <2>7. QED
    BY <1>1, <1>4, <1>6, <2>4, <2>5, <2>6
<1>7. QED
  BY <1>5, <1>6

(* And after it has. *)
LEMMA BuiltTyped ==
  ASSUME CachesOK, parameters \in Settings, frame \in Frames \cup {Tick}, NEW h \in Helpers,
         NEW x, x = Turn(h)
  PROVE  /\ Built(x) \in Helping /\ Len(Built(x).cache) <= CompCache /\ Len(Built(x).hold) <= HelperDelay
         /\ Ready(x) => Head(x.hold) \in Frames
         /\ RefsOf(x) \subseteq Frames
<1>1. /\ x \in Helping /\ Len(x.cache) <= CompCache /\ Len(x.hold) <= HelperDelay + 1
      /\ frame = Tick => Len(x.hold) <= HelperDelay
      /\ HelperDelay \in Nat
  BY TurnTyped, Parameters
<1>2. PICK p \in Seq(Frames), q \in Seq(Frames) : x.hold = p /\ x.cache = q
  BY <1>1 DEF Helping
<1>3. Len(p) \in Nat /\ Len(p) <= HelperDelay + 1 /\ Len(q) <= CompCache
  BY <1>1, <1>2, LenProperties
<1>4. ASSUME Ready(x)
      PROVE  /\ Head(p) \in Frames /\ Tail(p) \in Seq(Frames) /\ Len(Tail(p)) <= HelperDelay
  <2>1. Len(p) > 0 /\ p # << >>
    <3>1. Len(p) > (IF frame = Tick THEN 0 ELSE HelperDelay)
      BY <1>2, <1>4 DEF Ready
    <3>2. QED
      BY <1>1, <1>3, <3>1
  <2>2. Head(p) \in Frames /\ Tail(p) \in Seq(Frames) /\ Len(Tail(p)) = Len(p) - 1
    BY <2>1, HeadTailProperties
  <2>3. QED
    BY <1>1, <1>3, <2>2
<1>5. RefsOf(x) \subseteq Frames
  <2>1. Elems(q) \subseteq Frames
    BY ElementOfSeq DEF Elems
  <2>2. Around(q, Head(p)) \subseteq Elems(q)
    BY AroundFacts
  <2>3. QED
    BY <1>2, <2>1, <2>2 DEF RefsOf
<1>6. CASE Ready(x)
  <2>1. Built(x) = [x EXCEPT !.hold = Tail(p), !.bound = Head(p)]
    BY <1>2, <1>6 DEF Built
  <2>2. PICK c \in Seq(Frames), d \in Frames \cup {Tick} : c = Tail(p) /\ d = Head(p)
    BY <1>4, <1>6
  <2>3. Built(x) = [x EXCEPT !.hold = c, !.bound = d]
    BY <2>1, <2>2
  <2>4. Built(x) \in Helping /\ Built(x).hold = c /\ Built(x).cache = q
    <3>1. PICK y \in Helping : y = x
      BY <1>1
    <3>2. /\ [y EXCEPT !.hold = c, !.bound = d] \in Helping
          /\ [y EXCEPT !.hold = c, !.bound = d].hold = c
          /\ [y EXCEPT !.hold = c, !.bound = d].cache = y.cache
          /\ [y EXCEPT !.hold = c, !.bound = d].bound = d
      BY DEF Helping
    <3>3. QED
      BY <1>2, <2>3, <3>1, <3>2
  <2>5. QED
    BY <1>2, <1>3, <1>4, <1>5, <1>6, <2>2, <2>4
<1>7. CASE ~ Ready(x)
  <2>1. Built(x) = x
    BY <1>7 DEF Built
  <2>2. Len(p) <= HelperDelay
    <3>1. CASE frame = Tick
      BY <1>1, <1>2, <3>1
    <3>2. CASE frame # Tick
      BY <1>1, <1>2, <1>3, <1>7, <3>2 DEF Ready
    <3>3. QED
      BY <3>1, <3>2
  <2>3. QED
    BY <1>1, <1>2, <1>5, <1>7, <2>1, <2>2
<1>8. QED
  BY <1>6, <1>7

(* What both helpers make is stored. *)
LEMMA StoreTyped ==
  ASSUME CachesOK, parameters \in Settings, frame \in Frames \cup {Tick}, Store
  PROVE  /\ helper' \in [Helpers -> Helping] /\ stored' \subseteq Envelopes
         /\ \A h \in Helpers : Len(helper'[h].hold) <= HelperDelay /\ Len(helper'[h].cache) <= CompCache
<1>1. PICK x, y : x = Turn("back") /\ y = Turn("forw")
  OBVIOUS
<1>2. /\ Built(x) \in Helping /\ Len(Built(x).cache) <= CompCache /\ Len(Built(x).hold) <= HelperDelay
      /\ Ready(x) => Head(x.hold) \in Frames
      /\ RefsOf(x) \subseteq Frames
  BY <1>1, BuiltTyped DEF Helpers
<1>3. /\ Built(y) \in Helping /\ Len(Built(y).cache) <= CompCache /\ Len(Built(y).hold) <= HelperDelay
      /\ Ready(y) => Head(y.hold) \in Frames
      /\ RefsOf(y) \subseteq Frames
  BY <1>1, BuiltTyped DEF Helpers
<1>4. PICK f : f = IF Ready(x) THEN Head(x.hold) ELSE Head(y.hold)
  OBVIOUS
<1>5. /\ helper' = [back |-> Built(x), forw |-> Built(y)]
      /\ stored' = IF ~ Ready(x) /\ ~ Ready(y) THEN stored
                   ELSE {e \in stored : e.frame # f}
                          \cup {[frame |-> f, back |-> RefsOf(x), forw |-> RefsOf(y)]}
  BY <1>1, <1>4 DEF Store
<1>6. /\ helper' \in [Helpers -> Helping]
      /\ \A h \in Helpers : Len(helper'[h].hold) <= HelperDelay /\ Len(helper'[h].cache) <= CompCache
  <2>1. DOMAIN helper' = Helpers /\ helper' = [h \in Helpers |-> helper'[h]]
    BY <1>5 DEF Helpers
  <2>2. helper'["back"] = Built(x) /\ helper'["forw"] = Built(y)
    BY <1>5
  <2>3. QED
    BY <1>2, <1>3, <2>1, <2>2 DEF Helpers
<1>7. stored' \subseteq Envelopes
  <2>1. CASE ~ Ready(x) /\ ~ Ready(y)
    BY <1>5, <2>1 DEF CachesOK
  <2>2. CASE Ready(x) \/ Ready(y)
    <3>1. f \in Frames
      BY <1>2, <1>3, <1>4, <2>2
    <3>2. [frame |-> f, back |-> RefsOf(x), forw |-> RefsOf(y)] \in Envelopes
      BY <1>2, <1>3, <3>1 DEF Envelopes
    <3>3. QED
      BY <1>5, <2>2, <3>2 DEF CachesOK
  <2>3. QED
    BY <2>1, <2>2
<1>8. QED
  BY <1>6, <1>7

(* A frame that goes without something is one. *)
LEMMA MissesTyped ==
  ASSUME missed \in [Needs -> SUBSET Frames], NEW ns, NEW f \in Frames, Misses(ns, f)
  PROVE  missed' \in [Needs -> SUBSET Frames]
BY DEF Misses

(* A helper's turn in a drain leaves the chain as it is. *)
LEMMA IdleStep ==
  ASSUME StagesOK, Counted, Control, Buffers, Conveyed, Pushed, Flowing,
         parameters' = parameters, inputs' = inputs, failures' = failures, put' = put, stage' = stage,
         BuffersSame, UNCHANGED control
  PROVE  /\ StagesOK' /\ Control' /\ Buffers' /\ Conveyed' /\ Pushed' /\ Flowing'
         /\ Inside' = Inside /\ Leaving' = Leaving
<1>1. /\ at' = at /\ frame' = frame /\ second' = second /\ left' = left /\ drainAt' = drainAt
      /\ drained' = drained /\ drainAsked' = drainAsked /\ drainEnded' = drainEnded
  BY DEF control
<1>2. StagesOK'
  BY StagesSame
<1>3. Control' /\ Buffers'
  BY <1>1 DEF Control, Buffers, BuffersSame, Out
<1>4. Inside' = Inside /\ Leaving' = Leaving
  BY <1>1 DEF Inside, Leaving, Out, BuffersSame
<1>5. Conveyed' /\ Pushed'
  BY <1>1, <1>4 DEF Conveyed, Pushed, BuffersSame
<1>6. ASSUME failures = 0, NEW s \in Filters, Enabled(s)', Passed(stage, at, frame, Some, s)'
      PROVE  Primed(s)'
  <2>1. Enabled(s) /\ Some' = Some
    BY <1>6, ParametersKept DEF Some, BuffersSame
  <2>2. Passed(stage, at, frame, Some, s)
    BY <1>1, <1>6, <2>1
  <2>3. Primed(s)
    BY <1>6, <2>1, <2>2 DEF Flowing
  <2>4. QED
    BY <1>1, <2>3, PrimedKept
<1>7. QED
  BY <1>2, <1>3, <1>4, <1>5, <1>6 DEF Flowing

(* EDI: the frame goes on, or the drain does when the helpers have         *)
(* nothing left.                                                           *)
LEMMA EdiStep ==
  ASSUME ChainInv, RunEdi
  PROVE  ChainInv' /\ Inside' = Inside /\ Leaving' = Leaving
<1>1. /\ at = "edi" /\ at \in DOMAIN After /\ at \notin Filters /\ at \notin Rest
      /\ parameters' = parameters /\ inputs' = inputs /\ failures' = failures /\ put' = put
      /\ stage' = stage /\ sources' = sources /\ BuffersSame /\ parameters \in Settings
      /\ frame \in Frames \cup {Tick}
  BY PosFacts DEF RunEdi, outputs, BuffersSame, ChainInv, Counted, Control
<1>2. Counted'
  BY <1>1, CountedSame DEF ChainInv
<1>3. HelperDelay' = HelperDelay
  BY <1>1, ParametersKept
<1>4. ASSUME Store \/ UNCHANGED << helper, stored >>, missed' \in [Needs -> SUBSET Frames]
      PROVE  CachesOK'
  <2>1. CASE Store
    <3>1. /\ helper' \in [Helpers -> Helping] /\ stored' \subseteq Envelopes
          /\ \A h \in Helpers : Len(helper'[h].hold) <= HelperDelay /\ Len(helper'[h].cache) <= CompCache
      BY <1>1, <2>1, StoreTyped DEF ChainInv
    <3>2. QED
      BY <1>1, <1>3, <1>4, <3>1 DEF ChainInv, CachesOK
  <2>2. CASE UNCHANGED << helper, stored >>
    BY <1>1, <1>3, <1>4, <2>2 DEF ChainInv, CachesOK
  <2>3. QED
    BY <1>4, <2>1, <2>2
<1>5. CASE frame = Tick
  <2>1. missed' = missed /\ missed' \in [Needs -> SUBSET Frames]
    BY <1>5 DEF RunEdi, ChainInv, CachesOK
  <2>2. \/ Store /\ UNCHANGED control
        \/ StageDrained /\ UNCHANGED << helper, stored >>
    BY <1>5 DEF RunEdi
  <2>3. CachesOK'
    BY <1>4, <2>1, <2>2
  <2>4. CASE Store /\ UNCHANGED control
    <3>1. /\ StagesOK' /\ Control' /\ Buffers' /\ Conveyed' /\ Pushed' /\ Flowing'
          /\ Inside' = Inside /\ Leaving' = Leaving
      BY <1>1, <2>4, IdleStep DEF ChainInv
    <3>2. QED
      BY <1>2, <2>3, <3>1 DEF ChainInv
  <2>5. CASE StageDrained
    <3>1. /\ StagesOK' /\ Control' /\ Buffers' /\ Conveyed' /\ Pushed' /\ Flowing'
          /\ Inside' = Inside /\ Leaving' = Leaving
      BY <1>1, <1>5, <2>5, QuietStep DEF ChainInv
    <3>2. QED
      BY <1>2, <2>3, <3>1 DEF ChainInv
  <2>6. QED
    BY <2>2, <2>4, <2>5
<1>6. CASE frame # Tick
  <2>1. PICK ns : Misses(ns, frame)
    BY <1>6 DEF RunEdi
  <2>2. missed' \in [Needs -> SUBSET Frames]
    BY <1>1, <1>6, <2>1, MissesTyped DEF ChainInv, CachesOK
  <2>3. Goes(After[at], frame) /\ (Store \/ UNCHANGED << helper, stored >>)
    BY <1>6 DEF RunEdi
  <2>4. CachesOK'
    BY <1>4, <2>2, <2>3
  <2>5. /\ StagesOK' /\ Control' /\ Buffers' /\ Conveyed' /\ Pushed' /\ Flowing'
        /\ Inside' = Inside /\ Leaving' = Leaving
    BY <1>1, <1>6, <2>3, QuietStep DEF ChainInv
  <2>6. QED
    BY <1>2, <2>4, <2>5 DEF ChainInv
<1>7. QED
  BY <1>5, <1>6

(* The retouch: the frame goes on, or the drain does. *)
LEMMA RetouchStep ==
  ASSUME ChainInv, RunRetouch
  PROVE  ChainInv' /\ Inside' = Inside /\ Leaving' = Leaving
<1>1. /\ at \in DOMAIN After /\ at \notin Filters
      /\ parameters' = parameters /\ inputs' = inputs /\ failures' = failures /\ put' = put
      /\ stage' = stage /\ sources' = sources /\ helper' = helper /\ stored' = stored /\ BuffersSame
      /\ frame \in Frames \cup {Tick}
  BY PosFacts DEF RunRetouch, outputs, caches, BuffersSame, ChainInv, Control
<1>2. Counted'
  BY <1>1, CountedSame DEF ChainInv
<1>3. /\ missed' \in [Needs -> SUBSET Frames]
      /\ \/ frame # Tick /\ Goes(After[at], frame)
         \/ frame = Tick /\ StageDrained
  <2>1. CASE frame = Tick
    BY <2>1 DEF RunRetouch, ChainInv, CachesOK
  <2>2. CASE frame # Tick
    <3>1. PICK ns : Misses(ns, frame) /\ Goes(After[at], frame)
      BY <2>2 DEF RunRetouch
    <3>2. missed' \in [Needs -> SUBSET Frames]
      BY <1>1, <2>2, <3>1, MissesTyped DEF ChainInv, CachesOK
    <3>3. QED
      BY <2>2, <3>1, <3>2
  <2>3. QED
    BY <2>1, <2>2
<1>4. CachesOK'
  <2>1. HelperDelay' = HelperDelay
    BY <1>1, ParametersKept
  <2>2. QED
    BY <1>1, <1>3, <2>1 DEF ChainInv, CachesOK
<1>5. /\ StagesOK' /\ Control' /\ Buffers' /\ Conveyed' /\ Pushed' /\ Flowing'
      /\ Inside' = Inside /\ Leaving' = Leaving
  BY <1>1, <1>3, QuietStep DEF ChainInv
<1>6. QED
  BY <1>2, <1>4, <1>5 DEF ChainInv

-----------------------------------------------------------------------------
(* The sink                                                                *)

(* The frames in the buffers of q when the buffers have r; and they are in *)
(* order.                                                                  *)
OutOf(r, q) == {r[q[i]] : i \in 1 .. Len(q)}

Rising(r, q) == \A i, j \in 1 .. Len(q) : i < j => r[q[i]] < r[q[j]]

(* The frame f is added to the queue. *)
Gains(r, q, r2, p, f) == OutOf(r2, p) = OutOf(r, q) \cup {f}

(* A frame is put in a buffer that is not in the queue, behind the others. *)
LEMMA QueuePut ==
  ASSUME NEW q \in Seq(Slots), Len(q) <= 1, NEW b \in Slots, q # << >> => Head(q) # b,
         NEW r \in [Slots -> Frames \cup {Tick}], NEW f \in Frames,
         \A i \in 1 .. Len(q) : r[q[i]] < f,
         NEW r2, r2 = [r EXCEPT ![b] = f], NEW p, p = Append(q, b)
  PROVE  /\ p \in Seq(Slots) /\ Len(p) = Len(q) + 1 /\ p # << >> /\ r2 \in [Slots -> Frames \cup {Tick}]
         /\ Gains(r, q, r2, p, f)
         /\ Rising(r2, p)
         /\ q = << >> => Head(p) = b
<1>1. Len(q) \in Nat /\ \A i \in 1 .. Len(q) : q[i] \in Slots
  BY ElementOfSeq, LenProperties
<1>2. /\ p \in Seq(Slots) /\ Len(p) = Len(q) + 1 /\ p[Len(q) + 1] = b
      /\ \A i \in 1 .. Len(q) : p[i] = q[i]
  BY AppendProperties
<1>3. r2 \in [Slots -> Frames \cup {Tick}] /\ r2[b] = f /\ \A c \in Slots : c # b => r2[c] = r[c]
  OBVIOUS
<1>4. ASSUME NEW i \in 1 .. Len(q) PROVE q[i] # b /\ r2[p[i]] = r[q[i]]
  <2>1. q # << >> /\ i = 1
    BY <1>1
  <2>2. Head(q) = q[1]
    BY <2>1, HeadTailProperties
  <2>3. QED
    BY <1>1, <1>2, <1>3, <2>1, <2>2
<1>5. r2[p[Len(p)]] = f /\ Len(p) \in 1 .. Len(p) /\ \A i \in 1 .. Len(p) : i \in 1 .. Len(q) \/ i = Len(p)
  BY <1>1, <1>2, <1>3
<1>6. \A i \in 1 .. Len(q) : i \in 1 .. Len(p)
  BY <1>1, <1>2
<1>7. {r2[p[i]] : i \in 1 .. Len(p)} = {r[q[i]] : i \in 1 .. Len(q)} \cup {f}
  <2>1. ASSUME NEW e \in {r2[p[i]] : i \in 1 .. Len(p)} PROVE e \in {r[q[i]] : i \in 1 .. Len(q)} \cup {f}
    BY <1>4, <1>5
  <2>2. ASSUME NEW e \in {r[q[i]] : i \in 1 .. Len(q)} PROVE e \in {r2[p[i]] : i \in 1 .. Len(p)}
    BY <1>4, <1>6
  <2>3. f \in {r2[p[i]] : i \in 1 .. Len(p)}
    BY <1>5
  <2>4. QED
    BY <2>1, <2>2, <2>3
<1>8. ASSUME NEW i \in 1 .. Len(p), NEW j \in 1 .. Len(p), i < j PROVE r2[p[i]] < r2[p[j]]
  <2>1. i = 1 /\ j = 2 /\ Len(q) = 1
    <3>1. PICK n \in Nat : n = Len(q) /\ n <= 1 /\ i \in 1 .. n + 1 /\ j \in 1 .. n + 1
      BY <1>1, <1>2
    <3>2. QED
      BY <1>8, <3>1
  <2>2. i \in 1 .. Len(q) /\ j = Len(p)
    BY <1>1, <1>2, <2>1
  <2>3. QED
    BY <1>4, <1>5, <2>2
<1>9. p # << >> /\ (q = << >> => Head(p) = b)
  <2>1. p # << >>
    BY <1>1, <1>2
  <2>2. Head(p) = p[1]
    BY <1>2, <2>1, HeadTailProperties
  <2>3. q = << >> => Len(q) + 1 = 1
    OBVIOUS
  <2>4. QED
    BY <1>2, <2>1, <2>2, <2>3
<1>10. Gains(r, q, r2, p, f)
  BY <1>7 DEF Gains, OutOf
<1>11. Rising(r2, p)
  BY <1>8 DEF Rising
<1>12. QED
  BY <1>2, <1>3, <1>9, <1>10, <1>11

(* The next buffer is another. *)
LEMMA NextSlot ==
  ASSUME NEW b \in Slots, NEW c, c = (b + 1) % OutBufs
  PROVE  c \in Slots /\ c # b
<1>1. OutBufs \in Nat /\ OutBufs >= 2 /\ b \in 0 .. OutBufs - 1
  BY ChainAssumption DEF Slots
<1>2. CASE b + 1 < OutBufs
  <2>1. c = b + 1
    BY <1>1, <1>2
  <2>2. QED
    BY <1>1, <1>2, <2>1 DEF Slots
<1>3. CASE b + 1 = OutBufs
  <2>1. c = 0
    BY <1>1, <1>3
  <2>2. QED
    BY <1>1, <1>3, <2>1 DEF Slots
<1>4. QED
  BY <1>1, <1>2, <1>3

(* The frame at the sink is behind all that has been put out, and in front *)
(* of all others.                                                          *)
LEMMA AtSink ==
  ASSUME Control, Conveyed, at = "sink"
  PROVE  /\ frame \in Frames /\ frame # Tick /\ ~ (drainAsked /\ drained)
         /\ Inside = (ChainOf(stage, Tick) \cup Under(second)) \cup {frame}
         /\ Before({frame}, ChainOf(stage, Tick) \cup Under(second))
         /\ Before(ChainOf(stage, Tick), Under(second))
         /\ Before(Leaving, {frame})
<1>1. at \notin Rest
  BY PosFacts
<1>2. frame # Tick /\ frame \in Frames /\ ~ (drainAsked /\ drained)
  BY <1>1 DEF Control
<1>3. \A e : e \in ChainOf(stage, frame) <=> e \in ChainOf(stage, Tick) \/ e = frame
  BY <1>2, ChainMember DEF Under
<1>4. ChainOf(stage, frame) = ChainOf(stage, Tick) \cup {frame}
  BY <1>3
<1>5. Before({frame}, ChainOf(stage, Tick))
  BY <1>2, OldestAtSink DEF Conveyed
<1>6. Before(ChainOf(stage, Tick) \cup {frame}, Under(second)) /\ Before(Leaving, Inside)
  BY <1>4 DEF Conveyed
<1>7. QED
  BY <1>2, <1>4, <1>5, <1>6 DEF Inside, Before

(* The frame is put in a buffer, for the push or for the drain. *)
LEMMA SinkBuffers ==
  ASSUME Control, Buffers, Conveyed, Sink, parameters \in Settings
  PROVE  /\ Control' /\ Buffers' /\ Leaving' = Leaving \cup {frame}
         /\ ~ drainAsked => at' = (IF second # Tick THEN "prefilter" ELSE "return") /\ outs' # << >>
         /\ drainAsked => at' = "return" /\ second = Tick
<1>1. /\ at = "sink" /\ CascadeEnds /\ ring' = [ring EXCEPT ![slot] = frame] /\ slot' = (slot + 1) % OutBufs
      /\ outs' = (IF drainAsked THEN outs ELSE Append(outs, slot))
      /\ pendingOut' = (IF drainAsked THEN Append(pendingOut, slot) ELSE pendingOut)
      /\ inputs' = inputs
  BY DEF Sink, Advance
<1>2. /\ frame' = second /\ second' = Tick /\ left' = left /\ drainAt' = drainAt
      /\ drained' = drained /\ drainAsked' = drainAsked /\ drainEnded' = drainEnded
      /\ at' = (IF drainAsked THEN (IF pendingOut' = << >> THEN drainAt ELSE "return")
                ELSE IF second # Tick THEN "prefilter" ELSE "return")
  BY <1>1 DEF CascadeEnds
<1>3. at \notin Rest /\ at # "return" /\ at # "idle"
  BY <1>1, PosFacts
<1>4. /\ "return" \in Rest /\ "return" \in Places /\ "return" # "idle" /\ "prefilter" \in Places
      /\ "prefilter" \notin Rest /\ "prefilter" # "return" /\ "prefilter" # "idle"
  BY PosFacts
<1>5. frame \in Frames /\ frame # Tick /\ Before(Leaving, {frame})
  BY <1>1, AtSink
<1>6. /\ ring \in [Slots -> Frames \cup {Tick}] /\ slot \in Slots
      /\ outs \in Seq(Slots) /\ pendingOut \in Seq(Slots) /\ pendingOut = << >>
      /\ Len(outs) <= (IF second # Tick THEN 0 ELSE 1)
      /\ Len(outs) <= 1 /\ (outs # << >> => Head(outs) # slot) /\ Len(outs) \in Nat
      /\ second # Tick => outs = << >>
  <2>1. ring \in [Slots -> Frames \cup {Tick}] /\ slot \in Slots /\ outs \in Seq(Slots) /\ pendingOut \in Seq(Slots)
    BY DEF Buffers
  <2>2. pendingOut = << >> /\ (outs # << >> => Head(outs) # slot)
    BY <1>3 DEF Buffers
  <2>3. Len(outs) + Len(pendingOut) <= (IF second # Tick THEN 0 ELSE 1)
    BY <1>3 DEF Buffers
  <2>4. Len(outs) \in Nat /\ Len(pendingOut) = 0
    BY <2>1, <2>2, LenProperties
  <2>5. Len(outs) = 0 => outs = << >>
    BY <2>1, EmptySeq
  <2>6. QED
    BY <2>1, <2>2, <2>3, <2>4, <2>5
<1>7. slot' \in Slots /\ slot' # slot
  BY <1>1, <1>6, NextSlot
<1>8. \A i \in 1 .. Len(outs) : ring[outs[i]] < frame
  BY <1>5 DEF Before, Leaving, Out
<1>9. CASE ~ drainAsked
  <2>1. PICK q, b, r, f, r2, p : q = outs /\ b = slot /\ r = ring /\ f = frame /\ r2 = ring' /\ p = outs'
    OBVIOUS
  <2>2. /\ p \in Seq(Slots) /\ Len(p) = Len(q) + 1 /\ p # << >> /\ r2 \in [Slots -> Frames \cup {Tick}]
        /\ Gains(r, q, r2, p, f) /\ Rising(r2, p)
        /\ q = << >> => Head(p) = b
    <3>1. /\ q \in Seq(Slots) /\ Len(q) <= 1 /\ b \in Slots /\ (q # << >> => Head(q) # b)
          /\ r \in [Slots -> Frames \cup {Tick}] /\ f \in Frames
          /\ (\A i \in 1 .. Len(q) : r[q[i]] < f)
          /\ r2 = [r EXCEPT ![b] = f] /\ p = Append(q, b)
      BY <1>1, <1>5, <1>6, <1>8, <1>9, <2>1
    <3>5. /\ p \in Seq(Slots) /\ Len(p) = Len(q) + 1 /\ p # << >> /\ r2 \in [Slots -> Frames \cup {Tick}]
          /\ q = << >> => Head(p) = b
      BY <3>1, QueuePut
    <3>6. Gains(r, q, r2, p, f)
      BY <3>1, QueuePut
    <3>7. Rising(r2, p)
      BY <3>1, QueuePut
    <3>8. QED
      BY <3>5, <3>6, <3>7
  <2>3. /\ outs' \in Seq(Slots) /\ Len(outs') = Len(outs) + 1 /\ outs' # << >>
        /\ ring' \in [Slots -> Frames \cup {Tick}]
        /\ Out(outs)' = Out(outs) \cup {frame}
        /\ \A i, j \in 1 .. Len(outs') : i < j => ring'[outs'[i]] < ring'[outs'[j]]
        /\ outs = << >> => Head(outs') = slot
    <3>1. /\ outs' \in Seq(Slots) /\ Len(outs') = Len(outs) + 1 /\ outs' # << >>
          /\ ring' \in [Slots -> Frames \cup {Tick}]
          /\ outs = << >> => Head(outs') = slot
      BY <2>1, <2>2
    <3>2. Out(outs) = OutOf(ring, outs) /\ Out(outs)' = OutOf(ring', outs')
      BY DEF Out, OutOf
    <3>3. Out(outs)' = Out(outs) \cup {frame}
      BY <2>1, <2>2, <3>2 DEF Gains
    <3>4. \A i, j \in 1 .. Len(outs') : i < j => ring'[outs'[i]] < ring'[outs'[j]]
      BY <2>1, <2>2 DEF Rising
    <3>5. QED
      BY <3>1, <3>3, <3>4
  <2>4. pendingOut' = << >> /\ Out(pendingOut)' = {} /\ Out(pendingOut) = {} /\ Len(pendingOut') = 0
    BY <1>1, <1>6, <1>9 DEF Out
  <2>5. Leaving' = Leaving \cup {frame} /\ Tick \notin Out(outs)' /\ Tick \notin Out(pendingOut)'
    BY <1>5, <2>3, <2>4 DEF Leaving, Buffers
  <2>6. /\ ~ drainEnded /\ drainAt = "prefilter" /\ left = 2 /\ inputs > 0
        /\ at' = (IF second # Tick THEN "prefilter" ELSE "return")
    BY <1>2, <1>3, <1>9 DEF Control
  <2>7. Control'
    <3>1. CASE second # Tick
      BY <1>1, <1>2, <1>3, <1>4, <1>9, <2>6, <3>1 DEF Control
    <3>2. CASE second = Tick
      BY <1>1, <1>2, <1>3, <1>4, <1>9, <2>6, <3>2 DEF Control
    <3>3. QED
      BY <3>1, <3>2
  <2>8. /\ Len(outs') + Len(pendingOut') <= (IF at' = "return" THEN left' ELSE IF second' # Tick THEN 0 ELSE 1)
        /\ at' # "return" => Head(outs') # slot'
        /\ at' # "idle" /\ Len(pendingOut') <= 1
    BY <1>2, <1>4, <1>6, <1>7, <2>3, <2>4, <2>6
  <2>9. Buffers'
    BY <1>2, <1>7, <1>9, <2>3, <2>4, <2>5, <2>8 DEF Buffers
  <2>10. QED
    BY <1>9, <2>3, <2>5, <2>6, <2>7, <2>9
<1>10. CASE drainAsked
  <2>1. outs = << >> /\ second = Tick /\ left = MaxReturn /\ ~ drainEnded /\ ~ drained /\ drainAt \in DOMAIN After
    BY <1>3, <1>10 DEF Buffers, Control
  <2>2. PICK q, b, r, f, r2, p : q = pendingOut /\ b = slot /\ r = ring /\ f = frame /\ r2 = ring' /\ p = pendingOut'
    OBVIOUS
  <2>3. /\ p \in Seq(Slots) /\ Len(p) = Len(q) + 1 /\ p # << >> /\ r2 \in [Slots -> Frames \cup {Tick}]
        /\ Gains(r, q, r2, p, f) /\ Rising(r2, p)
        /\ q = << >> => Head(p) = b
    <3>1. q = << >> /\ Len(q) = 0
      BY <1>6, <2>2
    <3>2. /\ q \in Seq(Slots) /\ Len(q) <= 1 /\ b \in Slots /\ (q # << >> => Head(q) # b)
          /\ r \in [Slots -> Frames \cup {Tick}] /\ f \in Frames
          /\ (\A i \in 1 .. Len(q) : r[q[i]] < f)
          /\ r2 = [r EXCEPT ![b] = f] /\ p = Append(q, b)
      BY <1>1, <1>5, <1>6, <1>10, <2>2, <3>1
    <3>5. /\ p \in Seq(Slots) /\ Len(p) = Len(q) + 1 /\ p # << >> /\ r2 \in [Slots -> Frames \cup {Tick}]
          /\ q = << >> => Head(p) = b
      BY <3>2, QueuePut
    <3>6. Gains(r, q, r2, p, f)
      BY <3>2, QueuePut
    <3>7. Rising(r2, p)
      BY <3>2, QueuePut
    <3>8. QED
      BY <3>5, <3>6, <3>7
  <2>4. /\ pendingOut' \in Seq(Slots) /\ Len(pendingOut') = 1 /\ pendingOut' # << >>
        /\ ring' \in [Slots -> Frames \cup {Tick}]
        /\ Out(pendingOut)' = {frame}
    <3>1. Len(q) = 0
      BY <1>6, <2>2
    <3>2. OutOf(r, q) = {}
      BY <3>1 DEF OutOf
    <3>3. Out(pendingOut)' = OutOf(r2, p)
      BY <2>2 DEF Out, OutOf
    <3>4. OutOf(r2, p) = {frame}
      BY <2>2, <2>3, <3>2 DEF Gains
    <3>5. QED
      BY <2>2, <2>3, <3>1, <3>3, <3>4
  <2>5. outs' = << >> /\ Out(outs)' = {} /\ Len(outs') = 0 /\ Out(outs) = {} /\ Out(pendingOut) = {}
    BY <1>1, <1>6, <1>10, <2>1 DEF Out
  <2>6. Leaving' = Leaving \cup {frame}
    BY <2>4, <2>5 DEF Leaving
  <2>7. at' = "return"
    BY <1>2, <1>10, <2>4
  <2>8. Control'
    BY <1>2, <1>4, <1>10, <2>1, <2>7 DEF Control
  <2>9. /\ Len(outs') + Len(pendingOut') <= left' /\ Len(pendingOut') <= 1
        /\ Tick \notin Out(pendingOut)' /\ Tick \notin Out(outs)'
        /\ \A i, j \in 1 .. Len(outs') : i < j => ring'[outs'[i]] < ring'[outs'[j]]
    BY <1>2, <1>5, <2>1, <2>4, <2>5, ChainAssumption
  <2>10. Buffers'
    BY <1>2, <1>7, <1>10, <2>1, <2>4, <2>5, <2>7, <2>9 DEF Buffers
  <2>11. QED
    BY <1>10, <2>1, <2>6, <2>7, <2>8, <2>10
<1>11. QED
  BY <1>9, <1>10

(* The frame that was at the sink is out, the others are as they were. *)
LEMMA SinkStep ==
  ASSUME ChainInv, Sink
  PROVE  /\ ChainInv' /\ frame \in Frames /\ Leaving' = Leaving \cup {frame}
         /\ Inside = Inside' \cup {frame} /\ Before({frame}, Inside') /\ Before(Leaving, {frame})
<1>1. /\ at = "sink" /\ CascadeEnds /\ parameters' = parameters /\ inputs' = inputs /\ failures' = failures
      /\ put' = put /\ stage' = stage /\ sources' = sources /\ helper' = helper /\ missed' = missed
      /\ stored' \subseteq stored /\ parameters \in Settings
      /\ outs' = (IF drainAsked THEN outs ELSE Append(outs, slot))
  BY DEF Sink, ChainInv, Counted
<1>2. StagesOK' /\ Counted'
  BY <1>1, StagesSame, CountedSame DEF ChainInv
<1>3. CachesOK'
  <2>1. HelperDelay' = HelperDelay
    BY <1>1, ParametersKept
  <2>2. QED
    BY <1>1, <2>1 DEF ChainInv, CachesOK
<1>4. /\ Control' /\ Buffers' /\ Leaving' = Leaving \cup {frame}
      /\ ~ drainAsked => at' = (IF second # Tick THEN "prefilter" ELSE "return") /\ outs' # << >>
      /\ drainAsked => at' = "return" /\ second = Tick
  BY <1>1, SinkBuffers DEF ChainInv
<1>5. /\ frame \in Frames /\ frame # Tick
      /\ Inside = (ChainOf(stage, Tick) \cup Under(second)) \cup {frame}
      /\ Before({frame}, ChainOf(stage, Tick) \cup Under(second))
      /\ Before(ChainOf(stage, Tick), Under(second))
      /\ Before(Leaving, {frame})
  BY <1>1, AtSink DEF ChainInv
<1>6. /\ frame' = second /\ second' = Tick /\ drainAsked' = drainAsked /\ left' = left /\ drainAt' = drainAt
  BY <1>1 DEF CascadeEnds
<1>7. /\ Inside' = ChainOf(stage, Tick) \cup Under(second)
      /\ ChainOf(stage, frame)' = Inside' /\ Under(second') = {}
  <2>1. \A e : e \in ChainOf(stage, second) <=> e \in ChainOf(stage, Tick) \/ e \in Under(second)
    BY ChainMember DEF Under
  <2>2. ChainOf(stage, second) = ChainOf(stage, Tick) \cup Under(second)
    BY <2>1
  <2>3. ChainOf(stage, frame)' = ChainOf(stage, second)
    BY <1>1, <1>6
  <2>4. Under(second') = {} /\ Under(second)' = {}
    BY <1>6 DEF Under
  <2>5. QED
    BY <2>2, <2>3, <2>4 DEF Inside
<1>8. Inside = Inside' \cup {frame} /\ Before({frame}, Inside')
  BY <1>5, <1>7
<1>9. Ordered(stage, at', second)
  <2>1. Ordered(stage, at', Tick) /\ Ordered(stage, "prefilter", Tick)
    BY OrderDropped DEF ChainInv, Conveyed
  <2>2. CASE second = Tick
    BY <2>1, <2>2
  <2>3. CASE second # Tick
    <3>1. at' = "prefilter" /\ Under(second) = {second}
      BY <1>4, <2>3 DEF Under
    <3>2. PICK f : f = second /\ Before(ChainOf(stage, Tick), {f})
      BY <1>5, <3>1
    <3>3. Ordered(stage, "prefilter", f)
      BY <2>1, <3>2, OrderEnters
    <3>4. QED
      BY <3>1, <3>2, <3>3
  <2>4. QED
    BY <2>2, <2>3
<1>10. Conveyed'
  <2>1. Ordered(stage, at, frame)'
    BY <1>1, <1>6, <1>9
  <2>2. Before(ChainOf(stage, frame)', Under(second'))
    BY <1>7 DEF Before
  <2>3. Before(Leaving', Inside')
    <3>1. Before(Leaving, Inside)
      BY DEF ChainInv, Conveyed
    <3>2. QED
      BY <1>4, <1>8, <3>1 DEF Before
  <2>4. Inside' \cup Leaving' \subseteq 0 .. 2 * inputs' - 1
    <3>1. Inside \cup Leaving \subseteq 0 .. 2 * inputs - 1
      BY DEF ChainInv, Conveyed
    <3>2. QED
      BY <1>1, <1>4, <1>8, <3>1
  <2>5. QED
    BY <2>1, <2>2, <2>3, <2>4 DEF Conveyed
<1>11. Pushed'
  <2>1. SUFFICES ASSUME ~ drainAsked
                 PROVE  /\ 2 * inputs - left .. 2 * inputs - 1 \subseteq Inside' \cup Leaving'
                        /\ 2 * inputs - 1 \in Inside'
                        /\ at' \in Rest \cup {"prefilter"}
    BY <1>1, <1>6 DEF Pushed
  <2>2. at \notin Rest \cup {"prefilter"} /\ at # "idle" /\ at # "return" /\ "return" \in Rest
    BY <1>1, PosFacts
  <2>3. /\ 2 * inputs - left .. 2 * inputs - 1 \subseteq Inside \cup Leaving
        /\ 2 * inputs - 1 \in Under(second) \cup InStage(stage["prefilter"])
    BY <2>1, <2>2 DEF ChainInv, Pushed
  <2>4. Inside' \cup Leaving' = Inside \cup Leaving
    BY <1>4, <1>8
  <2>5. 2 * inputs - 1 \in Inside'
    BY <1>7, <2>3, ChainMember, PosFacts
  <2>6. at' \in Rest \cup {"prefilter"}
    BY <1>4, <2>1, <2>2
  <2>7. QED
    BY <2>3, <2>4, <2>5, <2>6
<1>12. ASSUME failures = 0, NEW s \in Filters, Enabled(s)' PROVE Primed(s)'
  <2>1. Enabled(s)
    BY <1>1, <1>12, ParametersKept
  <2>2. Passed(stage, at, frame, Some, s)
    <3>1. Pos[s] <= 6 /\ Pos["sink"] = 7 /\ Pos[s] \in Int
      BY PosFacts
    <3>2. Pos[s] < Pos[at]
      BY <1>1, <3>1
    <3>3. QED
      BY <1>5, <3>2 DEF Passed
  <2>3. Primed(s)
    BY <1>12, <2>1, <2>2 DEF ChainInv, Flowing
  <2>4. QED
    BY <1>1, <1>6, <2>3, PrimedKept
<1>13. Flowing'
  BY <1>1, <1>12 DEF Flowing
<1>14. QED
  BY <1>2, <1>3, <1>4, <1>5, <1>8, <1>10, <1>11, <1>13 DEF ChainInv

-----------------------------------------------------------------------------
(* The answers                                                             *)

(* The caller takes the frame in the first buffer. *)
LEMMA QueueTaken ==
  ASSUME NEW q \in Seq(Slots), q # << >>, NEW r, NEW p, p = Tail(q)
  PROVE  /\ p \in Seq(Slots) /\ Len(p) = Len(q) - 1 /\ Head(q) \in Slots /\ Len(q) >= 1
         /\ OutOf(r, q) = OutOf(r, p) \cup {r[Head(q)]}
<1>1. /\ p \in Seq(Slots) /\ Len(p) = Len(q) - 1 /\ Head(q) \in Slots /\ Head(q) = q[1]
      /\ Len(q) \in Nat /\ Len(q) >= 1
      /\ \A i \in 1 .. Len(q) - 1 : p[i] = q[i + 1]
  BY HeadTailProperties, LenProperties
<1>2. \A i \in 1 .. Len(p) : p[i] = q[i + 1] /\ i + 1 \in 1 .. Len(q) /\ 1 < i + 1
  BY <1>1
<1>3. \A i \in 1 .. Len(q) : i = 1 \/ (i - 1 \in 1 .. Len(p) /\ p[i - 1] = q[i])
  BY <1>1
<1>4. 1 \in 1 .. Len(q)
  BY <1>1
<1>5. {r[q[i]] : i \in 1 .. Len(q)} = {r[p[i]] : i \in 1 .. Len(p)} \cup {r[Head(q)]}
  <2>1. ASSUME NEW e \in {r[q[i]] : i \in 1 .. Len(q)} PROVE e \in {r[p[i]] : i \in 1 .. Len(p)} \cup {r[Head(q)]}
    <3>1. PICK i \in 1 .. Len(q) : e = r[q[i]]
      BY <2>1
    <3>2. CASE i = 1
      BY <1>1, <3>1, <3>2
    <3>3. CASE i # 1
      BY <1>3, <3>1, <3>3
    <3>4. QED
      BY <3>2, <3>3
  <2>2. ASSUME NEW e \in {r[p[i]] : i \in 1 .. Len(p)} PROVE e \in {r[q[i]] : i \in 1 .. Len(q)}
    BY <1>2
  <2>3. r[Head(q)] \in {r[q[i]] : i \in 1 .. Len(q)}
    BY <1>1, <1>4
  <2>4. QED
    BY <2>1, <2>2, <2>3
<1>6. QED
  BY <1>1, <1>5 DEF OutOf

(* The others are as they were among themselves, and later. *)
LEMMA QueueOrder ==
  ASSUME NEW q \in Seq(Slots), q # << >>, NEW r, NEW p, p = Tail(q),
         \A i, j \in 1 .. Len(q) : i < j => r[q[i]] < r[q[j]]
  PROVE  /\ \A i, j \in 1 .. Len(p) : i < j => r[p[i]] < r[p[j]]
         /\ \A i \in 1 .. Len(p) : r[Head(q)] < r[p[i]]
<1>1. /\ Len(p) = Len(q) - 1 /\ Head(q) = q[1] /\ Len(q) \in Nat /\ Len(q) >= 1
      /\ \A i \in 1 .. Len(q) - 1 : p[i] = q[i + 1]
  BY HeadTailProperties, LenProperties
<1>2. \A i \in 1 .. Len(p) : p[i] = q[i + 1] /\ i + 1 \in 1 .. Len(q) /\ 1 < i + 1
  BY <1>1
<1>3. 1 \in 1 .. Len(q)
  BY <1>1
<1>4. ASSUME NEW i \in 1 .. Len(p), NEW j \in 1 .. Len(p), i < j PROVE r[p[i]] < r[p[j]]
  <2>1. i + 1 < j + 1 /\ i + 1 \in 1 .. Len(q) /\ j + 1 \in 1 .. Len(q)
    BY <1>2, <1>4
  <2>2. QED
    BY <1>2, <2>1
<1>5. ASSUME NEW i \in 1 .. Len(p) PROVE r[Head(q)] < r[p[i]]
  BY <1>1, <1>2, <1>3
<1>6. QED
  BY <1>4, <1>5

(* A frame of the answers is taken from a queue. *)
Took(t) == /\ t \in Frames /\ put' = Append(put, t) /\ put' \in Seq(Frames) /\ put' # << >>
           /\ Leaving = Leaving' \cup {t} /\ Before({t}, Leaving')

(* Nothing is under way in the stages, and no stage changes. *)
LEMMA StillFlowing ==
  ASSUME Control, Flowing, parameters' = parameters, stage' = stage, failures' = failures, frame = Tick,
         frame' = Tick, drainAsked' = drainAsked, drainAt' = drainAt, Some' = Some
  PROVE  Flowing'
<1>1. ASSUME failures = 0, NEW s \in Filters, Enabled(s)', Passed(stage, at, frame, Some, s)'
      PROVE  Primed(s)'
  <2>1. Enabled(s)
    BY <1>1, ParametersKept
  <2>2. Passed(stage, at', Tick, Some, s)
    BY <1>1
  <2>3. Passed(stage, at, frame, Some, s)
    BY <2>2, PassedTick
  <2>4. Primed(s)
    BY <1>1, <2>1, <2>3 DEF Flowing
  <2>5. QED
    BY <2>4, PrimedKept
<1>2. QED
  BY <1>1 DEF Flowing

(* With no frame under way. *)
LEMMA InsideStill ==
  ASSUME stage' = stage, frame' = frame, second' = second
  PROVE  /\ Inside' = Inside /\ ChainOf(stage, frame)' = ChainOf(stage, frame)
         /\ Under(second') = Under(second)
BY DEF Inside

(* A push gives the caller what it has put out. *)
LEMMA PushReturnsStep ==
  ASSUME ChainInv, PushReturns
  PROVE  /\ ChainInv' /\ Inside' = Inside /\ left \in 1 .. 2
         /\ outs = << >> => put' = put /\ Leaving' = Leaving
         /\ outs # << >> => \E t : Took(t)
<1>1. /\ at = "return" /\ ~ drainAsked /\ left' = left - 1 /\ at' = (IF left' = 0 THEN "idle" ELSE at)
      /\ parameters' = parameters /\ inputs' = inputs /\ failures' = failures /\ missed' = missed
      /\ stage' = stage /\ sources' = sources /\ helper' = helper /\ stored' = stored
      /\ ring' = ring /\ slot' = slot /\ pendingOut' = pendingOut
      /\ frame' = frame /\ second' = second /\ drainAt' = drainAt /\ drained' = drained
      /\ drainAsked' = drainAsked /\ drainEnded' = drainEnded
      /\ \/ outs # << >> /\ put' = Append(put, ring[Head(outs)]) /\ outs' = Tail(outs)
         \/ outs = << >> /\ put' = put /\ outs' = outs
  BY DEF PushReturns, caches, Taken
<1>2. /\ at \in Rest /\ frame = Tick /\ second = Tick /\ left \in 1 .. 2 /\ inputs > 0 /\ ~ drainEnded
      /\ "return" \in Places /\ "idle" \in Places /\ "idle" \in Rest /\ "return" \in Rest /\ at' \in Rest
  BY <1>1, PosFacts DEF ChainInv, Control
<1>3. /\ pendingOut = << >> /\ Len(outs) <= left /\ Len(outs) \in Nat /\ outs \in Seq(Slots)
      /\ ring \in [Slots -> Frames \cup {Tick}] /\ Len(pendingOut) = 0 /\ Out(pendingOut) = {}
  <2>1. pendingOut = << >> /\ outs \in Seq(Slots) /\ ring \in [Slots -> Frames \cup {Tick}]
    BY <1>1 DEF ChainInv, Buffers
  <2>2. Len(outs) + Len(pendingOut) <= left
    BY <1>1 DEF ChainInv, Buffers
  <2>3. Len(outs) \in Nat /\ Len(pendingOut) = 0 /\ Out(pendingOut) = {}
    BY <2>1, LenProperties DEF Out
  <2>4. QED
    BY <1>2, <2>1, <2>2, <2>3
<1>4. /\ outs' \in Seq(Slots) /\ Len(outs') <= left' /\ Len(outs') \in Nat /\ Out(outs)' \subseteq Out(outs)
      /\ \A i, j \in 1 .. Len(outs') : i < j => ring[outs'[i]] < ring[outs'[j]]
      /\ outs' # << >> => outs # << >>
      /\ put' \in Seq(Frames)
      /\ outs = << >> => Out(outs)' = Out(outs)
      /\ outs # << >> => \E t \in Frames : /\ put' = Append(put, t) /\ put' # << >>
                                           /\ Out(outs) = Out(outs)' \cup {t} /\ Before({t}, Out(outs)')
  <2>1. CASE outs = << >>
    <3>1. outs' = outs /\ put' = put /\ Len(outs) = 0
      BY <1>1, <2>1
    <3>2. Out(outs)' = Out(outs)
      BY <1>1, <3>1 DEF Out
    <3>3. put' \in Seq(Frames) /\ \A i, j \in 1 .. Len(outs) : i < j => ring[outs[i]] < ring[outs[j]]
      BY <3>1 DEF ChainInv, Counted, Buffers
    <3>4. Len(outs') <= left'
      BY <1>1, <1>2, <3>1
    <3>5. QED
      BY <1>3, <2>1, <3>1, <3>2, <3>3, <3>4
  <2>2. CASE outs # << >>
    <3>1. PICK q, r, p : q = outs /\ r = ring /\ p = outs' /\ p = Tail(q)
      BY <1>1, <2>2
    <3>2. /\ q \in Seq(Slots) /\ q # << >> /\ r \in [Slots -> Frames \cup {Tick}] /\ p = Tail(q)
          /\ \A i, j \in 1 .. Len(q) : i < j => r[q[i]] < r[q[j]]
      BY <1>3, <2>2, <3>1 DEF ChainInv, Buffers
    <3>3. /\ p \in Seq(Slots) /\ Len(p) = Len(q) - 1 /\ Head(q) \in Slots /\ Len(q) >= 1
          /\ OutOf(r, q) = OutOf(r, p) \cup {r[Head(q)]}
      BY <3>2, QueueTaken
    <3>0. /\ \A i, j \in 1 .. Len(p) : i < j => r[p[i]] < r[p[j]]
          /\ \A i \in 1 .. Len(p) : r[Head(q)] < r[p[i]]
      BY <3>2, QueueOrder
    <3>4. PICK t : t = r[Head(q)]
      OBVIOUS
    <3>5. Out(outs) = Out(outs)' \cup {t} /\ Before({t}, Out(outs)')
      <4>1. Out(outs) = OutOf(r, q)
        BY <3>1 DEF Out, OutOf
      <4>2. Out(outs)' = OutOf(r, p)
        BY <1>1, <3>1 DEF Out, OutOf
      <4>3. QED
        BY <3>0, <3>3, <3>4, <4>1, <4>2 DEF Before, OutOf
    <3>6. t \in Frames
      <4>1. Tick \notin Out(outs)
        BY DEF ChainInv, Buffers
      <4>2. QED
        BY <3>2, <3>3, <3>4, <3>5, <4>1
    <3>7. put' = Append(put, t) /\ put \in Seq(Frames)
      BY <1>1, <2>2, <3>1, <3>4 DEF ChainInv, Counted
    <3>8. put' \in Seq(Frames) /\ put' # << >>
      BY <3>6, <3>7, AppendProperties
    <3>9. Len(outs') <= left' /\ Len(outs') \in Nat
      <4>1. Len(p) \in Nat
        BY <3>3, LenProperties
      <4>2. Len(p) = Len(outs) - 1 /\ Len(outs) <= left /\ left \in Int /\ left' = left - 1
        <5>1. left \in Int /\ left' = left - 1 /\ Len(outs) <= left
          BY <1>1, <1>2, <1>3
        <5>2. Len(p) = Len(outs) - 1
          BY <3>1, <3>3
        <5>3. QED
          BY <5>1, <5>2
      <4>3. Len(p) <= left'
        BY <1>3, <4>1, <4>2
      <4>4. QED
        BY <3>1, <4>1, <4>3
    <3>10. QED
      BY <2>2, <3>0, <3>1, <3>2, <3>3, <3>5, <3>6, <3>7, <3>8, <3>9
  <2>3. QED
    BY <2>1, <2>2
<1>5. Inside' = Inside /\ Out(pendingOut)' = {}
  BY <1>1, <1>3, InsideStill DEF Out
<1>6. /\ outs = << >> => Leaving' = Leaving
      /\ outs # << >> => \E t : Took(t)
  BY <1>3, <1>4, <1>5 DEF Took, Leaving
<1>7. Leaving' \subseteq Leaving
  BY <1>3, <1>4, <1>5 DEF Leaving
<1>8. StagesOK' /\ CachesOK' /\ Counted'
  BY <1>1, <1>4, StagesSame, CachesSame DEF ChainInv, Counted
<1>9. left' \in 0 .. 1 /\ (left' = 0 => at' = "idle") /\ (left' # 0 => at' = "return" /\ left' = 1)
  BY <1>1, <1>2
<1>10. Control'
  <2>1. at' # "idle" => left' \in 1 .. 2
    BY <1>9
  <2>2. left' \in 0 .. Most(2, MaxReturn)
    BY <1>1, <1>2, ChainAssumption DEF Most
  <2>3. at' \in Places
    BY <1>2, <1>9
  <2>4. QED
    BY <1>1, <1>2, <2>1, <2>2, <2>3 DEF ChainInv, Control
<1>11. Buffers'
  <2>1. outs' # << >> => at' = "return"
    <3>1. CASE left' = 0
      <4>1. outs' = << >>
        BY <1>4, <3>1, EmptySeq
      <4>2. QED
        BY <4>1
    <3>2. QED
      BY <1>9, <3>1
  <2>2. /\ Len(outs') + Len(pendingOut') <= (IF at' = "return" THEN left' ELSE IF second' # Tick THEN 0 ELSE 1)
        /\ Len(pendingOut') <= 1
    BY <1>1, <1>2, <1>3, <1>4, <1>9
  <2>3. Tick \notin Out(outs)' /\ Tick \notin Out(pendingOut)'
    BY <1>4, <1>5 DEF ChainInv, Buffers
  <2>4. "return" # "idle"
    OBVIOUS
  <2>5. QED
    BY <1>1, <1>3, <1>4, <2>1, <2>2, <2>3, <2>4 DEF ChainInv, Buffers
<1>12. Conveyed'
  <2>1. Ordered(stage, at', Tick)
    BY OrderDropped DEF ChainInv, Conveyed
  <2>2. Ordered(stage, at, frame)' /\ Before(ChainOf(stage, frame)', Under(second'))
    BY <1>1, <1>2, <2>1, InsideStill DEF ChainInv, Conveyed
  <2>3. Before(Leaving', Inside') /\ Inside' \cup Leaving' \subseteq 0 .. 2 * inputs' - 1
    BY <1>1, <1>5, <1>7 DEF ChainInv, Conveyed, Before
  <2>4. QED
    BY <2>2, <2>3 DEF Conveyed
<1>13. Pushed'
  <2>1. SUFFICES ASSUME at' # "idle"
                 PROVE  /\ outs' # << >> \/ failures = 0 =>
                             2 * inputs - left' .. 2 * inputs - 1 \subseteq Inside \cup Leaving'
                        /\ outs' # << >> => 2 * inputs - 1 \in Inside
    BY <1>1, <1>2, <1>5, <1>9 DEF Pushed
  <2>2. /\ outs # << >> \/ failures = 0 => 2 * inputs - left .. 2 * inputs - 1 \subseteq Inside \cup Leaving
        /\ outs # << >> => 2 * inputs - 1 \in Inside
    BY <1>1 DEF ChainInv, Pushed
  <2>3. left' = 1 /\ inputs \in Int
    BY <1>9, <2>1, Parameters DEF ChainInv, Counted
  <2>4. ASSUME outs # << >> \/ failures = 0 PROVE 2 * inputs - 1 \in Inside \cup Leaving'
    <3>1. CASE outs # << >>
      BY <2>2, <3>1
    <3>2. CASE outs = << >>
      <4>1. 2 * inputs - 1 \in 2 * inputs - left .. 2 * inputs - 1
        BY <1>2, <2>3
      <4>2. QED
        BY <1>6, <2>2, <2>4, <3>2, <4>1
    <3>3. QED
      BY <3>1, <3>2
  <2>5. \A e \in 2 * inputs - left' .. 2 * inputs - 1 : e = 2 * inputs - 1
    BY <2>3
  <2>6. QED
    BY <1>4, <2>2, <2>4, <2>5
<1>14. Flowing'
  <2>1. Some' = Some
    BY <1>1, <1>4 DEF Some
  <2>2. QED
    BY <1>1, <1>2, <2>1, StillFlowing DEF ChainInv
<1>15. QED
  BY <1>1, <1>2, <1>5, <1>6, <1>8, <1>10, <1>11, <1>12, <1>13, <1>14 DEF ChainInv

(* A drain call gives the caller what is pending, or has nothing for it.   *)
LEMMA DrainReturnsStep ==
  ASSUME ChainInv, DrainReturns
  PROVE  /\ ChainInv' /\ Inside' = Inside
         /\ \/ /\ pendingOut # << >> /\ drainEnded' = drainEnded
               /\ \E t : Took(t)
            \/ /\ pendingOut = << >> /\ put' = put /\ Leaving' = Leaving
               /\ drainEnded' = (left = MaxReturn)
<1>1. /\ at = "return" /\ drainAsked
      /\ parameters' = parameters /\ inputs' = inputs /\ failures' = failures /\ missed' = missed
      /\ stage' = stage /\ sources' = sources /\ helper' = helper /\ stored' = stored
      /\ ring' = ring /\ slot' = slot /\ outs' = outs
      /\ frame' = frame /\ second' = second /\ drainAt' = drainAt /\ drained' = drained
      /\ drainAsked' = drainAsked
      /\ \/ /\ pendingOut # << >> /\ left > 0 /\ put' = Append(put, ring[Head(pendingOut)])
            /\ pendingOut' = Tail(pendingOut) /\ left' = left - 1 /\ at' = at /\ drainEnded' = drainEnded
         \/ /\ ~ (pendingOut # << >> /\ left > 0) /\ at' = "idle" /\ drainEnded' = (left = MaxReturn)
            /\ put' = put /\ pendingOut' = pendingOut /\ left' = left
  BY DEF DrainReturns, caches, Taken
<1>2. /\ at \in Rest /\ frame = Tick /\ second = Tick /\ ~ drainEnded
      /\ "return" \in Places /\ "idle" \in Places /\ "idle" \in Rest /\ "return" \in Rest
      /\ left \in 0 .. Most(2, MaxReturn) /\ MaxReturn \in Nat \ {0} /\ left \in Nat
  BY <1>1, PosFacts, ChainAssumption DEF ChainInv, Control, Most
<1>3. /\ outs = << >> /\ pendingOut \in Seq(Slots) /\ ring \in [Slots -> Frames \cup {Tick}]
      /\ Len(pendingOut) <= 1 /\ (pendingOut # << >> => left = MaxReturn) /\ Out(outs) = {} /\ Out(outs)' = {}
  BY <1>1 DEF ChainInv, Buffers, Out
<1>4. /\ Inside' = Inside /\ Ordered(stage, at, frame)'
      /\ Before(ChainOf(stage, frame)', Under(second'))
  <2>1. Ordered(stage, at', Tick)
    BY OrderDropped DEF ChainInv, Conveyed
  <2>2. QED
    BY <1>1, <1>2, <2>1, InsideStill DEF ChainInv, Conveyed
<1>5. StagesOK' /\ CachesOK'
  BY <1>1, StagesSame, CachesSame DEF ChainInv
<1>6. ASSUME Leaving' \subseteq Leaving PROVE Conveyed' /\ Pushed'
  <2>1. Before(Leaving', Inside') /\ Inside' \cup Leaving' \subseteq 0 .. 2 * inputs' - 1
    BY <1>1, <1>4, <1>6 DEF ChainInv, Conveyed, Before
  <2>2. QED
    BY <1>1, <1>4, <2>1 DEF Conveyed, Pushed
<1>7. CASE pendingOut # << >>
  <2>1. /\ left = MaxReturn /\ left > 0 /\ put' = Append(put, ring[Head(pendingOut)])
        /\ pendingOut' = Tail(pendingOut) /\ left' = left - 1 /\ at' = at /\ drainEnded' = drainEnded
    BY <1>1, <1>2, <1>3, <1>7
  <2>2. PICK q, r, p : q = pendingOut /\ r = ring /\ p = pendingOut' /\ p = Tail(q)
    BY <2>1
  <2>3. /\ p \in Seq(Slots) /\ Len(p) = Len(q) - 1 /\ Head(q) \in Slots /\ Len(q) >= 1
        /\ OutOf(r, q) = OutOf(r, p) \cup {r[Head(q)]}
    <3>1. q \in Seq(Slots) /\ q # << >> /\ p = Tail(q)
      BY <1>3, <1>7, <2>2
    <3>2. QED
      BY <3>1, QueueTaken
  <2>4. p = << >>
    <3>1. Len(p) \in Nat /\ Len(q) <= 1 /\ Len(q) \in Nat
      BY <1>3, <2>2, <2>3, LenProperties
    <3>2. Len(p) = 0
      BY <2>3, <3>1
    <3>3. QED
      BY <2>3, <3>2, EmptySeq
  <2>5. PICK t : t = r[Head(q)]
    OBVIOUS
  <2>6. Out(pendingOut) = {t} /\ Out(pendingOut)' = {}
    <3>1. Out(pendingOut) = OutOf(r, q) /\ Out(pendingOut)' = OutOf(r, p)
      BY <1>1, <2>2 DEF Out, OutOf
    <3>2. OutOf(r, p) = {}
      BY <2>4 DEF OutOf
    <3>3. QED
      BY <2>3, <2>5, <3>1, <3>2
  <2>7. t \in Frames
    <3>1. Tick \notin Out(pendingOut)
      BY DEF ChainInv, Buffers
    <3>2. QED
      BY <1>3, <2>2, <2>3, <2>5, <2>6, <3>1
  <2>8. put' = Append(put, t) /\ put \in Seq(Frames)
    BY <2>1, <2>2, <2>5 DEF ChainInv, Counted
  <2>9. put' \in Seq(Frames) /\ put' # << >>
    BY <2>7, <2>8, AppendProperties
  <2>10. Leaving = {t} /\ Leaving' = {}
    BY <1>3, <2>6 DEF Leaving
  <2>11. Took(t)
    BY <2>7, <2>8, <2>9, <2>10 DEF Took, Before
  <2>12. Counted'
    BY <1>1, <2>9 DEF ChainInv, Counted
  <2>13. Control'
    <3>1. left' \in 0 .. Most(2, MaxReturn)
      BY <1>2, <2>1, ChainAssumption DEF Most
    <3>2. QED
      BY <1>1, <1>2, <2>1, <3>1 DEF ChainInv, Control
  <2>14. Buffers'
    <3>0. pendingOut' = << >> /\ outs' = << >>
      BY <1>1, <1>3, <2>2, <2>4
    <3>1. pendingOut' = << >> /\ Len(pendingOut') = 0 /\ outs' = << >> /\ Len(outs') = 0
      BY <3>0
    <3>2. left' \in Nat
      BY <1>2, <2>1
    <3>3. Tick \notin Out(outs)' /\ Tick \notin Out(pendingOut)'
      BY <1>3, <2>6
    <3>4. Len(outs') + Len(pendingOut') <= left' /\ Len(pendingOut') <= 1
      BY <3>1, <3>2
    <3>5. pendingOut' \in Seq(Slots) /\ at' = "return"
      BY <1>1, <2>1, <2>2, <2>3
    <3>6. QED
      BY <1>1, <3>1, <3>3, <3>4, <3>5 DEF ChainInv, Buffers
  <2>15. Conveyed' /\ Pushed'
    BY <1>6, <2>10
  <2>16. Flowing'
    <3>1. Some' = Some
      BY <1>7, <2>9 DEF Some
    <3>2. QED
      BY <1>1, <1>2, <3>1, StillFlowing DEF ChainInv
  <2>17. QED
    BY <1>4, <1>5, <1>7, <2>1, <2>11, <2>12, <2>13, <2>14, <2>15, <2>16 DEF ChainInv
<1>8. CASE pendingOut = << >>
  <2>1. /\ at' = "idle" /\ drainEnded' = (left = MaxReturn)
        /\ put' = put /\ pendingOut' = pendingOut /\ left' = left
    BY <1>1, <1>8
  <2>2. Leaving' = Leaving
    BY <1>1, <2>1 DEF Leaving, Out
  <2>3. Counted'
    BY <1>1, <2>1, CountedSame DEF ChainInv
  <2>4. Control'
    BY <1>1, <1>2, <2>1 DEF ChainInv, Control
  <2>5. Buffers'
    <3>1. /\ Len(outs') + Len(pendingOut') <= 1 /\ Len(pendingOut') <= 1 /\ outs' = << >> /\ pendingOut' = << >>
          /\ second' = Tick /\ at' # "return"
      BY <1>1, <1>2, <1>3, <1>8, <2>1
    <3>2. Tick \notin Out(outs)' /\ Tick \notin Out(pendingOut)'
      BY <3>1 DEF Out
    <3>3. QED
      BY <1>1, <3>1, <3>2 DEF ChainInv, Buffers
  <2>6. Conveyed' /\ Pushed'
    BY <1>6, <2>2
  <2>7. Flowing'
    <3>1. Some' = Some
      BY <1>1, <2>1 DEF Some
    <3>2. QED
      BY <1>1, <1>2, <3>1, StillFlowing DEF ChainInv
  <2>8. QED
    BY <1>4, <1>5, <1>8, <2>1, <2>2, <2>3, <2>4, <2>5, <2>6, <2>7 DEF ChainInv
<1>9. QED
  BY <1>7, <1>8

-----------------------------------------------------------------------------
(* The calls                                                               *)

(* Between calls nothing is under way and no frame is in a buffer.         *)
LEMMA IdleFacts ==
  ASSUME ChainInv, at = "idle"
  PROVE  /\ at \in Rest /\ frame = Tick /\ second = Tick /\ outs = << >> /\ pendingOut = << >>
         /\ Leaving = {} /\ Inside = ChainOf(stage, Tick) /\ Out(outs) = {} /\ Out(pendingOut) = {}
         /\ \A r : Ordered(stage, r, Tick)
<1>1. at \in Rest /\ frame = Tick /\ second = Tick
  BY PosFacts DEF ChainInv, Control
<1>2. outs = << >> /\ pendingOut = << >>
  BY DEF ChainInv, Buffers
<1>3. Out(outs) = {} /\ Out(pendingOut) = {} /\ Leaving = {}
  BY <1>2 DEF Out, Leaving
<1>4. Inside = ChainOf(stage, Tick)
  BY <1>1 DEF Inside, Under
<1>5. \A r : Ordered(stage, r, Tick)
  BY OrderDropped DEF ChainInv, Conveyed
<1>6. QED
  BY <1>1, <1>2, <1>3, <1>4, <1>5

(* A call leaves the buffers empty. *)
LEMMA IdleBuffers ==
  ASSUME ChainInv, at = "idle", ring' = ring, slot' = slot, outs' = outs, pendingOut' = pendingOut,
         left' \in Nat, at' = "return" \/ second' = Tick \/ ~ drainAsked
  PROVE  Buffers' /\ Leaving' = {}
<1>1. /\ outs' = << >> /\ pendingOut' = << >> /\ Len(outs') = 0 /\ Len(pendingOut') = 0
  BY IdleFacts
<1>2. /\ Out(outs)' = {} /\ Out(pendingOut)' = {} /\ Leaving' = {}
  BY <1>1 DEF Out, Leaving
<1>3. /\ Len(outs') + Len(pendingOut') <= (IF at' = "return" THEN left' ELSE IF second' # Tick THEN 0 ELSE 1)
      /\ Len(pendingOut') <= 1
  BY <1>1
<1>4. \A i, j \in 1 .. Len(outs') : i < j => ring'[outs'[i]] < ring'[outs'[j]]
  BY <1>1
<1>5. outs' \in Seq(Slots) /\ pendingOut' \in Seq(Slots)
  BY <1>1
<1>6. QED
  BY <1>1, <1>2, <1>3, <1>4, <1>5 DEF ChainInv, Buffers

(* The drain begins. *)
LEMMA AskStep ==
  ASSUME ChainInv, AskChain
  PROVE  ChainInv' /\ Inside' = Inside /\ Leaving' = Leaving
<1>1. /\ at = "idle" /\ (~ drainAsked \/ failures > 0) /\ drainAsked' = TRUE /\ drainEnded' = FALSE
      /\ parameters' = parameters /\ inputs' = inputs /\ failures' = failures /\ missed' = missed /\ put' = put
      /\ stage' = stage /\ sources' = sources /\ helper' = helper /\ stored' = stored
      /\ ring' = ring /\ slot' = slot /\ outs' = outs /\ pendingOut' = pendingOut
      /\ at' = at /\ frame' = frame /\ second' = second /\ left' = left /\ drainAt' = drainAt /\ drained' = drained
  BY DEF AskChain, caches, outputs
<1>2. /\ at \in Rest /\ frame = Tick /\ second = Tick /\ outs = << >> /\ pendingOut = << >>
      /\ Leaving = {} /\ \A r : Ordered(stage, r, Tick)
  BY <1>1, IdleFacts
<1>3. StagesOK' /\ CachesOK' /\ Counted'
  BY <1>1, StagesSame, CachesSame, CountedSame DEF ChainInv
<1>4. Control'
  BY <1>1, <1>2 DEF ChainInv, Control
<1>5. Buffers' /\ Leaving' = {}
  <2>1. left' \in Nat
    BY <1>1, ChainAssumption DEF ChainInv, Control, Most
  <2>2. QED
    BY <1>1, <1>2, <2>1, IdleBuffers
<1>6. Inside' = Inside /\ Conveyed' /\ Pushed'
  <2>1. Inside' = Inside /\ Leaving' = Leaving
    BY <1>1, <1>2, <1>5, InsideStill
  <2>2. Conveyed'
    BY <1>1, <2>1 DEF ChainInv, Conveyed
  <2>3. QED
    BY <1>1, <2>1, <2>2 DEF Pushed
<1>7. ASSUME failures = 0, NEW s \in Filters, Enabled(s)', Passed(stage, at, frame, Some, s)'
      PROVE  Primed(s)'
  <2>1. Enabled(s) /\ Some' = Some /\ ~ drainAsked /\ failures \in Int
    BY <1>1, <1>7, ParametersKept DEF Some, ChainInv, Counted
  <2>2. Passed(stage, at, frame, Some, s)
    BY <1>1, <1>7, <2>1
  <2>3. Primed(s)
    BY <1>7, <2>1, <2>2 DEF ChainInv, Flowing
  <2>4. drainAt' = "prefilter"
    BY <1>1, <2>1 DEF ChainInv, Control
  <2>5. ~ Pos[s] < Pos[drainAt']
    <3>1. Pos[s] >= 1 /\ Pos["prefilter"] = 1 /\ Pos[s] \in Int
      BY PosFacts
    <3>2. QED
      BY <2>4, <3>1
  <2>6. Delay(s)' = Delay(s) /\ DepthOf(s)' = DepthOf(s)
    BY <1>1, ParametersKept
  <2>7. QED
    BY <1>1, <2>1, <2>3, <2>5, <2>6 DEF Primed
<1>8. QED
  BY <1>1, <1>2, <1>3, <1>4, <1>5, <1>6, <1>7 DEF ChainInv, Flowing

(* A drain call. *)
LEMMA DrainStep ==
  ASSUME ChainInv, Drain
  PROVE  ChainInv' /\ Inside' = Inside /\ Leaving' = Leaving
<1>1. /\ at = "idle" /\ drainAsked /\ ~ drainEnded /\ frame' = Tick /\ left' = MaxReturn
      /\ at' = (IF pendingOut # << >> \/ drained THEN "return" ELSE drainAt)
      /\ parameters' = parameters /\ inputs' = inputs /\ failures' = failures /\ missed' = missed /\ put' = put
      /\ stage' = stage /\ sources' = sources /\ helper' = helper /\ stored' = stored
      /\ ring' = ring /\ slot' = slot /\ outs' = outs /\ pendingOut' = pendingOut
      /\ second' = second /\ drainAt' = drainAt /\ drained' = drained
      /\ drainAsked' = drainAsked /\ drainEnded' = drainEnded
  BY DEF Drain, caches, outputs
<1>2. /\ at \in Rest /\ frame = Tick /\ second = Tick /\ outs = << >> /\ pendingOut = << >>
      /\ Leaving = {} /\ \A r : Ordered(stage, r, Tick)
  BY <1>1, IdleFacts
<1>3. StagesOK' /\ CachesOK' /\ Counted'
  BY <1>1, StagesSame, CachesSame, CountedSame DEF ChainInv
<1>4. Control'
  <2>1. left' \in 0 .. Most(2, MaxReturn)
    BY <1>1, ChainAssumption DEF Most
  <2>2. CASE drained
    <3>1. at' = "return" /\ "return" \in Places /\ "return" \in Rest
      BY <1>1, <2>2, PosFacts
    <3>2. QED
      BY <1>1, <1>2, <2>1, <2>2, <3>1 DEF ChainInv, Control
  <2>3. CASE ~ drained
    <3>1. at' = drainAt /\ drainAt \in DOMAIN After
      BY <1>1, <1>2, <2>3 DEF ChainInv, Control
    <3>2. at' \in Places /\ at' \notin Rest /\ at' # "return" /\ at' # "idle"
      BY <3>1, PosFacts
    <3>3. QED
      BY <1>1, <1>2, <2>1, <2>3, <3>1, <3>2 DEF ChainInv, Control
  <2>4. QED
    BY <2>2, <2>3
<1>5. Buffers' /\ Leaving' = {}
  <2>1. left' \in Nat
    BY <1>1, ChainAssumption
  <2>2. QED
    BY <1>1, <1>2, <2>1, IdleBuffers
<1>6. Inside' = Inside /\ Conveyed' /\ Pushed'
  <2>1. Inside' = Inside /\ Leaving' = Leaving /\ ChainOf(stage, frame)' = ChainOf(stage, frame)
    BY <1>1, <1>2, <1>5, InsideStill
  <2>2. Ordered(stage, at, frame)'
    BY <1>1, <1>2
  <2>3. Conveyed'
    BY <1>1, <2>1, <2>2 DEF ChainInv, Conveyed
  <2>4. QED
    BY <1>1, <2>1, <2>3 DEF Pushed
<1>7. Flowing'
  <2>1. Some' = Some
    BY <1>1 DEF Some
  <2>2. QED
    BY <1>1, <1>2, <2>1, StillFlowing DEF ChainInv
<1>8. QED
  BY <1>2, <1>3, <1>4, <1>5, <1>6, <1>7 DEF ChainInv

(* An input makes room for itself in the cache. *)
LEMMA InputCached ==
  ASSUME ChainInv, inputs < parameters.inputs, parameters' = parameters, helper' = helper,
         stored' = stored, missed' = missed, sources' \in {sources, Cached(sources, SourceCache, inputs)}
  PROVE  CachesOK' /\ inputs \in Nat /\ inputs < MaxInputs /\ 2 * inputs \in Frames /\ 2 * inputs + 1 \in Frames
<1>1. inputs \in Nat /\ parameters.inputs \in 0 .. MaxInputs /\ MaxInputs \in Nat
  BY Parameters, ChainAssumption DEF ChainInv, Counted
<1>2. inputs < MaxInputs
  BY <1>1
<1>3. /\ inputs \in 0 .. 2 * MaxInputs - 1 /\ 2 * inputs \in 0 .. 2 * MaxInputs - 1
      /\ 2 * inputs + 1 \in 0 .. 2 * MaxInputs - 1
  BY <1>1, <1>2
<1>4. inputs \in Frames /\ 2 * inputs \in Frames /\ 2 * inputs + 1 \in Frames
  BY <1>3 DEF Frames
<1>5. sources \in Seq(Frames) /\ Len(sources) <= SourceCache
  BY DEF ChainInv, CachesOK
<1>0. PICK q \in Seq(Frames), i \in Frames : q = sources /\ i = inputs
  BY <1>4, <1>5
<1>6. PICK r : r = Cached(q, SourceCache, i)
  OBVIOUS
<1>7. r \in Seq(Frames) /\ Len(r) <= SourceCache
  <2>1. Frames \in SUBSET Int /\ SourceCache \in Nat \ {0} /\ Len(q) <= SourceCache
    BY <1>0, <1>5, FramesFacts, ChainAssumption
  <2>2. QED
    BY <1>6, <2>1, CachedTyped
<1>8. HelperDelay' = HelperDelay
  BY ParametersKept
<1>9. sources' \in Seq(Frames) /\ Len(sources') <= SourceCache
  BY <1>0, <1>5, <1>6, <1>7
<1>10. CachesOK'
  BY <1>8, <1>9 DEF ChainInv, CachesOK
<1>11. QED
  BY <1>1, <1>2, <1>4, <1>10

(* Bob makes two frames of an input. *)
LEMMA PushStep ==
  ASSUME ChainInv, Push
  PROVE  /\ ChainInv' /\ Leaving' = {} /\ Leaving = {}
         /\ Inside' = Inside \cup {2 * inputs, 2 * inputs + 1}
<1>1. /\ at = "idle" /\ ~ drainAsked /\ inputs < parameters.inputs /\ inputs' = inputs + 1
      /\ sources' = Cached(sources, SourceCache, inputs) /\ at' = "prefilter"
      /\ frame' = 2 * inputs /\ second' = 2 * inputs + 1 /\ left' = 2 /\ drainAt' = "prefilter"
      /\ drained' = FALSE
      /\ parameters' = parameters /\ failures' = failures /\ missed' = missed /\ put' = put
      /\ stage' = stage /\ helper' = helper /\ stored' = stored
      /\ ring' = ring /\ slot' = slot /\ outs' = outs /\ pendingOut' = pendingOut
      /\ drainAsked' = drainAsked /\ drainEnded' = drainEnded
  BY DEF Push, outputs
<1>2. /\ at \in Rest /\ frame = Tick /\ second = Tick /\ outs = << >> /\ pendingOut = << >>
      /\ Leaving = {} /\ Inside = ChainOf(stage, Tick) /\ \A r : Ordered(stage, r, Tick)
  BY <1>1, IdleFacts
<1>3. /\ CachesOK' /\ inputs \in Nat /\ inputs < MaxInputs
      /\ 2 * inputs \in Frames /\ 2 * inputs + 1 \in Frames
  BY <1>1, InputCached
<1>4. StagesOK' /\ Counted'
  <2>1. StagesOK'
    BY <1>1, StagesSame DEF ChainInv
  <2>2. inputs' \in 0 .. parameters'.inputs
    BY <1>1, <1>3, Parameters DEF ChainInv, Counted
  <2>3. QED
    BY <1>1, <2>1, <2>2 DEF ChainInv, Counted
<1>5. PICK f \in Frames, g \in Frames : f = 2 * inputs /\ g = 2 * inputs + 1
  BY <1>3
<1>6. f \in Nat /\ g \in Nat /\ f < g /\ f # Tick /\ g # Tick
  BY <1>3, <1>5, FramesFacts
<1>7. Control'
  <2>1. 2 \in 0 .. Most(2, MaxReturn)
    BY ChainAssumption DEF Most
  <2>2. /\ "prefilter" \in DOMAIN After /\ "prefilter" \in Places /\ "prefilter" \notin Rest
        /\ "prefilter" # "sink" /\ "prefilter" # "return"
    BY PosFacts
  <2>3. inputs' > 0
    BY <1>1, <1>3
  <2>4. QED
    BY <1>1, <1>5, <1>6, <2>1, <2>2, <2>3 DEF ChainInv, Control
<1>8. Buffers' /\ Leaving' = {}
  BY <1>1, IdleBuffers
<1>9. ChainOf(stage, frame)' = Inside \cup {f} /\ Under(second') = {g} /\ Inside' = Inside \cup {f, g}
  <2>1. ChainOf(stage, f) = ChainOf(stage, Tick) \cup {f}
    BY <1>6 DEF ChainOf, Under
  <2>2. Under(second') = {g} /\ Under(second)' = {g}
    BY <1>1, <1>5, <1>6 DEF Under
  <2>3. ChainOf(stage, frame)' = ChainOf(stage, f)
    BY <1>1, <1>5
  <2>4. QED
    BY <1>2, <2>1, <2>2, <2>3 DEF Inside
<1>10. Inside \subseteq 0 .. f - 1
  BY <1>5 DEF ChainInv, Conveyed
<1>11. Conveyed'
  <2>1. Ordered(stage, at', f)
    <3>1. Before(Inside, {f})
      BY <1>6, <1>10 DEF Before
    <3>2. Before(ChainOf(stage, Tick), {f}) /\ Ordered(stage, at, Tick)
      BY <1>2, <3>1
    <3>3. Ordered(stage, "prefilter", f)
      BY <3>2, OrderEnters
    <3>4. QED
      BY <1>1, <3>3
  <2>2. Ordered(stage, at, frame)'
    BY <1>1, <1>5, <2>1
  <2>3. Before(ChainOf(stage, frame)', Under(second'))
    <3>1. \A e \in Inside \cup {f} : e < g
      BY <1>6, <1>10
    <3>2. Before(Inside \cup {f}, {g})
      BY <3>1 DEF Before
    <3>3. QED
      BY <1>9, <3>2
  <2>4. Before(Leaving', Inside')
    BY <1>8 DEF Before
  <2>5. Inside' \cup Leaving' \subseteq 0 .. 2 * inputs' - 1
    <3>1. 2 * inputs' - 1 = g
      BY <1>1, <1>3, <1>5
    <3>2. Inside \cup {f, g} \subseteq 0 .. g
      BY <1>6, <1>10
    <3>3. QED
      BY <1>8, <1>9, <3>1, <3>2
  <2>6. QED
    BY <2>2, <2>3, <2>4, <2>5 DEF Conveyed
<1>12. Pushed'
  <2>1. 2 * inputs' - left' = f /\ 2 * inputs' - 1 = g /\ g = f + 1
    BY <1>1, <1>3, <1>5
  <2>2. f .. g \subseteq {f, g}
    BY <1>6, <2>1
  <2>3. 2 * inputs' - left' .. 2 * inputs' - 1 \subseteq Inside' \cup Leaving'
    BY <1>9, <2>1, <2>2
  <2>4. outs' = << >> /\ at' \in Rest \cup {"prefilter"}
    BY <1>1, <1>2
  <2>5. QED
    BY <2>3, <2>4 DEF Pushed
<1>13. ASSUME failures = 0, NEW s \in Filters, Enabled(s)', Passed(stage, at, frame, Some, s)'
       PROVE  Primed(s)'
  <2>1. Enabled(s) /\ Some' = Some
    BY <1>1, <1>13, ParametersKept DEF Some
  <2>2. Passed(stage, "prefilter", f, Some, s)
    BY <1>1, <1>5, <1>13, <2>1
  <2>3. Passed(stage, at, Tick, Some, s)
    BY <2>2, PassedEnters
  <2>4. Primed(s)
    BY <1>2, <1>13, <2>1, <2>3 DEF ChainInv, Flowing
  <2>5. drainAt' = drainAt
    BY <1>1 DEF ChainInv, Control
  <2>6. QED
    BY <1>1, <2>4, <2>5, PrimedKept
<1>14. Flowing'
  BY <1>1, <1>13 DEF Flowing
<1>15. QED
  BY <1>2, <1>3, <1>4, <1>5, <1>7, <1>8, <1>9, <1>11, <1>12, <1>14 DEF ChainInv

-----------------------------------------------------------------------------
(* The failures                                                            *)

(* A step has failed: nothing depends on what the stages are full of.      *)
LEMMA FailsCounted ==
  ASSUME Counted, MayFail, failures' = failures + 1, parameters' = parameters, put' = put,
         inputs' \in 0 .. parameters.inputs
  PROVE  Counted' /\ Flowing' /\ failures' > 0
<1>1. failures \in 0 .. MaxFailures /\ failures < MaxFailures /\ MaxFailures \in Nat
  BY ChainAssumption DEF Counted, MayFail
<1>2. failures' \in 0 .. MaxFailures /\ failures' > 0 /\ failures' # 0
  BY <1>1
<1>3. QED
  BY <1>2 DEF Counted, Flowing

(* An input fails: its frames are not in the chain. *)
LEMMA InputFailsStep ==
  ASSUME ChainInv, InputFails
  PROVE  ChainInv' /\ Inside' = Inside /\ Leaving' = {} /\ Leaving = {} /\ failures' > 0
<1>1. /\ at = "idle" /\ ~ drainAsked /\ MayFail /\ inputs < parameters.inputs /\ inputs' = inputs + 1
      /\ sources' \in {sources, Cached(sources, SourceCache, inputs)} /\ failures' = failures + 1
      /\ at' = "return" /\ left' = 2 /\ drainAt' = "prefilter" /\ drained' = FALSE
      /\ parameters' = parameters /\ missed' = missed /\ put' = put
      /\ stage' = stage /\ helper' = helper /\ stored' = stored
      /\ ring' = ring /\ slot' = slot /\ outs' = outs /\ pendingOut' = pendingOut
      /\ frame' = frame /\ second' = second /\ drainAsked' = drainAsked /\ drainEnded' = drainEnded
  BY DEF InputFails, outputs
<1>2. /\ at \in Rest /\ frame = Tick /\ second = Tick /\ outs = << >> /\ pendingOut = << >>
      /\ Leaving = {} /\ \A r : Ordered(stage, r, Tick)
  BY <1>1, IdleFacts
<1>3. CachesOK' /\ inputs \in Nat /\ inputs < MaxInputs
  BY <1>1, InputCached
<1>4. StagesOK' /\ Counted' /\ Flowing' /\ failures' > 0
  <2>1. inputs' \in 0 .. parameters.inputs
    BY <1>1, <1>3, Parameters DEF ChainInv, Counted
  <2>2. QED
    BY <1>1, <2>1, StagesSame, FailsCounted DEF ChainInv
<1>5. Control'
  <2>1. 2 \in 0 .. Most(2, MaxReturn)
    BY ChainAssumption DEF Most
  <2>2. /\ "prefilter" \in DOMAIN After /\ "prefilter" # "sink" /\ "return" \in Rest /\ "return" \in Places
        /\ "return" # "idle"
    BY PosFacts
  <2>3. inputs' > 0 /\ left' \in 1 .. 2
    BY <1>1, <1>3
  <2>4. QED
    BY <1>1, <1>2, <2>1, <2>2, <2>3 DEF ChainInv, Control
<1>6. Buffers' /\ Leaving' = {}
  BY <1>1, IdleBuffers
<1>7. /\ Inside' = Inside /\ ChainOf(stage, frame)' = ChainOf(stage, frame)
      /\ Under(second') = Under(second)
  BY <1>1, InsideStill
<1>8. Conveyed'
  <2>1. Ordered(stage, at, frame)'
    BY <1>1, <1>2
  <2>2. Inside \subseteq 0 .. 2 * inputs - 1 /\ 2 * inputs' - 1 = 2 * inputs + 1
    BY <1>1, <1>3 DEF ChainInv, Conveyed
  <2>3. Inside' \cup Leaving' \subseteq 0 .. 2 * inputs' - 1
    BY <1>3, <1>6, <1>7, <2>2
  <2>4. QED
    BY <1>6, <1>7, <2>1, <2>3 DEF ChainInv, Conveyed, Before
<1>9. Pushed'
  <2>1. outs' = << >> /\ failures' # 0 /\ at' = "return" /\ "return" \in Rest
    BY <1>1, <1>2, <1>4, PosFacts
  <2>2. QED
    BY <2>1 DEF Pushed
<1>10. QED
  BY <1>2, <1>3, <1>4, <1>5, <1>6, <1>7, <1>8, <1>9 DEF ChainInv

(* A call breaks off, and the chain has no frame that it had not.          *)
LEMMA BreaksOff ==
  ASSUME ChainInv, MayFail, at \in DOMAIN After \cup {"sink"}, CallFails, inputs' = inputs,
         parameters' = parameters, put' = put, ring' = ring, slot' \in Slots, pendingOut' = pendingOut,
         StagesOK', CachesOK', \A r : Ordered(stage', r, Tick),
         ChainOf(stage', Tick) \subseteq ChainOf(stage, frame)
  PROVE  ChainInv' /\ Inside' \subseteq Inside /\ Leaving' \subseteq Leaving /\ failures' > 0
<1>1. /\ failures' = failures + 1 /\ at' = (IF drainAsked THEN "idle" ELSE "return")
      /\ frame' = Tick /\ second' = Tick /\ outs' = << >> /\ drainAsked' = drainAsked
  BY DEF CallFails
<1>2. at \in Places /\ at \notin Rest /\ at # "return" /\ "return" \in Rest /\ "idle" \in Rest
  BY PosFacts
<1>3. pendingOut' = << >>
  BY <1>2 DEF ChainInv, Buffers
<1>4. Control' /\ Buffers'
  BY ControlFails DEF ChainInv
<1>5. Counted' /\ Flowing' /\ failures' > 0
  BY <1>1, FailsCounted DEF ChainInv, Counted
<1>6. Leaving' = {}
  BY <1>1, <1>3 DEF Leaving, Out
<1>7. ChainOf(stage, frame)' = ChainOf(stage', Tick) /\ Under(second') = {} /\ Under(second)' = {}
  BY <1>1 DEF Under
<1>8. Inside' \subseteq Inside
  BY <1>7 DEF Inside
<1>9. Conveyed'
  <2>1. Ordered(stage, at, frame)'
    BY <1>1
  <2>2. Before(ChainOf(stage, frame)', Under(second'))
    BY <1>7 DEF Before
  <2>3. Before(Leaving', Inside') /\ Inside' \cup Leaving' \subseteq 0 .. 2 * inputs' - 1
    BY <1>6, <1>8 DEF ChainInv, Conveyed, Before
  <2>4. QED
    BY <2>1, <2>2, <2>3 DEF Conveyed
<1>10. Pushed'
  <2>1. outs' = << >> /\ failures' # 0 /\ at' \in Rest /\ (at' = "idle" \/ at' = "return")
    BY <1>1, <1>2, <1>5
  <2>2. QED
    BY <2>1 DEF Pushed
<1>11. QED
  BY <1>4, <1>5, <1>6, <1>8, <1>9, <1>10 DEF ChainInv

(* A stage that holds frames back fails. *)
LEMMA FilterFailsStep ==
  ASSUME ChainInv, FilterFails
  PROVE  ChainInv' /\ Inside' \subseteq Inside /\ Leaving' \subseteq Leaving /\ failures' > 0
<1>1. /\ at \in Filters /\ Enabled(at) /\ MayFail /\ CallFails /\ at \in DOMAIN After \cup {"sink"}
      /\ parameters' = parameters /\ inputs' = inputs /\ put' = put /\ missed' = missed
      /\ sources' = sources /\ helper' = helper /\ stored' = stored
      /\ ring' = ring /\ slot' = slot /\ pendingOut' = pendingOut
  BY PosFacts DEF FilterFails
<1>2. PICK x \in LeftByFailure(at) : stage' = [stage EXCEPT ![at] = x]
  BY DEF FilterFails
<1>3. parameters \in Settings /\ frame \in Frames \cup {Tick} /\ slot \in Slots
  BY DEF ChainInv, Counted, Control, Buffers
<1>4. /\ x \in Holding(Frames) /\ Len(x.hold) <= Delay(at) /\ Len(x.pending) <= DepthOf(at)
      /\ InOrder(x) /\ Leaves(InStage(stage[at]) \cup Under(frame), x)
  BY <1>1, <1>2, <1>3, FailureTyped, FailureOrdered DEF ChainInv
<1>5. StagesOK' /\ stage'[at] = x /\ OnlyOne(stage, stage', at)
  BY <1>1, <1>2, <1>4, StagesKept DEF ChainInv
<1>6. PICK st2, s : st2 = stage' /\ s = at
  OBVIOUS
<1>7. /\ s \in Filters /\ st2[s] = x /\ OnlyOne(stage, st2, s) /\ Ordered(stage, s, frame)
      /\ InStage(x) \subseteq InStage(stage[s]) \cup Under(frame)
      /\ Under(Tick) \subseteq InStage(stage[s]) \cup Under(frame)
  BY <1>1, <1>4, <1>5, <1>6 DEF ChainInv, Conveyed, Leaves, Under
<1>8. (\A r : Ordered(st2, r, Tick)) /\ ChainOf(st2, Tick) \subseteq ChainOf(stage, frame)
  BY <1>4, <1>7, OrderLeft, ChainLeft
<1>9. CachesOK'
  BY <1>1, CachesSame DEF ChainInv
<1>10. QED
  BY <1>1, <1>3, <1>5, <1>6, <1>8, <1>9, BreaksOff

(* EDI or one of its helpers fails. *)
LEMMA EdiFailsStep ==
  ASSUME ChainInv, EdiFails
  PROVE  ChainInv' /\ Inside' \subseteq Inside /\ Leaving' \subseteq Leaving /\ failures' > 0
<1>1. /\ at \in DOMAIN After \cup {"sink"} /\ MayFail /\ CallFails
      /\ parameters' = parameters /\ inputs' = inputs /\ put' = put /\ missed' = missed /\ stage' = stage
      /\ sources' = sources /\ stored' = stored
      /\ ring' = ring /\ slot' = slot /\ pendingOut' = pendingOut
  BY PosFacts DEF EdiFails
<1>2. PICK hs : helper' = [h \in Helpers |-> IF h \in hs THEN Built(Turn(h)) ELSE helper[h]]
  BY DEF EdiFails
<1>3. parameters \in Settings /\ frame \in Frames \cup {Tick} /\ slot \in Slots
  BY DEF ChainInv, Counted, Control, Buffers
<1>4. ASSUME NEW h \in Helpers
      PROVE  helper'[h] \in Helping /\ Len(helper'[h].hold) <= HelperDelay /\ Len(helper'[h].cache) <= CompCache
  <2>1. PICK x : x = Turn(h)
    OBVIOUS
  <2>2. Built(x) \in Helping /\ Len(Built(x).cache) <= CompCache /\ Len(Built(x).hold) <= HelperDelay
    BY <1>3, <2>1, BuiltTyped DEF ChainInv
  <2>3. helper'[h] = (IF h \in hs THEN Built(x) ELSE helper[h])
    BY <1>2, <2>1
  <2>4. QED
    BY <2>2, <2>3 DEF ChainInv, CachesOK
<1>5. helper' \in [Helpers -> Helping]
  BY <1>2, <1>4
<1>6. CachesOK' /\ StagesOK'
  <2>1. HelperDelay' = HelperDelay
    BY <1>1, ParametersKept
  <2>2. CachesOK'
    BY <1>1, <1>4, <1>5, <2>1 DEF ChainInv, CachesOK
  <2>3. QED
    BY <1>1, <2>2, StagesSame DEF ChainInv
<1>7. (\A r : Ordered(stage, r, Tick)) /\ ChainOf(stage, Tick) \subseteq ChainOf(stage, frame)
  BY OrderDropped DEF ChainInv, Conveyed, ChainOf, Under
<1>8. QED
  BY <1>1, <1>3, <1>6, <1>7, BreaksOff

(* The retouch fails, or the copy to the buffer. *)
LEMMA StepFailsStep ==
  ASSUME ChainInv, StepFails
  PROVE  ChainInv' /\ Inside' \subseteq Inside /\ Leaving' \subseteq Leaving /\ failures' > 0
<1>1. /\ at \in DOMAIN After \cup {"sink"} /\ MayFail /\ CallFails
      /\ parameters' = parameters /\ inputs' = inputs /\ put' = put /\ missed' = missed /\ stage' = stage
      /\ sources' = sources /\ stored' = stored /\ helper' = helper
      /\ ring' = ring /\ pendingOut' = pendingOut /\ (Advance \/ slot' = slot)
  BY PosFacts DEF StepFails, caches
<1>2. slot' \in Slots
  <2>1. slot \in Slots
    BY DEF ChainInv, Buffers
  <2>2. QED
    BY <1>1, <2>1, NextSlot DEF Advance
<1>3. CachesOK' /\ StagesOK'
  BY <1>1, CachesSame, StagesSame DEF ChainInv
<1>4. (\A r : Ordered(stage, r, Tick)) /\ ChainOf(stage, Tick) \subseteq ChainOf(stage, frame)
  BY OrderDropped DEF ChainInv, Conveyed, ChainOf, Under
<1>5. QED
  BY <1>1, <1>2, <1>3, <1>4, BreaksOff

-----------------------------------------------------------------------------
(* The invariant                                                           *)

(* The filter begins in it. *)
LEMMA ChainInitInv == ChainInit => ChainInv
<1> SUFFICES ASSUME ChainInit PROVE ChainInv
  OBVIOUS
<1>1. /\ parameters \in Settings /\ inputs = 0 /\ sources = << >> /\ stage = [s \in Filters |-> EmptyStage]
      /\ helper = [h \in Helpers |-> [hold |-> << >>, cache |-> << >>, bound |-> Tick]]
      /\ stored = {} /\ ring = [b \in 0 .. OutBufs - 1 |-> Tick] /\ slot = 0 /\ pendingOut = << >>
      /\ at = "idle" /\ frame = Tick /\ second = Tick /\ outs = << >> /\ left = 0
      /\ drainAt = "prefilter" /\ drained = FALSE /\ drainAsked = FALSE /\ drainEnded = FALSE
      /\ put = << >> /\ missed = [n \in Needs |-> {}] /\ failures = 0
  BY DEF ChainInit
<1>2. << >> \in Seq(Frames) /\ Len(<< >>) = 0 /\ << >> \in Seq(Slots)
  OBVIOUS
<1>3. Elems(<< >>) = {} /\ Sorted(<< >>)
  BY <1>2 DEF Elems, Sorted
<1>4. /\ EmptyStage \in Holding(Frames) /\ Len(EmptyStage.hold) = 0 /\ Len(EmptyStage.pending) = 0
      /\ InOrder(EmptyStage) /\ InStage(EmptyStage) = {}
  BY <1>2, <1>3 DEF EmptyStage, Holding, InOrder, Before, InStage, Elems
<1>5. /\ \A s \in Filters : Delay(s) \in Nat /\ DepthOf(s) \in Nat
      /\ HelperDelay \in Nat /\ parameters.inputs \in 0 .. MaxInputs
  BY <1>1, Parameters
<1>6. StagesOK
  BY <1>1, <1>4, <1>5 DEF StagesOK
<1>7. CachesOK
  <2>1. [hold |-> << >>, cache |-> << >>, bound |-> Tick] \in Helping
    BY <1>2 DEF Helping
  <2>2. helper \in [Helpers -> Helping]
    BY <1>1, <2>1
  <2>3. \A h \in Helpers : Len(helper[h].hold) <= HelperDelay /\ Len(helper[h].cache) <= CompCache
    BY <1>1, <1>2, <1>5, ChainAssumption
  <2>4. QED
    BY <1>1, <1>2, <2>2, <2>3, ChainAssumption DEF CachesOK
<1>8. Counted
  BY <1>1, <1>2, <1>5, ChainAssumption DEF Counted
<1>9. Control
  <2>1. 0 \in 0 .. Most(2, MaxReturn)
    BY ChainAssumption DEF Most
  <2>2. /\ "idle" \in Places /\ "idle" \in Rest /\ "prefilter" \in DOMAIN After /\ "prefilter" # "sink"
    BY PosFacts
  <2>3. QED
    BY <1>1, <2>1, <2>2 DEF Control
<1>10. Buffers
  <2>1. Out(outs) = {} /\ Out(pendingOut) = {}
    BY <1>1 DEF Out
  <2>2. ring \in [Slots -> Frames \cup {Tick}] /\ slot \in Slots
    BY <1>1, ChainAssumption DEF Slots
  <2>3. Len(outs) = 0 /\ Len(pendingOut) = 0
    BY <1>1
  <2>4. QED
    BY <1>1, <1>2, <2>1, <2>2, <2>3 DEF Buffers
<1>11. \A s \in Filters : stage[s] = EmptyStage
  BY <1>1
<1>12. Inside = {} /\ ChainOf(stage, frame) = {} /\ Under(second) = {} /\ Leaving = {}
  BY <1>1, <1>4, <1>11 DEF Inside, ChainOf, Under, Leaving, Out
<1>13. Conveyed
  BY <1>1, <1>4, <1>11, <1>12 DEF Conveyed, Ordered, Before
<1>14. Flowing
  <2>1. \A s \in Filters : ~ Passed(stage, at, frame, Some, s)
    BY <1>1, <1>4, <1>11 DEF Passed, Some
  <2>2. QED
    BY <2>1 DEF Flowing
<1>15. Pushed
  BY <1>1 DEF Pushed
<1>16. QED
  BY <1>6, <1>7, <1>8, <1>9, <1>10, <1>13, <1>14, <1>15 DEF ChainInv

(* Nothing changes. *)
LEMMA ChainStutters ==
  ASSUME ChainInv, UNCHANGED chainVars
  PROVE  ChainInv' /\ Inside' = Inside /\ Leaving' = Leaving
<1>1. /\ parameters' = parameters /\ inputs' = inputs /\ failures' = failures /\ put' = put
      /\ stage' = stage /\ sources' = sources /\ helper' = helper /\ stored' = stored /\ missed' = missed
      /\ BuffersSame /\ UNCHANGED control
  BY DEF chainVars, caches, outputs, BuffersSame
<1>2. /\ StagesOK' /\ Control' /\ Buffers' /\ Conveyed' /\ Pushed' /\ Flowing'
      /\ Inside' = Inside /\ Leaving' = Leaving
  BY <1>1, IdleStep DEF ChainInv
<1>3. CachesOK' /\ Counted'
  BY <1>1, CachesSame, CountedSame DEF ChainInv
<1>4. QED
  BY <1>2, <1>3 DEF ChainInv

(* Every step keeps it. *)
LEMMA ChainNextInv ==
  ASSUME ChainInv, [ChainNext]_chainVars
  PROVE  ChainInv'
<1>1. CASE UNCHANGED chainVars
  BY <1>1, ChainStutters
<1>2. CASE RunStage
  BY <1>2, PassThroughStep, RunTemporalStep, EdiStep, RetouchStep, SinkStep, DrainReturnsStep, DrainStep
     DEF RunStage
<1>3. CASE Push \/ PushReturns \/ AskChain
  BY <1>3, PushStep, PushReturnsStep, AskStep
<1>4. CASE InputFails \/ FilterFails \/ EdiFails \/ StepFails
  BY <1>4, InputFailsStep, FilterFailsStep, EdiFailsStep, StepFailsStep
<1>5. QED
  BY <1>1, <1>2, <1>3, <1>4 DEF ChainNext

(* The invariant: the stages, the helpers and the caches keep within what  *)
(* they are made for; the frames are in order along the chain, those in    *)
(* the buffers before them, and no buffer has two frames the caller is     *)
(* still to get; and without a failure a stage that has put a frame out    *)
(* stays full until the drain empties it.                                  *)
THEOREM ChainInvariant == ChainSpec => []ChainInv
<1>1. ChainInit => ChainInv
  BY ChainInitInv
<1>2. ChainInv /\ [ChainNext]_chainVars => ChainInv'
  BY ChainNextInv
<1>3. QED
  BY <1>1, <1>2, PTL DEF ChainSpec

(* Every variable of the filter has its type, and no stage, no helper and  *)
(* no cache outgrows what it is made for.                                  *)
THEOREM ChainTypeCorrect == ChainSpec => []ChainTypeOK
<1>1. ChainInv => ChainTypeOK
  <2> SUFFICES ASSUME ChainInv PROVE ChainTypeOK
    OBVIOUS
  <2>1. \A s \in Filters :
          /\ stage[s].hold \in Seq(Frames) /\ Len(stage[s].hold) <= Delay(s)
          /\ stage[s].pending \in Seq(Frames) /\ Len(stage[s].pending) <= DepthOf(s)
    BY DEF ChainInv, StagesOK, Holding
  <2>2. \A h \in Helpers :
          /\ helper[h].hold \in Seq(Frames) /\ Len(helper[h].hold) <= HelperDelay
          /\ helper[h].cache \in Seq(Frames) /\ Len(helper[h].cache) <= CompCache
          /\ helper[h].bound \in Frames \cup {Tick}
    BY DEF ChainInv, CachesOK, Helping
  <2>3. \A e \in stored : e.frame \in Frames /\ e.back \subseteq Frames /\ e.forw \subseteq Frames
    BY DEF ChainInv, CachesOK, Envelopes
  <2>4. /\ sources \in Seq(Frames) /\ Len(sources) <= SourceCache
        /\ \A n \in Needs : missed[n] \subseteq Frames
    BY DEF ChainInv, CachesOK
  <2>5. /\ ring \in [0 .. OutBufs - 1 -> Frames \cup {Tick}] /\ slot \in 0 .. OutBufs - 1
        /\ pendingOut \in Seq(0 .. OutBufs - 1) /\ outs \in Seq(0 .. OutBufs - 1)
    BY DEF ChainInv, Buffers, Slots
  <2>6. /\ at \in DOMAIN After \cup {"sink", "return", "idle"}
        /\ drainAt \in DOMAIN After \cup {"sink"}
        /\ frame \in Frames \cup {Tick} /\ second \in Frames \cup {Tick}
        /\ left \in 0 .. Most(2, MaxReturn)
        /\ drained \in BOOLEAN /\ drainAsked \in BOOLEAN /\ drainEnded \in BOOLEAN
    BY DEF ChainInv, Control, Places
  <2>7. /\ parameters \in Settings /\ inputs \in 0 .. parameters.inputs /\ put \in Seq(Frames)
        /\ failures \in 0 .. MaxFailures
    BY DEF ChainInv, Counted
  <2>8. QED
    BY <2>1, <2>2, <2>3, <2>4, <2>5, <2>6, <2>7 DEF ChainTypeOK
<1>2. QED
  BY <1>1, ChainInvariant, PTL

(* Between calls, failed ones included, m_pendingOutputFrames is empty: no *)
(* frame is left for a later call to hand out.                             *)
THEOREM NothingPendingCorrect == ChainSpec => []NothingPending
<1>1. ChainInv => NothingPending
  BY DEF ChainInv, Buffers, NothingPending
<1>2. QED
  BY <1>1, ChainInvariant, PTL

-----------------------------------------------------------------------------
(* How a drain ends                                                        *)

(* The drain has nothing to put out only when it is behind the last stage. *)
Ending == drainAsked /\ at = "return" /\ left = MaxReturn /\ pendingOut = << >> => drained

(* The call goes on.                                                       *)
GoesOn == /\ at # "idle" /\ at' # "idle" /\ left' = left
          /\ drainAsked' = drainAsked /\ drainEnded' = drainEnded

(* A step from one stage to the next. *)
LEMMA StageMoves ==
  ASSUME ChainInv, at \in DOMAIN After \cup {"sink"},
         \/ at \in DOMAIN After /\ \E f : Goes(After[at], f)
         \/ CascadeEnds
         \/ at \in DOMAIN After /\ frame = Tick /\ StageDrained
         \/ UNCHANGED control
  PROVE  GoesOn /\ Ending'
<1>1. \A p \in DOMAIN After \cup {"sink"} : p # "idle" /\ p # "return"
  BY PosFacts
<1>2. at # "idle" /\ at # "return" /\ at \notin Rest
  BY <1>1, PosFacts
<1>3. drainAt \in DOMAIN After \cup {"sink"}
  BY DEF ChainInv, Control
<1>4. CASE at \in DOMAIN After /\ \E f : Goes(After[at], f)
  <2>1. PICK f : Goes(After[at], f)
    BY <1>4
  <2>2. After[at] # "idle" /\ After[at] # "return"
    BY <1>1, <1>4, PosFacts
  <2>3. QED
    BY <1>2, <2>1, <2>2 DEF Goes, GoesOn, Ending
<1>5. CASE CascadeEnds
  <2>1. /\ at' = (IF drainAsked THEN (IF pendingOut' = << >> THEN drainAt ELSE "return")
                  ELSE IF second # Tick THEN "prefilter" ELSE "return")
        /\ left' = left /\ drainAsked' = drainAsked /\ drainEnded' = drainEnded
    BY <1>5 DEF CascadeEnds
  <2>2. at' # "idle" /\ (drainAsked /\ pendingOut' = << >> => at' # "return")
    BY <1>1, <1>3, <2>1
  <2>3. QED
    BY <1>2, <2>1, <2>2 DEF GoesOn, Ending
<1>6. CASE at \in DOMAIN After /\ frame = Tick /\ StageDrained
  <2>1. drainAsked /\ at = drainAt
    BY <1>2, <1>6 DEF ChainInv, Control
  <2>2. /\ drainAt' = After[at] /\ at' = (IF drained' THEN "return" ELSE drainAt')
        /\ left' = left /\ drainAsked' = drainAsked /\ drainEnded' = drainEnded
    BY <1>6, <2>1 DEF StageDrained
  <2>3. After[at] # "idle" /\ After[at] # "return"
    BY <1>1, <1>6, PosFacts
  <2>4. QED
    BY <1>2, <2>2, <2>3 DEF GoesOn, Ending
<1>7. CASE UNCHANGED control
  BY <1>2, <1>7 DEF control, GoesOn, Ending
<1>8. QED
  BY <1>4, <1>5, <1>6, <1>7

(* A step of the stages leaves the pass as it is. *)
LEMMA StagesMove ==
  ASSUME ChainInv, PassThrough \/ RunTemporal \/ RunEdi \/ RunRetouch \/ Sink
  PROVE  /\ GoesOn /\ Ending' /\ Inside' \cup Leaving' = Inside \cup Leaving
         /\ inputs' = inputs /\ put' = put /\ failures' = failures
<1>1. /\ inputs' = inputs /\ put' = put /\ failures' = failures /\ at \in DOMAIN After \cup {"sink"}
  BY PosFacts DEF PassThrough, RunTemporal, RunEdi, RunRetouch, Sink
<1>2. \/ at \in DOMAIN After /\ \E f : Goes(After[at], f)
      \/ CascadeEnds
      \/ at \in DOMAIN After /\ frame = Tick /\ StageDrained
      \/ UNCHANGED control
  BY PosFacts DEF PassThrough, RunTemporal, RunEdi, RunRetouch, Sink
<1>3. GoesOn /\ Ending'
  BY <1>1, <1>2, StageMoves
<1>4. CASE Sink
  BY <1>1, <1>3, <1>4, SinkStep
<1>5. CASE PassThrough \/ RunTemporal \/ RunEdi \/ RunRetouch
  <2>1. Inside' = Inside /\ Leaving' = Leaving
    BY <1>5, PassThroughStep, RunTemporalStep, EdiStep, RetouchStep
  <2>2. QED
    BY <1>1, <1>3, <2>1
<1>6. QED
  BY <1>4, <1>5

LEMMA EndingNext ==
  ASSUME ChainInv, Ending, [ChainNext]_chainVars
  PROVE  Ending'
<1>1. CASE UNCHANGED chainVars
  <2>1. /\ drainAsked' = drainAsked /\ at' = at /\ left' = left /\ pendingOut' = pendingOut
        /\ drained' = drained
    BY <1>1 DEF chainVars, control, outputs
  <2>2. QED
    BY <2>1 DEF Ending
<1>2. CASE PassThrough \/ RunTemporal \/ RunEdi \/ RunRetouch \/ Sink
  BY <1>2, StagesMove
<1>3. CASE DrainReturns
  <2>1. \/ left' = left - 1 /\ left = MaxReturn
        \/ at' = "idle"
    BY <1>3 DEF DrainReturns, ChainInv, Buffers
  <2>2. QED
    BY <2>1, ChainAssumption DEF Ending
<1>4. CASE Drain
  <2>1. at = "idle" /\ pendingOut' = pendingOut /\ drained' = drained
        /\ at' = IF pendingOut # << >> \/ drained THEN "return" ELSE drainAt
    BY <1>4 DEF Drain, outputs
  <2>2. drainAt \in DOMAIN After \cup {"sink"}
    BY DEF ChainInv, Control
  <2>3. drainAt # "return"
    BY <2>2, PosFacts
  <2>4. QED
    BY <2>1, <2>3 DEF Ending
<1>5. CASE Push \/ PushReturns \/ InputFails
  BY <1>5 DEF Push, PushReturns, InputFails, Ending
<1>6. CASE AskChain
  BY <1>6 DEF AskChain, Ending
<1>7. CASE FilterFails \/ EdiFails \/ StepFails
  <2>1. CallFails
    BY <1>7 DEF FilterFails, EdiFails, StepFails
  <2>2. QED
    BY <2>1 DEF CallFails, Ending
<1>8. QED
  BY <1>1, <1>2, <1>3, <1>4, <1>5, <1>6, <1>7 DEF ChainNext, RunStage

-----------------------------------------------------------------------------
(* The pass the filter is                                                  *)

(* What RtgmDif's pass sees of a step.                                     *)
AsPassStep == [ChainAsPass!Next]_(ChainAsPass!vars)

(* The oldest of a set of frames is the least.                             *)
LEMMA OldestIsLeast ==
  ASSUME NEW S, S \subseteq Int, NEW k \in S, \A j \in S : k <= j
  PROVE  ChainAsPass!Oldest(S) = k
<1>1. \A m \in S : (\A j \in S : m <= j) => m = k
  OBVIOUS
<1>2. QED
  BY <1>1 DEF ChainAsPass!Oldest

(* The frames in the filter.                                               *)
LEMMA InChainIs == ChainInv => InChain = Inside \cup Leaving
<1> SUFFICES ASSUME ChainInv PROVE InChain = Inside \cup Leaving
  OBVIOUS
<1>1. DOMAIN outs = 1 .. Len(outs) /\ DOMAIN pendingOut = 1 .. Len(pendingOut)
  BY LenProperties DEF ChainInv, Buffers
<1>2. {frame, second} \ {Tick} = Under(frame) \cup Under(second)
  BY DEF Under
<1>3. Leaving = {ring[outs[i]] : i \in DOMAIN outs} \cup {ring[pendingOut[i]] : i \in DOMAIN pendingOut}
  BY <1>1 DEF Leaving, Out
<1>4. PICK U, X, Y :
        /\ U = UNION {InStage(stage[s]) : s \in Filters}
        /\ X = {ring[outs[i]] : i \in DOMAIN outs} /\ Y = {ring[pendingOut[i]] : i \in DOMAIN pendingOut}
  OBVIOUS
<1>5. InChain = U \cup ({frame, second} \ {Tick}) \cup X \cup Y
  BY <1>4 DEF InChain
<1>6. Inside = U \cup Under(frame) \cup Under(second)
  BY <1>4 DEF Inside, ChainOf
<1>7. Leaving = X \cup Y
  BY <1>3, <1>4
<1>8. QED
  BY <1>2, <1>5, <1>6, <1>7

(* What the pass sees of the filter: while a push runs those of its frames *)
(* that are still to be answered for do not count yet.                     *)
HeldAs ==
  LET C == Inside \cup Leaving IN
  /\ inputs \in Nat /\ inputs <= MaxInputs /\ C \subseteq 0 .. 2 * inputs - 1 /\ C \subseteq Int
  /\ drainAsked \/ at = "idle" => Given = 2 * inputs /\ HeldInChain = C
  /\ ~ drainAsked /\ at # "idle" =>
       /\ left \in 1 .. 2 /\ Given = 2 * inputs - left /\ Given \in Nat /\ Given < 2 * MaxInputs
       /\ HeldInChain = C \cap (0 .. Given - 1)

LEMMA HeldIs == ChainInv => HeldAs
<1> SUFFICES ASSUME ChainInv PROVE HeldAs
  OBVIOUS
<1>1. inputs \in Nat /\ inputs <= MaxInputs /\ MaxInputs \in Nat
  BY Parameters, ChainAssumption DEF ChainInv, Counted
<1>2. PICK C : C = Inside \cup Leaving
  OBVIOUS
<1>3. C \subseteq 0 .. 2 * inputs - 1 /\ HeldInChain = C \cap (0 .. Given - 1)
  BY <1>2, InChainIs DEF ChainInv, Conveyed, HeldInChain
<1>4. ASSUME drainAsked \/ at = "idle" PROVE Given = 2 * inputs /\ HeldInChain = C
  <2>1. Given = 2 * inputs
    BY <1>1, <1>4 DEF Given
  <2>2. QED
    BY <1>3, <2>1
<1>5. ASSUME ~ drainAsked, at # "idle"
      PROVE  left \in 1 .. 2 /\ Given = 2 * inputs - left /\ Given \in Nat /\ Given < 2 * MaxInputs
  <2>1. left \in 1 .. 2 /\ inputs > 0
    BY <1>5 DEF ChainInv, Control, Rest
  <2>2. Given = 2 * inputs - left
    BY <1>5 DEF Given
  <2>3. QED
    BY <1>1, <2>1, <2>2
<1>6. C \subseteq Int
  BY <1>3
<1>7. QED
  BY <1>1, <1>2, <1>3, <1>4, <1>5, <1>6 DEF HeldAs

(* The same of the next state. *)
LEMMA HeldIsNext == ChainInv' => HeldAs'
BY HeldIs, PTL

(* A step of which the pass sees nothing. *)
LEMMA UnchangedSeen ==
  ASSUME Given' = Given, HeldInChain' = HeldInChain, put' = put, drainAsked' = drainAsked,
         drainEnded' = drainEnded, (failures > 0)' = (failures > 0)
  PROVE  AsPassStep
BY DEF AsPassStep, ChainAsPass!vars

(* A step within a call. *)
LEMMA WithinCall ==
  ASSUME ChainInv, ChainInv', Inside' \cup Leaving' = Inside \cup Leaving,
         inputs' = inputs, put' = put, failures' = failures, drainAsked' = drainAsked, drainEnded' = drainEnded,
         drainAsked \/ (at # "idle" /\ at' # "idle" /\ left' = left)
  PROVE  AsPassStep
<1>1. Given' = Given
  BY DEF Given
<1>2. PICK C : C = Inside \cup Leaving /\ C = Inside' \cup Leaving'
  OBVIOUS
<1>3. HeldInChain' = HeldInChain
  <2>1. InChain = C
    BY <1>2, InChainIs
  <2>2. InChain' = C
    <3>1. ChainInv' => (InChain = Inside \cup Leaving)'
      BY InChainIs, PTL
    <3>2. QED
      BY <1>2, <3>1
  <2>3. QED
    BY <1>1, <2>1, <2>2 DEF HeldInChain
<1>4. QED
  BY <1>1, <1>3, UnchangedSeen

(* Bob's frames count when their calls return. *)
LEMMA PushPasses ==
  ASSUME ChainInv, ChainInv', Push
  PROVE  AsPassStep
<1>1. /\ at = "idle" /\ ~ drainAsked /\ inputs' = inputs + 1 /\ at' = "prefilter" /\ left' = 2
      /\ put' = put /\ failures' = failures /\ drainAsked' = drainAsked /\ drainEnded' = drainEnded
  BY DEF Push
<1>2. PICK C : C = Inside \cup Leaving
  OBVIOUS
<1>3. Inside' \cup Leaving' = C \cup {2 * inputs, 2 * inputs + 1}
  BY <1>2, PushStep
<1>4. inputs \in Nat /\ C \subseteq 0 .. 2 * inputs - 1 /\ Given = 2 * inputs /\ HeldInChain = C
  BY <1>1, <1>2, HeldIs DEF HeldAs
<1>5. /\ Given' = 2 * inputs' - left'
      /\ HeldInChain' = (Inside' \cup Leaving') \cap (0 .. Given' - 1)
  BY <1>1, HeldIsNext DEF HeldAs
<1>6. Given' = Given
  BY <1>1, <1>4, <1>5
<1>7. HeldInChain' = HeldInChain
  <2>1. HeldInChain' = (C \cup {2 * inputs, 2 * inputs + 1}) \cap (0 .. 2 * inputs - 1)
    BY <1>3, <1>4, <1>5, <1>6
  <2>2. 2 * inputs \notin 0 .. 2 * inputs - 1 /\ 2 * inputs + 1 \notin 0 .. 2 * inputs - 1
    BY <1>4
  <2>3. QED
    BY <1>4, <2>1, <2>2
<1>8. QED
  BY <1>1, <1>6, <1>7, UnchangedSeen

(* A call fails, and frames may be lost. *)
LEMMA FailPasses ==
  ASSUME ChainInv, ChainInv', Inside' \subseteq Inside, Leaving' \subseteq Leaving, failures' > 0,
         put' = put, drainAsked' = drainAsked, drainEnded' = drainEnded, Given' = Given
  PROVE  AsPassStep
<1>1. HeldInChain = (Inside \cup Leaving) \cap (0 .. Given - 1)
  BY InChainIs DEF HeldInChain
<1>2. HeldInChain' = (Inside' \cup Leaving') \cap (0 .. Given' - 1)
  <2>1. ChainInv' => (InChain = Inside \cup Leaving)'
    BY InChainIs, PTL
  <2>2. QED
    BY <2>1 DEF HeldInChain
<1>3. HeldInChain' \subseteq HeldInChain
  BY <1>1, <1>2
<1>4. ChainAsPass!Fail
  BY <1>3 DEF ChainAsPass!Fail
<1>5. QED
  BY <1>4 DEF AsPassStep, ChainAsPass!Next

(* A step that fails. *)
LEMMA FailuresPass ==
  ASSUME ChainInv, ChainInv', InputFails \/ FilterFails \/ EdiFails \/ StepFails
  PROVE  AsPassStep
<1>1. /\ Inside' \subseteq Inside /\ Leaving' \subseteq Leaving /\ failures' > 0
  BY InputFailsStep, FilterFailsStep, EdiFailsStep, StepFailsStep
<1>2. put' = put /\ drainAsked' = drainAsked /\ drainEnded' = drainEnded
  BY DEF InputFails, FilterFails, EdiFails, StepFails, CallFails
<1>3. Given' = Given
  <2>1. CASE InputFails
    <3>1. /\ at = "idle" /\ ~ drainAsked /\ inputs' = inputs + 1 /\ at' = "return" /\ left' = 2
          /\ drainAsked' = drainAsked
      BY <2>1 DEF InputFails
    <3>2. inputs \in Nat /\ Given = 2 * inputs
      BY <3>1, HeldIs DEF HeldAs
    <3>3. Given' = 2 * inputs' - left'
      BY <3>1, HeldIsNext DEF HeldAs
    <3>4. QED
      BY <3>1, <3>2, <3>3
  <2>2. CASE FilterFails \/ EdiFails \/ StepFails
    <3>1. CallFails /\ inputs' = inputs /\ at \in DOMAIN After \cup {"sink"}
      BY <2>2, PosFacts DEF FilterFails, EdiFails, StepFails
    <3>2. at # "idle"
      BY <3>1, PosFacts
    <3>3. QED
      BY <3>1, <3>2 DEF CallFails, Given
  <2>3. QED
    BY <2>1, <2>2
<1>4. QED
  BY <1>1, <1>2, <1>3, FailPasses

(* The next frame counts: the oldest of all comes out of it, or none does. *)
LEMMA PushReturnsPasses ==
  ASSUME ChainInv, ChainInv', PushReturns
  PROVE  AsPassStep
<1>1. /\ at = "return" /\ at # "idle" /\ ~ drainAsked /\ left' = left - 1 /\ inputs' = inputs
      /\ at' = (IF left' = 0 THEN "idle" ELSE at)
      /\ failures' = failures /\ drainAsked' = drainAsked /\ drainEnded' = drainEnded
  BY DEF PushReturns
<1>2. PICK C, D : C = Inside \cup Leaving /\ D = Inside' \cup Leaving'
  OBVIOUS
<1>3. /\ inputs \in Nat /\ C \subseteq 0 .. 2 * inputs - 1
      /\ left \in 1 .. 2 /\ Given = 2 * inputs - left /\ Given \in Nat /\ Given < 2 * MaxInputs
      /\ HeldInChain = C \cap (0 .. Given - 1)
  BY <1>1, <1>2, HeldIs DEF HeldAs
<1>4. /\ Given' = Given + 1 /\ HeldInChain' = D \cap (0 .. Given)
  <2>1. CASE left' = 0
    <3>1. Given' = 2 * inputs' /\ HeldInChain' = D /\ D \subseteq 0 .. 2 * inputs' - 1
      BY <1>1, <1>2, <2>1, HeldIsNext DEF HeldAs
    <3>2. Given' = Given + 1 /\ 2 * inputs' - 1 = Given
      BY <1>1, <1>3, <2>1, <3>1
    <3>3. QED
      BY <3>1, <3>2
  <2>2. CASE left' # 0
    <3>1. Given' = 2 * inputs' - left' /\ HeldInChain' = D \cap (0 .. Given' - 1)
      BY <1>1, <1>2, <2>2, HeldIsNext DEF HeldAs
    <3>2. Given' = Given + 1 /\ Given' - 1 = Given
      BY <1>1, <1>3, <3>1
    <3>3. QED
      BY <3>1, <3>2
  <2>3. QED
    BY <2>1, <2>2
<1>5. /\ at # "return" \/ outs # << >> \/ failures = 0 => 2 * inputs - left .. 2 * inputs - 1 \subseteq C
      /\ outs # << >> => 2 * inputs - 1 \in Inside
  BY <1>1, <1>2 DEF ChainInv, Pushed
<1>6. /\ outs = << >> => put' = put /\ D = C
      /\ outs # << >> => \E t : Took(t)
  BY <1>2, PushReturnsStep
<1>7. ASSUME Given \in C PROVE HeldInChain \cup {Given} = C \cap (0 .. Given)
  <2>1. \A e : e \in 0 .. Given <=> e \in 0 .. Given - 1 \/ e = Given
    BY <1>3
  <2>2. QED
    BY <1>3, <1>7, <2>1
<1>8. ASSUME outs # << >> \/ failures = 0 PROVE Given \in C
  <2>1. Given \in 2 * inputs - left .. 2 * inputs - 1
    BY <1>3
  <2>2. QED
    BY <1>5, <1>8, <2>1
<1>9. CASE outs # << >>
  <2>1. PICK t : Took(t)
    BY <1>6, <1>9
  <2>2. /\ put' = Append(put, t) /\ Leaving = Leaving' \cup {t} /\ Before({t}, Leaving')
        /\ Inside' = Inside /\ Before(Leaving, Inside)
    BY <2>1, PushReturnsStep DEF Took, ChainInv, Conveyed
  <2>3. C = D \cup {t} /\ Before({t}, D)
    BY <1>2, <2>2 DEF Before
  <2>4. t \in Int /\ 2 * inputs - 1 \in D /\ t < 2 * inputs - 1 /\ t \in Nat
    <3>1. t \in 0 .. 2 * inputs - 1
      BY <1>3, <2>3
    <3>2. 2 * inputs - 1 \in D
      BY <1>2, <1>5, <1>9, <2>2
    <3>3. QED
      BY <2>3, <3>1, <3>2 DEF Before
  <2>5. t \in 0 .. Given
    BY <1>3, <2>4
  <2>6. PICK S : S = HeldInChain \cup {Given}
    OBVIOUS
  <2>7. S = C \cap (0 .. Given)
    BY <1>7, <1>8, <1>9, <2>6
  <2>8. t \in S /\ S \subseteq Int /\ (\A j \in S : t <= j) /\ t \notin D
    <3>1. t \in S /\ S \subseteq Int
      BY <2>3, <2>5, <2>7
    <3>2. \A j \in D : t < j
      BY <2>3 DEF Before
    <3>3. \A j \in S : j = t \/ (j \in D /\ j \in Int)
      BY <2>3, <2>7, <3>1
    <3>4. t \notin D
      BY <2>4, <3>2
    <3>5. QED
      BY <2>4, <3>1, <3>2, <3>3, <3>4
  <2>9. ChainAsPass!Oldest(S) = t
    BY <2>8, OldestIsLeast
  <2>10. HeldInChain' = S \ {t}
    BY <1>4, <2>3, <2>7, <2>8
  <2>11. ChainAsPass!Release(S)
    BY <2>2, <2>8, <2>9, <2>10 DEF ChainAsPass!Release
  <2>12. (failures > 0)' = (failures > 0)
    BY <1>1
  <2>13. ChainAsPass!Feed
    BY <1>1, <1>3, <1>4, <2>6, <2>11, <2>12 DEF ChainAsPass!Feed
  <2>14. QED
    BY <2>13 DEF AsPassStep, ChainAsPass!Next
<1>10. CASE outs = << >>
  <2>1. put' = put /\ HeldInChain' = C \cap (0 .. Given)
    BY <1>4, <1>6, <1>10
  <2>2. CASE failures = 0
    <3>1. HeldInChain' = HeldInChain \cup {Given}
      BY <1>7, <1>8, <2>1, <2>2
    <3>2. PICK S : S = HeldInChain \cup {Given} /\ HeldInChain' = S
      BY <3>1
    <3>3. ChainAsPass!Retain(S)
      BY <2>1, <3>2 DEF ChainAsPass!Retain
    <3>4. (failures > 0)' = (failures > 0)
      BY <1>1
    <3>5. ChainAsPass!Feed
      BY <1>1, <1>3, <1>4, <3>2, <3>3, <3>4 DEF ChainAsPass!Feed
    <3>6. QED
      BY <3>5 DEF AsPassStep, ChainAsPass!Next
  <2>3. CASE failures # 0
    <3>1. failures' > 0 /\ (failures > 0)' = TRUE
      BY <1>1, <2>3 DEF ChainInv, Counted
    <3>2. Given .. Given' - 1 = {Given}
      BY <1>3, <1>4
    <3>3. \A e \in 0 .. Given : e \in 0 .. Given - 1 \/ e = Given
      BY <1>3
    <3>4. HeldInChain' \subseteq HeldInChain \cup (Given .. Given' - 1)
      BY <1>3, <2>1, <3>2, <3>3
    <3>5. ChainAsPass!Fail
      BY <1>1, <1>3, <1>4, <2>1, <3>1, <3>4 DEF ChainAsPass!Fail
    <3>6. QED
      BY <3>5 DEF AsPassStep, ChainAsPass!Next
  <2>4. QED
    BY <2>2, <2>3
<1>11. QED
  BY <1>9, <1>10

(* Without a failure a drain that has come to its end has left nothing of  *)
(* a stream of which a frame has come out.                                 *)
LEMMA DrainedIsEmpty ==
  ASSUME ChainInv, drained, at = "return", drainAsked, pendingOut = << >>, failures = 0, put # << >>
  PROVE  Inside \cup Leaving = {}
<1>1. frame = Tick /\ second = Tick /\ drainAt = "sink"
  BY PosFacts DEF ChainInv, Control
<1>2. outs = << >>
  BY DEF ChainInv, Buffers
<1>3. ASSUME NEW s \in Filters PROVE InStage(stage[s]) = {}
  <2>1. CASE Enabled(s)
    <3>1. Primed(s)
      BY <2>1 DEF ChainInv, Flowing, Passed, Some
    <3>2. Pos[s] < Pos[drainAt]
      <4>1. Pos[s] <= 6 /\ Pos["sink"] = 7 /\ Pos[s] \in Int
        BY PosFacts
      <4>2. QED
        BY <1>1, <4>1
    <3>3. QED
      BY <3>1, <3>2 DEF Primed
  <2>2. CASE ~ Enabled(s)
    BY <2>2, StageCount DEF ChainInv, Counted
  <2>3. QED
    BY <2>1, <2>2
<1>4. Leaving = {}
  BY <1>2 DEF Leaving, Out
<1>5. Inside = {}
  BY <1>1, <1>3 DEF Inside, ChainOf, Under
<1>6. QED
  BY <1>4, <1>5

(* A drain call puts out the oldest frame, or ends the drain. *)
LEMMA DrainReturnsPasses ==
  ASSUME ChainInv, ChainInv', Ending, DrainReturns
  PROVE  AsPassStep
<1>1. /\ at = "return" /\ drainAsked /\ inputs' = inputs /\ failures' = failures /\ drainAsked' = drainAsked
      /\ (failures > 0)' = (failures > 0)
  BY DEF DrainReturns
<1>2. PICK C, D : C = Inside \cup Leaving /\ D = Inside' \cup Leaving'
  OBVIOUS
<1>3. /\ inputs \in Nat /\ C \subseteq Int /\ Given = 2 * inputs /\ HeldInChain = C
  BY <1>1, <1>2, HeldIs DEF HeldAs
<1>4. Given' = Given /\ HeldInChain' = D /\ D \subseteq Int
  BY <1>1, <1>2, <1>3, HeldIsNext DEF HeldAs
<1>5. ~ drainEnded
  BY <1>1 DEF ChainInv, Control
<1>6. /\ Inside' = Inside
      /\ \/ /\ pendingOut # << >> /\ drainEnded' = drainEnded
            /\ \E t : Took(t)
         \/ /\ pendingOut = << >> /\ put' = put /\ Leaving' = Leaving
            /\ drainEnded' = (left = MaxReturn)
  BY DrainReturnsStep
<1>7. CASE drainEnded' = drainEnded /\ \E t : Took(t)
  <2>1. PICK t : Took(t)
    BY <1>7
  <2>2. /\ put' = Append(put, t) /\ Leaving = Leaving' \cup {t} /\ Before({t}, Leaving')
        /\ Before(Leaving, Inside)
    BY <2>1 DEF Took, ChainInv, Conveyed
  <2>3. C = D \cup {t} /\ Before({t}, D)
    BY <1>2, <1>6, <2>2 DEF Before
  <2>4. t \in C /\ t \in Int /\ (\A j \in C : t <= j) /\ C \ {t} = D
    <3>1. t \in Int /\ \A j \in D : t < j /\ j \in Int
      BY <1>3, <1>4, <2>3 DEF Before
    <3>2. t \notin D
      BY <3>1
    <3>3. QED
      BY <2>3, <3>1, <3>2
  <2>5. ChainAsPass!Oldest(C) = t
    BY <1>3, <2>4, OldestIsLeast
  <2>6. ChainAsPass!Release(C)
    BY <1>4, <2>2, <2>4, <2>5 DEF ChainAsPass!Release
  <2>7. ChainAsPass!Drain
    BY <1>1, <1>3, <1>4, <1>5, <1>7, <2>6 DEF ChainAsPass!Drain
  <2>8. QED
    BY <2>7 DEF AsPassStep, ChainAsPass!Next
<1>8. CASE pendingOut = << >> /\ put' = put /\ Leaving' = Leaving /\ drainEnded' = (left = MaxReturn)
  <2>1. HeldInChain' = HeldInChain
    BY <1>2, <1>3, <1>4, <1>6, <1>8
  <2>2. CASE left = MaxReturn
    <3>1. drained
      BY <1>1, <1>8, <2>2 DEF Ending
    <3>2. HeldInChain = {} \/ failures > 0 \/ put = << >>
      <4>1. failures \in Nat
        BY DEF ChainInv, Counted
      <4>2. failures = 0 /\ put # << >> => C = {}
        BY <1>1, <1>2, <1>8, <3>1, DrainedIsEmpty
      <4>3. QED
        BY <1>3, <4>1, <4>2
    <3>3. drainEnded' = TRUE
      BY <1>8, <2>2
    <3>4. ChainAsPass!DrainEnds
      BY <1>1, <1>4, <1>5, <1>8, <2>1, <3>2, <3>3 DEF ChainAsPass!DrainEnds
    <3>5. QED
      BY <3>4 DEF AsPassStep, ChainAsPass!Next
  <2>3. CASE left # MaxReturn
    <3>1. drainEnded' = drainEnded
      BY <1>5, <1>8, <2>3 DEF ChainInv, Control
    <3>2. QED
      BY <1>1, <1>4, <1>8, <2>1, <3>1, UnchangedSeen
  <2>4. QED
    BY <2>2, <2>3
<1>9. QED
  BY <1>6, <1>7, <1>8

(* The drain begins, or is repeated. *)
LEMMA AskPasses ==
  ASSUME ChainInv, ChainInv', AskChain
  PROVE  AsPassStep
<1>1. /\ at = "idle" /\ (~ drainAsked \/ failures > 0) /\ drainAsked' = TRUE /\ drainEnded' = FALSE
      /\ inputs' = inputs /\ put' = put /\ failures' = failures /\ (failures > 0)' = (failures > 0)
  BY DEF AskChain
<1>2. Inside' = Inside /\ Leaving' = Leaving
  BY AskStep
<1>3. Given' = Given /\ HeldInChain' = HeldInChain
  BY <1>1, <1>2, HeldIs, HeldIsNext DEF HeldAs
<1>4. ChainAsPass!Ask
  BY <1>1, <1>3 DEF ChainAsPass!Ask
<1>5. QED
  BY <1>4 DEF AsPassStep, ChainAsPass!Next

(* Every step of the filter is a step of the pass, or none. *)
LEMMA ChainStepPasses ==
  ASSUME ChainInv, ChainInv', Ending, [ChainNext]_chainVars
  PROVE  AsPassStep
<1>1. CASE UNCHANGED chainVars
  <2>1. /\ inputs' = inputs /\ put' = put /\ failures' = failures /\ drainAsked' = drainAsked
        /\ drainEnded' = drainEnded /\ at' = at /\ left' = left
    BY <1>1 DEF chainVars, control
  <2>2. Inside' = Inside /\ Leaving' = Leaving
    BY <1>1, ChainStutters
  <2>3. CASE drainAsked \/ at # "idle"
    BY <2>1, <2>2, <2>3, WithinCall
  <2>4. CASE ~ drainAsked /\ at = "idle"
    <3>1. Given' = Given /\ HeldInChain' = HeldInChain
      BY <2>1, <2>2, <2>4, HeldIs, HeldIsNext DEF HeldAs
    <3>2. QED
      BY <2>1, <3>1, UnchangedSeen
  <2>5. QED
    BY <2>3, <2>4
<1>2. CASE PassThrough \/ RunTemporal \/ RunEdi \/ RunRetouch \/ Sink
  <2>1. /\ GoesOn /\ Inside' \cup Leaving' = Inside \cup Leaving
        /\ inputs' = inputs /\ put' = put /\ failures' = failures
    BY <1>2, StagesMove
  <2>2. QED
    BY <2>1, WithinCall DEF GoesOn
<1>3. CASE Drain
  <2>1. /\ drainAsked /\ inputs' = inputs /\ put' = put /\ failures' = failures
        /\ drainAsked' = drainAsked /\ drainEnded' = drainEnded
    BY <1>3 DEF Drain
  <2>2. Inside' = Inside /\ Leaving' = Leaving
    BY <1>3, DrainStep
  <2>3. QED
    BY <2>1, <2>2, WithinCall
<1>4. QED
  BY <1>1, <1>2, <1>3, PushPasses, FailuresPass, PushReturnsPasses, DrainReturnsPasses, AskPasses
     DEF ChainNext, RunStage

(* What the filter does is what a pass does: the safety half of            *)
(* ChainImplementsPass.                                                    *)
ChainStepsOfPass == ChainAsPass!Init /\ [][ChainAsPass!Next]_(ChainAsPass!vars)

(* Every step of the filter is a step of the pass RtgmDif takes it to be,  *)
(* or leaves that one as it is: of the two frames it is given for an       *)
(* input each puts one out at most, every frame comes out once and in      *)
(* order, from a buffer that no later frame has gone to, only a call that  *)
(* fails loses one, and without a failure a drain that has ended has       *)
(* brought out all there was, if anything had come out at all              *)
(* (NVEncFilterRtgmc::run_filter(), drainFrom()).                          *)
THEOREM ChainStepsCorrect == ChainSpec => ChainStepsOfPass
<1>1. ChainInit => ChainAsPass!Init
  <2> SUFFICES ASSUME ChainInit PROVE ChainAsPass!Init
    OBVIOUS
  <2>1. /\ inputs = 0 /\ at = "idle" /\ drainAsked = FALSE /\ drainEnded = FALSE /\ put = << >> /\ failures = 0
    BY DEF ChainInit
  <2>2. Given = 0 /\ HeldInChain = {}
    <3>1. Given = 0
      BY <2>1 DEF Given
    <3>2. 0 .. Given - 1 = {}
      BY <3>1
    <3>3. QED
      BY <3>1, <3>2 DEF HeldInChain
  <2>3. QED
    BY <2>1, <2>2 DEF ChainAsPass!Init
<1>2. ChainInit => Ending
  BY DEF ChainInit, Ending
<1>3. ChainInv /\ Ending /\ [ChainNext]_chainVars => Ending'
  BY EndingNext
<1>4. ChainInv /\ ChainInv' /\ Ending /\ [ChainNext]_chainVars => [ChainAsPass!Next]_(ChainAsPass!vars)
  BY ChainStepPasses DEF AsPassStep
<1>5. QED
  BY <1>1, <1>2, <1>3, <1>4, ChainInvariant, PTL DEF ChainSpec, ChainStepsOfPass

-----------------------------------------------------------------------------
(* The frames in front of EDI                                              *)

(* The frames that have not passed EDI. *)
UnderWay == (IF Pos[at] <= 3 THEN Under(frame) ELSE {}) \cup Under(second)

Early == (InStage(stage["prefilter"]) \cup InStage(stage["analyze"])) \cup UnderWay

EarlyStages == {"prefilter", "analyze"}

(* They are among the frames inside; EDI gets the first of them. *)
LEMMA EarlyFacts ==
  ASSUME ChainInv
  PROVE  /\ Early \subseteq Inside /\ Early \subseteq 0 .. 2 * inputs - 1 /\ Early \subseteq Frames
         /\ inputs \in Nat /\ IsFiniteSet(Early)
         /\ at = "edi" /\ frame # Tick => frame \in Early
<1>1. /\ InStage(stage["prefilter"]) \subseteq ChainOf(stage, frame)
      /\ InStage(stage["analyze"]) \subseteq ChainOf(stage, frame)
      /\ Under(frame) \subseteq ChainOf(stage, frame)
  BY ChainMember, PosFacts
<1>2. Early \subseteq Inside
  BY <1>1 DEF Early, UnderWay, Inside
<1>3. parameters \in Settings /\ inputs \in 0 .. parameters.inputs /\ inputs \in Nat /\ inputs \in 0 .. MaxInputs
  <2>1. parameters \in Settings /\ inputs \in 0 .. parameters.inputs
    BY DEF ChainInv, Counted
  <2>2. parameters.inputs \in 0 .. MaxInputs
    BY <2>1, Parameters
  <2>3. QED
    BY <2>1, <2>2, ChainAssumption
<1>4. Early \subseteq 0 .. 2 * inputs - 1
  BY <1>2 DEF ChainInv, Conveyed
<1>5. IsFiniteSet(0 .. 2 * inputs - 1)
  BY <1>3, FS_Interval
<1>6. IsFiniteSet(Early)
  BY <1>4, <1>5, FS_Subset
<1>7. Early \subseteq Frames
  BY <1>3, <1>4, FramesFacts
<1>8. ASSUME at = "edi", frame # Tick PROVE frame \in Early
  <2>1. Pos[at] <= 3
    BY <1>8, PosFacts
  <2>2. QED
    BY <1>8, <2>1 DEF Early, UnderWay, Under
<1>9. QED
  BY <1>2, <1>3, <1>4, <1>6, <1>7, <1>8

(* Between calls they are in the first two stages. *)
LEMMA EarlyAtRest ==
  ASSUME ChainInv, at = "idle"
  PROVE  /\ Early = InStage(stage["prefilter"]) \cup InStage(stage["analyze"])
         /\ Cardinality(Early) \in Nat
         /\ Cardinality(Early) <= Lag("prefilter") + Lag("analyze")
<1>1. frame = Tick /\ second = Tick
  BY IdleFacts
<1>2. Early = InStage(stage["prefilter"]) \cup InStage(stage["analyze"])
  BY <1>1 DEF Early, UnderWay, Under
<1>3. PICK P, A : P = InStage(stage["prefilter"]) /\ A = InStage(stage["analyze"])
  OBVIOUS
<1>4. /\ IsFiniteSet(P) /\ Cardinality(P) \in Nat /\ Cardinality(P) <= Lag("prefilter")
      /\ IsFiniteSet(A) /\ Cardinality(A) \in Nat /\ Cardinality(A) <= Lag("analyze")
  BY <1>3, StageCount, PosFacts DEF ChainInv, Counted
<1>5. Lag("prefilter") \in Nat /\ Lag("analyze") \in Nat
  BY Parameters, PosFacts DEF ChainInv, Counted
<1>6. /\ IsFiniteSet(P \cap A) /\ Cardinality(P \cap A) \in Nat
  BY <1>4, FS_Subset, FS_CardinalityType
<1>7. Cardinality(P \cup A) = Cardinality(P) + Cardinality(A) - Cardinality(P \cap A)
      /\ IsFiniteSet(P \cup A) /\ Cardinality(P \cup A) \in Nat
  BY <1>4, FS_Union, FS_CardinalityType
<1>8. QED
  BY <1>2, <1>3, <1>4, <1>5, <1>6, <1>7

(* A step does not change which frames are under way in front of EDI if    *)
(* none is, or the one that is goes on behind it, or the second's turn has *)
(* come.                                                                   *)
LEMMA UnderWaySame ==
  ASSUME ChainInv, at \in Places,
         \/ frame = Tick /\ frame' = Tick /\ second' = second
         \/ at \in DOMAIN After /\ Pos[at] > 3 /\ frame # Tick /\ Goes(After[at], frame)
         \/ at \notin Rest /\ Pos[at] > 3 /\ CascadeEnds
  PROVE  UnderWay' = UnderWay
<1>1. CASE frame = Tick /\ frame' = Tick /\ second' = second
  BY <1>1 DEF UnderWay, Under
<1>2. CASE at \in DOMAIN After /\ Pos[at] > 3 /\ Goes(After[at], frame)
  <2>1. second' = second /\ at' = After[at]
    BY <1>2 DEF Goes
  <2>2. Pos[at'] = Pos[at] + 1 /\ Pos[at] \in Int
    BY <1>2, <2>1, PosFacts
  <2>3. ~ Pos[at] <= 3 /\ ~ Pos[at'] <= 3
    BY <1>2, <2>2
  <2>4. QED
    BY <2>1, <2>3 DEF UnderWay
<1>3. CASE at \notin Rest /\ Pos[at] > 3 /\ CascadeEnds
  <2>1. frame' = second /\ second' = Tick /\ ~ Pos[at] <= 3
    <3>1. Pos[at] \in Int
      BY PosFacts
    <3>2. QED
      BY <1>3, <3>1 DEF CascadeEnds
  <2>2. second # Tick => at' = "prefilter"
    BY <1>3 DEF CascadeEnds, ChainInv, Control
  <2>3. second # Tick => Pos[at'] <= 3
    BY <2>2, PosFacts
  <2>4. QED
    BY <2>1, <2>3 DEF UnderWay, Under
<1>4. QED
  BY <1>1, <1>2, <1>3

(* The frames in front of EDI are the same if those under way there are,   *)
(* and the first two stages.                                               *)
LEMMA EarlySame ==
  ASSUME UnderWay' = UnderWay, \A s \in EarlyStages : stage'[s] = stage[s]
  PROVE  Early' = Early
BY DEF Early, EarlyStages

(* So they are when a stage gets and answers a frame.                      *)
LEMMA EarlyTemporal ==
  ASSUME ChainInv, RunTemporal
  PROVE  Early' = Early
<1>1. /\ at \in Filters /\ Enabled(at) /\ at \in DOMAIN After /\ at \in Places /\ at \notin Rest
      /\ parameters \in Settings /\ frame \in Frames \cup {Tick} /\ parameters' = parameters
  BY PosFacts DEF RunTemporal, ChainInv, Counted, Control
<1>2. PICK a : a = Answer(at)
  OBVIOUS
<1>3. PICK x \in Holding(Frames) :
        /\ x = [hold |-> a.hold, pending |-> a.pending]
        /\ Len(x.hold) <= Delay(at) /\ Len(x.pending) <= DepthOf(at)
  BY <1>1, <1>2, AnswerTyped DEF ChainInv
<1>4. /\ stage' = [stage EXCEPT ![at] = x]
      /\ \/ \E f \in a.out : Goes(After[at], f)
         \/ a.out = {} /\ frame # Tick /\ CascadeEnds
         \/ a.out = {} /\ frame = Tick /\ StageDrained
  BY <1>2, <1>3 DEF RunTemporal, Left
<1>5. stage'[at] = x /\ OnlyOne(stage, stage', at)
  BY <1>1, <1>3, <1>4, StagesKept DEF ChainInv
<1>6. Answers(InStage(stage[at]) \cup Under(frame), a) /\ a.out \in SUBSET Frames /\ InStage(x) = InStage(a)
  <2>1. InStage(x) = InStage(a)
    BY <1>3 DEF InStage
  <2>2. QED
    BY <1>1, <1>2, <2>1, AnswerOrdered, AnswerTyped DEF ChainInv
<1>7. PICK g : /\ g = Tick \/ g \in Frames
               /\ InStage(stage[at]) \cup Under(frame) = InStage(stage'[at]) \cup Under(g)
               /\ \/ g # Tick /\ Goes(After[at], g)
                  \/ g = Tick /\ frame # Tick /\ CascadeEnds
                  \/ g = Tick /\ frame = Tick /\ StageDrained
  <2>1. CASE a.out = {}
    <3>1. InStage(stage[at]) \cup Under(frame) = InStage(x)
      BY <1>6, <2>1 DEF Answers
    <3>2. Under(Tick) = {}
      BY DEF Under
    <3>3. InStage(stage[at]) \cup Under(frame) = InStage(stage'[at]) \cup Under(Tick)
      BY <1>5, <3>1, <3>2
    <3>4. QED
      BY <1>4, <2>1, <3>3
  <2>2. CASE a.out # {}
    <3>1. PICK g \in a.out : Goes(After[at], g)
      BY <1>4, <2>2
    <3>2. g \in Frames /\ g # Tick
      BY <1>6, <3>1, FramesFacts
    <3>3. PICK had : had = InStage(stage[at]) \cup Under(frame)
      OBVIOUS
    <3>4. had = InStage(x) \cup {g}
      BY <1>6, <2>2, <3>1, <3>3 DEF Answers
    <3>5. Under(g) = {g}
      BY <3>2 DEF Under
    <3>6. QED
      BY <1>5, <3>1, <3>2, <3>3, <3>4, <3>5
  <2>3. QED
    BY <2>1, <2>2
<1>8. (second' = Tick /\ frame' = second) \/ second' = second
  BY <1>7 DEF Goes, CascadeEnds, StageDrained
<1>9. CASE at \in EarlyStages
  <2>1. Pos[at] <= 3 /\ Pos[After[at]] <= 3
    BY <1>9, PosFacts DEF EarlyStages, Pos, After
  <2>2. UnderWay = Under(frame) \cup Under(second)
    BY <2>1 DEF UnderWay
  <2>3. UnderWay' = Under(g) \cup Under(second)
    <3>1. CASE Goes(After[at], g)
      BY <2>1, <3>1 DEF Goes, UnderWay
    <3>2. CASE g = Tick /\ CascadeEnds
      <4>1. second # Tick => at' = "prefilter"
        BY <1>1, <3>2 DEF CascadeEnds, ChainInv, Control
      <4>2. second # Tick => Pos[at'] <= 3
        BY <4>1, PosFacts
      <4>3. frame' = second /\ second' = Tick
        BY <3>2 DEF CascadeEnds
      <4>4. QED
        BY <3>2, <4>2, <4>3 DEF UnderWay, Under
    <3>3. CASE g = Tick /\ StageDrained
      BY <3>3 DEF StageDrained, UnderWay, Under
    <3>4. QED
      BY <1>7, <3>1, <3>2, <3>3
  <2>4. \A s \in EarlyStages : s # at => stage'[s] = stage[s]
    BY <1>5, PosFacts DEF OnlyOne, EarlyStages
  <2>5. CASE at = "prefilter"
    <3>1. stage'["analyze"] = stage["analyze"]
      BY <2>4, <2>5 DEF EarlyStages
    <3>2. QED
      BY <1>7, <2>2, <2>3, <2>5, <3>1 DEF Early
  <2>6. CASE at = "analyze"
    <3>1. stage'["prefilter"] = stage["prefilter"]
      BY <2>4, <2>6 DEF EarlyStages
    <3>2. QED
      BY <1>7, <2>2, <2>3, <2>6, <3>1 DEF Early
  <2>7. QED
    BY <1>9, <2>5, <2>6 DEF EarlyStages
<1>10. CASE at \notin EarlyStages
  <2>1. Pos[at] > 3 /\ Pos[at] \in Int
    BY <1>1, <1>10 DEF EarlyStages, Filters, Pos
  <2>2. \A s \in EarlyStages : stage'[s] = stage[s]
    BY <1>5, <1>10, PosFacts DEF OnlyOne, EarlyStages
  <2>3. UnderWay' = UnderWay
    <3>1. CASE Goes(After[at], g)
      <4>1. second' = second /\ at' = After[at] /\ Pos[After[at]] = Pos[at] + 1
        BY <1>1, <3>1, PosFacts DEF Goes
      <4>2. ~ Pos[at] <= 3 /\ ~ Pos[at'] <= 3
        BY <2>1, <4>1
      <4>3. QED
        BY <4>1, <4>2 DEF UnderWay
    <3>2. CASE CascadeEnds
      BY <1>1, <2>1, <3>2, UnderWaySame
    <3>3. CASE frame = Tick /\ StageDrained
      BY <1>1, <3>3, UnderWaySame DEF StageDrained
    <3>4. QED
      BY <1>7, <3>1, <3>2, <3>3
  <2>4. QED
    BY <2>2, <2>3, EarlySame
<1>11. QED
  BY <1>9, <1>10

(* A stage that lets a frame by or refers to other frames, an answer and   *)
(* the begin of a drain change nothing of them.                            *)
LEMMA EarlyStill ==
  ASSUME ChainInv,
         \/ PassThrough \/ RunRetouch \/ Sink \/ PushReturns \/ DrainReturns \/ Drain \/ AskChain
         \/ (RunEdi /\ frame = Tick) \/ UNCHANGED chainVars
  PROVE  Early' = Early
<1>1. stage' = stage
  BY DEF PassThrough, RunRetouch, Sink, PushReturns, DrainReturns, Drain, AskChain, RunEdi, Store, chainVars,
         caches, outputs
<1>2. at \in Places /\ Pos[at] \in Int
  BY PosFacts DEF ChainInv, Control
<1>3. CASE PassThrough
  <2>1. /\ at \in DOMAIN After /\ Pos[at] > 3
        /\ \/ frame = Tick /\ StageDrained
           \/ frame # Tick /\ Goes(After[at], frame)
    BY <1>3 DEF PassThrough, Enabled, Filters, After, Pos
  <2>2. UnderWay' = UnderWay
    BY <1>2, <2>1, UnderWaySame DEF StageDrained
  <2>3. QED
    BY <1>1, <2>2, EarlySame
<1>4. CASE RunRetouch
  <2>1. /\ at \in DOMAIN After /\ Pos[at] > 3
        /\ \/ frame = Tick /\ StageDrained
           \/ frame # Tick /\ Goes(After[at], frame)
    BY <1>4 DEF RunRetouch, After, Pos
  <2>2. UnderWay' = UnderWay
    BY <1>2, <2>1, UnderWaySame DEF StageDrained
  <2>3. QED
    BY <1>1, <2>2, EarlySame
<1>5. CASE Sink
  <2>1. at \notin Rest /\ Pos[at] > 3 /\ CascadeEnds
    BY <1>5, PosFacts DEF Sink
  <2>2. UnderWay' = UnderWay
    BY <1>2, <2>1, UnderWaySame
  <2>3. QED
    BY <1>1, <2>2, EarlySame
<1>6. CASE PushReturns \/ DrainReturns \/ Drain \/ AskChain
  <2>1. at \in Rest
    BY <1>6, PosFacts DEF PushReturns, DrainReturns, Drain, AskChain
  <2>2. frame = Tick
    BY <2>1 DEF ChainInv, Control
  <2>3. frame' = Tick /\ second' = second
    BY <1>6, <2>2 DEF PushReturns, DrainReturns, Drain, AskChain
  <2>4. UnderWay' = UnderWay
    BY <1>2, <2>2, <2>3, UnderWaySame
  <2>5. QED
    BY <1>1, <2>4, EarlySame
<1>7. CASE RunEdi /\ frame = Tick
  <2>1. frame' = Tick /\ second' = second
    BY <1>7 DEF RunEdi, StageDrained, control
  <2>2. UnderWay' = UnderWay
    BY <1>2, <1>7, <2>1, UnderWaySame
  <2>3. QED
    BY <1>1, <2>2, EarlySame
<1>8. CASE UNCHANGED chainVars
  <2>1. at' = at /\ frame' = frame /\ second' = second
    BY <1>8 DEF chainVars, control
  <2>2. UnderWay' = UnderWay
    BY <2>1 DEF UnderWay
  <2>3. QED
    BY <1>1, <2>2, EarlySame
<1>9. QED
  BY <1>3, <1>4, <1>5, <1>6, <1>7, <1>8

(* EDI lets the first of them by. *)
LEMMA EarlyEdi ==
  ASSUME ChainInv, RunEdi, frame # Tick
  PROVE  /\ Early = Early' \cup {frame} /\ Before({frame}, Early') /\ frame \in Frames
         /\ at = "edi" /\ Goes("tr1", frame) /\ stage' = stage
<1>1. at = "edi" /\ Goes("tr1", frame) /\ stage' = stage
  BY DEF RunEdi, After
<1>2. Pos[at] = 3 /\ Pos["tr1"] = 4 /\ Pos["prefilter"] = 1 /\ Pos["analyze"] = 2
  BY <1>1 DEF Pos
<1>3. at' = "tr1" /\ frame' = frame /\ second' = second
  BY <1>1 DEF Goes
<1>4. UnderWay = {frame} \cup Under(second) /\ UnderWay' = Under(second)
  BY <1>2, <1>3 DEF UnderWay, Under
<1>5. Early = Early' \cup {frame} /\ Early' = (InStage(stage["prefilter"]) \cup InStage(stage["analyze"])) \cup Under(second)
  BY <1>1, <1>4 DEF Early
<1>6. frame \in Frames
  BY DEF ChainInv, Control
<1>7. Before({frame}, InStage(stage["prefilter"])) /\ Before({frame}, InStage(stage["analyze"]))
  <2>1. Pos["prefilter"] < Pos[at] /\ Pos["analyze"] < Pos[at]
    BY <1>2
  <2>2. Ordered(stage, at, frame)
    BY DEF ChainInv, Conveyed
  <2>3. QED
    BY <2>1, <2>2, PosFacts DEF Ordered
<1>8. Before({frame}, Under(second))
  <2>1. Before(ChainOf(stage, frame), Under(second)) /\ frame \in ChainOf(stage, frame)
    BY ChainMember DEF ChainInv, Conveyed, Under
  <2>2. QED
    BY <2>1 DEF Before
<1>9. Before({frame}, Early')
  BY <1>5, <1>7, <1>8 DEF Before
<1>10. QED
  BY <1>1, <1>5, <1>6, <1>9

(* An input has two frames. *)
LEMMA EarlyPush ==
  ASSUME ChainInv, Push
  PROVE  /\ Early' = Early \cup {2 * inputs, 2 * inputs + 1}
         /\ inputs \in Nat /\ inputs < MaxInputs
<1>1. /\ at = "idle" /\ stage' = stage /\ at' = "prefilter" /\ frame' = 2 * inputs /\ second' = 2 * inputs + 1
      /\ inputs < parameters.inputs
  BY DEF Push
<1>2. inputs \in Nat /\ parameters.inputs \in 0 .. MaxInputs
  BY EarlyFacts, Parameters DEF ChainInv, Counted
<1>3. frame = Tick /\ second = Tick
  BY <1>1, IdleFacts
<1>4. Pos[at'] <= 3
  BY <1>1, PosFacts
<1>5. UnderWay = {} /\ UnderWay' = {2 * inputs, 2 * inputs + 1}
  BY <1>1, <1>2, <1>3, <1>4 DEF UnderWay, Under, Tick
<1>6. QED
  BY <1>1, <1>2, <1>5, ChainAssumption DEF Early

(* A queue that may have lost its first. *)
LEMMA QueueLosesOne ==
  ASSUME NEW q \in Seq(Frames), NEW q2, q2 = q \/ (q # << >> /\ q2 = Tail(q))
  PROVE  \E y : Elems(q) \subseteq Elems(q2) \cup {y}
<1>1. CASE q2 = q
  BY <1>1
<1>2. CASE q # << >> /\ q2 = Tail(q)
  <2>1. Elems(q) = Elems(Tail(q)) \cup {Head(q)}
    BY <1>2, TailElems, FramesFacts
  <2>2. QED
    BY <1>2, <2>1
<1>3. QED
  BY <1>1, <1>2

(* The prefilter and the analysis lose one frame at most when they fail. *)
LEMMA FailureLosesOne ==
  ASSUME ChainInv, at \in EarlyStages, NEW x \in LeftByFailure(at)
  PROVE  \E y : InStage(stage[at]) \cup Under(frame) \subseteq InStage(x) \cup {y}
<1>1. PICK st \in Holding(Frames) : st = stage[at]
  BY PosFacts DEF ChainInv, StagesOK, EarlyStages
<1>2. /\ at \in Filters /\ frame \in Frames \cup {Tick} /\ parameters \in Settings
      /\ Delay(at) \in Nat /\ DepthOf(at) \in Nat
  BY PosFacts, Parameters DEF EarlyStages, ChainInv, Control, Counted
<1>3. PICK a : a = Answer(at)
  OBVIOUS
<1>4. st.hold \in Seq(Frames) /\ st.pending \in Seq(Frames) /\ Frames \in SUBSET Int
  BY <1>1, FramesFacts DEF Holding
<1>5. CASE x = st
  BY <1>1, <1>5 DEF Under
<1>6. CASE x = [hold |-> a.hold, pending |-> a.pending] /\ PutsOut(a)
  <2>1. InStage(x) = InStage(a)
    BY <1>6 DEF InStage
  <2>2. PICK had : had = InStage(stage[at]) \cup Under(frame)
    OBVIOUS
  <2>3. Answers(had, a)
    BY <1>2, <1>3, <2>2, AnswerOrdered DEF ChainInv
  <2>4. PICK y : InStage(a) = had \ {y}
    BY <1>6, <2>3 DEF Answers, PutsOut
  <2>5. QED
    BY <2>1, <2>2, <2>4
<1>7. CASE x = [hold |-> a.hold, pending |-> st.pending] /\ (frame # Tick \/ at = "analyze")
  <2>1. PICK q \in Seq(Frames) :
          /\ Elems(q) = Elems(st.hold) \cup Under(frame)
          /\ a.hold = q \/ (q # << >> /\ a.hold = Tail(q))
    <3>1. CASE frame # Tick
      <4>1. PICK f \in Frames : f = frame
        BY <1>2, <3>1
      <4>2. /\ Append(st.hold, f) \in Seq(Frames) /\ Elems(Append(st.hold, f)) = Elems(st.hold) \cup {f}
            /\ Len(Append(st.hold, f)) = Len(st.hold) + 1
        BY <1>4, AppendElems
      <4>3. a = StageFed(st, f, Delay(at), DepthOf(at))
        BY <1>1, <1>3, <3>1, <4>1 DEF Answer
      <4>4. a.hold = Append(st.hold, f) \/ a.hold = Tail(Append(st.hold, f))
        BY <4>3 DEF StageFed, Worked, Puts, Silent
      <4>5. Append(st.hold, f) # << >>
        <5>1. Len(st.hold) \in Nat
          BY <1>4, LenProperties
        <5>2. QED
          BY <4>2, <5>1
      <4>6. QED
        BY <3>1, <4>1, <4>2, <4>4, <4>5 DEF Under
    <3>2. CASE frame = Tick
      <4>1. a = StageTicked(st, DepthOf(at))
        BY <1>1, <1>3, <1>7, <3>2 DEF Answer
      <4>2. a.hold = st.hold \/ (st.hold # << >> /\ a.hold = Tail(st.hold))
        BY <4>1 DEF StageTicked, Worked, Puts, Silent
      <4>3. QED
        BY <1>4, <3>2, <4>2 DEF Under
    <3>3. QED
      BY <3>1, <3>2
  <2>2. PICK y : Elems(q) \subseteq Elems(a.hold) \cup {y}
    BY <2>1, QueueLosesOne
  <2>3. InStage(x) = Elems(a.hold) \cup Elems(st.pending)
    BY <1>7 DEF InStage, Elems
  <2>4. InStage(stage[at]) = Elems(st.hold) \cup Elems(st.pending)
    BY <1>1 DEF InStage, Elems
  <2>5. QED
    BY <2>1, <2>2, <2>3, <2>4
<1>8. CASE at = "prefilter"
  <2>1. x \in PrefilterAfterFailure(st, a)
    BY <1>1, <1>3, <1>8 DEF LeftByFailure
  <2>2. \/ x = st
        \/ frame # Tick /\ x = [hold |-> a.hold, pending |-> st.pending]
        \/ a.out # {} /\ x = [hold |-> a.hold, pending |-> a.pending]
    BY <2>1 DEF PrefilterAfterFailure
  <2>3. QED
    BY <1>5, <1>6, <1>7, <2>2 DEF PutsOut
<1>9. CASE at = "analyze"
  <2>1. x \in StageAfterFailure(st, a)
    BY <1>1, <1>3, <1>9 DEF LeftByFailure
  <2>2. st.pending = << >>
    <3>1. Len(st.pending) <= 0
      BY <1>1, <1>9, PosFacts DEF ChainInv, StagesOK, DepthOf
    <3>2. Len(st.pending) \in Nat
      BY <1>4, LenProperties
    <3>3. QED
      BY <1>4, <3>1, <3>2, EmptySeq
  <2>3. x = st \/ x = [hold |-> a.hold, pending |-> st.pending]
    BY <2>1, <2>2, AfterFailure
  <2>4. QED
    BY <1>5, <1>7, <1>9, <2>3
<1>10. QED
  BY <1>8, <1>9 DEF EarlyStages

(* A step that fails loses two of the frames in front of EDI at most: the  *)
(* one a stage works on or was to put out, and the second.                 *)
LEMMA EarlyFails ==
  ASSUME ChainInv, FilterFails \/ EdiFails \/ StepFails
  PROVE  Early' \subseteq Early /\ \E y, z : Early \subseteq Early' \cup {y, z}
<1>1. CallFails /\ at \in Places /\ frame \in Frames \cup {Tick}
  BY DEF FilterFails, EdiFails, StepFails, ChainInv, Control
<1>2. UnderWay' = {} /\ UnderWay \subseteq Under(frame) \cup {second}
  BY <1>1 DEF UnderWay, Under, CallFails
<1>3. PICK P, A : P = InStage(stage["prefilter"]) /\ A = InStage(stage["analyze"])
  OBVIOUS
<1>4. CASE \A s \in EarlyStages : stage'[s] = stage[s]
  <2>1. Early' = P \cup A /\ Early = (P \cup A) \cup UnderWay
    BY <1>2, <1>3, <1>4 DEF Early, EarlyStages
  <2>2. Under(frame) \subseteq {frame}
    BY DEF Under
  <2>3. Early \subseteq Early' \cup {frame, second}
    BY <1>2, <2>1, <2>2
  <2>4. QED
    BY <2>1, <2>3
<1>5. CASE FilterFails /\ at \in EarlyStages
  <2>1. PICK x \in LeftByFailure(at) : stage' = [stage EXCEPT ![at] = x]
    BY <1>5 DEF FilterFails
  <2>2. PICK y : InStage(stage[at]) \cup Under(frame) \subseteq InStage(x) \cup {y}
    BY <1>5, FailureLosesOne
  <2>3. InStage(x) \subseteq InStage(stage[at]) \cup Under(frame)
    BY <1>1, <1>5, PosFacts, FailureOrdered DEF EarlyStages, ChainInv, Counted, Leaves
  <2>4. stage'[at] = x /\ \A s \in EarlyStages : s # at => stage'[s] = stage[s]
    BY <1>5, <2>1, PosFacts DEF ChainInv, StagesOK, EarlyStages
  <2>5. UnderWay = Under(frame) \cup Under(second)
    <3>1. Pos[at] <= 3
      BY <1>5 DEF EarlyStages, Pos
    <3>2. QED
      BY <3>1 DEF UnderWay
  <2>6. Under(second) \subseteq {second}
    BY DEF Under
  <2>7. CASE at = "prefilter"
    <3>1. Early' = InStage(x) \cup A /\ Early = (P \cup A) \cup (Under(frame) \cup Under(second))
      BY <1>2, <1>3, <2>4, <2>5, <2>7 DEF Early, EarlyStages
    <3>2. P \cup Under(frame) \subseteq InStage(x) \cup {y} /\ InStage(x) \subseteq P \cup Under(frame)
      BY <1>3, <2>2, <2>3, <2>7
    <3>3. Early \subseteq Early' \cup {y, second}
      BY <2>6, <3>1, <3>2
    <3>4. QED
      BY <3>1, <3>2, <3>3
  <2>8. CASE at = "analyze"
    <3>1. Early' = P \cup InStage(x) /\ Early = (P \cup A) \cup (Under(frame) \cup Under(second))
      BY <1>2, <1>3, <2>4, <2>5, <2>8 DEF Early, EarlyStages
    <3>2. A \cup Under(frame) \subseteq InStage(x) \cup {y} /\ InStage(x) \subseteq A \cup Under(frame)
      BY <1>3, <2>2, <2>3, <2>8
    <3>3. Early \subseteq Early' \cup {y, second}
      BY <2>6, <3>1, <3>2
    <3>4. QED
      BY <3>1, <3>2, <3>3
  <2>9. QED
    BY <1>5, <2>7, <2>8 DEF EarlyStages
<1>6. CASE FilterFails /\ at \notin EarlyStages
  <2>1. PICK x \in LeftByFailure(at) : stage' = [stage EXCEPT ![at] = x]
    BY <1>6 DEF FilterFails
  <2>2. \A s \in EarlyStages : stage'[s] = stage[s]
    BY <1>6, <2>1, PosFacts DEF ChainInv, StagesOK, EarlyStages
  <2>3. QED
    BY <1>4, <2>2
<1>7. CASE EdiFails \/ StepFails
  BY <1>4, <1>7 DEF EdiFails, StepFails, caches
<1>8. QED
  BY <1>5, <1>6, <1>7

-----------------------------------------------------------------------------
(* The cache of the inputs                                                 *)

(* Where a cache has what it had when it takes f. *)
CachedAs(q, size, f, r) ==
  \E d \in {0, 1} :
    /\ d = 1 <=> Len(q) = size
    /\ Len(r) = Len(q) - d + 1 /\ Len(q) \in Nat
    /\ r[Len(r)] = f
    /\ \A k \in 1 .. Len(q) - d : r[k] = q[k + d]

LEMMA CachedAt ==
  ASSUME NEW S, NEW q \in Seq(S), NEW size \in Nat \ {0}, Len(q) <= size, NEW f \in S,
         NEW r, r = Cached(q, size, f)
  PROVE  CachedAs(q, size, f, r) /\ r \in Seq(S)
<1>1. Len(q) \in Nat
  BY LenProperties
<1>2. CASE Len(q) < size
  <2>1. r = Append(q, f)
    BY <1>2 DEF Cached
  <2>2. /\ r \in Seq(S) /\ Len(r) = Len(q) + 1 /\ r[Len(q) + 1] = f
        /\ \A k \in 1 .. Len(q) : r[k] = q[k]
    BY <1>1, <2>1, AppendProperties
  <2>3. \A k \in 1 .. Len(q) - 0 : r[k] = q[k + 0]
    BY <1>1, <2>2
  <2>4. Len(r) = Len(q) - 0 + 1 /\ r[Len(r)] = f /\ ~ Len(q) = size
    BY <1>1, <1>2, <2>2
  <2>5. QED
    BY <1>1, <2>2, <2>3, <2>4 DEF CachedAs
<1>3. CASE ~ Len(q) < size
  <2>1. r = Append(Tail(q), f) /\ Len(q) = size /\ q # << >>
    BY <1>1, <1>3 DEF Cached
  <2>2. Tail(q) \in Seq(S) /\ Len(Tail(q)) = Len(q) - 1 /\ \A k \in 1 .. Len(q) - 1 : Tail(q)[k] = q[k + 1]
    BY <2>1, HeadTailProperties
  <2>3. PICK t \in Seq(S) : t = Tail(q)
    BY <2>2
  <2>4. /\ r \in Seq(S) /\ Len(r) = Len(t) + 1 /\ r[Len(t) + 1] = f
        /\ \A k \in 1 .. Len(t) : r[k] = t[k]
    BY <2>1, <2>3, AppendProperties
  <2>5. \A k \in 1 .. Len(q) - 1 : r[k] = q[k + 1]
    BY <1>1, <2>2, <2>3, <2>4
  <2>6. Len(r) = Len(q) - 1 + 1 /\ r[Len(r)] = f
    BY <1>1, <2>2, <2>3, <2>4
  <2>7. QED
    BY <1>1, <2>1, <2>4, <2>5, <2>6 DEF CachedAs
<1>4. QED
  BY <1>2, <1>3

(* The frames of E from f on. *)
From(E, f) == {g \in E : f <= g}

(* The inputs of q from the one f was made of are half as many as the      *)
(* frames of E from f on, rounded up, but for one for each of n failures.  *)
CountedBy(q, E, n) ==
  \A f \in E : \A k \in 1 .. Len(q) :
    f \div 2 <= q[k] => 2 * (Len(q) - k + 1) <= Cardinality(From(E, f)) + 1 + 2 * n

LEMMA FromFinite ==
  ASSUME NEW E, IsFiniteSet(E), NEW f
  PROVE  /\ IsFiniteSet(From(E, f)) /\ Cardinality(From(E, f)) \in Nat
         /\ Cardinality(From(E, f)) <= Cardinality(E) /\ Cardinality(E) \in Nat
         /\ From(E, f) \subseteq E
<1>1. From(E, f) \subseteq E
  BY DEF From
<1>2. QED
  BY <1>1, FS_Subset, FS_CardinalityType

(* A set and one more, or two. *)
LEMMA OneMore ==
  ASSUME NEW E, IsFiniteSet(E), NEW y
  PROVE  /\ IsFiniteSet(E \cup {y}) /\ Cardinality(E \cup {y}) \in Nat /\ Cardinality(E) \in Nat
         /\ Cardinality(E \cup {y}) <= Cardinality(E) + 1
         /\ y \notin E => Cardinality(E \cup {y}) = Cardinality(E) + 1
<1>1. IsFiniteSet(E \cup {y})
  BY FS_AddElement
<1>2. Cardinality(E \cup {y}) \in Nat /\ Cardinality(E) \in Nat
  BY <1>1, FS_CardinalityType
<1>3. Cardinality(E \cup {y}) = IF y \in E THEN Cardinality(E) ELSE Cardinality(E) + 1
  BY FS_AddElement
<1>4. QED
  BY <1>1, <1>2, <1>3

LEMMA TwoMore ==
  ASSUME NEW E, IsFiniteSet(E), NEW y, NEW z, NEW F, F \subseteq E \cup {y, z}
  PROVE  /\ IsFiniteSet(F) /\ Cardinality(F) \in Nat /\ Cardinality(E) \in Nat
         /\ Cardinality(F) <= Cardinality(E) + 2
<1>1. /\ IsFiniteSet(E \cup {y}) /\ Cardinality(E \cup {y}) \in Nat /\ Cardinality(E) \in Nat
      /\ Cardinality(E \cup {y}) <= Cardinality(E) + 1
  BY OneMore
<1>2. PICK G : G = E \cup {y}
  OBVIOUS
<1>3. IsFiniteSet(G \cup {z}) /\ Cardinality(G \cup {z}) \in Nat /\ Cardinality(G \cup {z}) <= Cardinality(G) + 1
  BY <1>1, <1>2, OneMore
<1>4. F \subseteq G \cup {z}
  BY <1>2
<1>5. IsFiniteSet(F) /\ Cardinality(F) \in Nat /\ Cardinality(F) <= Cardinality(G \cup {z})
  BY <1>3, <1>4, FS_Subset, FS_CardinalityType
<1>6. QED
  BY <1>1, <1>2, <1>3, <1>5

(* The count stays when the first of the frames has gone on. *)
LEMMA CountedFirst ==
  ASSUME NEW q, NEW E \in SUBSET Int, NEW n, CountedBy(q, E, n), NEW m, NEW E2, E = E2 \cup {m}, Before({m}, E2)
  PROVE  CountedBy(q, E2, n)
<1>1. ASSUME NEW f \in E2 PROVE From(E2, f) = From(E, f)
  <2>1. f \in Int /\ m \in Int /\ m < f
    BY DEF Before
  <2>2. ~ f <= m
    BY <2>1
  <2>3. QED
    BY <2>2 DEF From
<1>2. QED
  BY <1>1 DEF CountedBy

(* A failure may lose two of them. *)
LEMMA CountedLost ==
  ASSUME NEW q \in Seq(Frames), NEW E \in SUBSET Int, IsFiniteSet(E), NEW n \in Nat, CountedBy(q, E, n),
         NEW E2, E2 \subseteq E, NEW y, NEW z, E \subseteq E2 \cup {y, z}
  PROVE  CountedBy(q, E2, n + 1)
<1> SUFFICES ASSUME NEW f \in E2, NEW k \in 1 .. Len(q), f \div 2 <= q[k]
             PROVE  2 * (Len(q) - k + 1) <= Cardinality(From(E2, f)) + 1 + 2 * (n + 1)
  BY DEF CountedBy
<1>1. 2 * (Len(q) - k + 1) <= Cardinality(From(E, f)) + 1 + 2 * n
  BY DEF CountedBy
<1>2. From(E, f) \subseteq From(E2, f) \cup {y, z}
  BY DEF From
<1>3. IsFiniteSet(E2)
  BY FS_Subset
<1>4. IsFiniteSet(From(E2, f)) /\ Cardinality(From(E2, f)) \in Nat
  BY <1>3, FromFinite
<1>5. Cardinality(From(E, f)) \in Nat /\ Cardinality(From(E, f)) <= Cardinality(From(E2, f)) + 2
  BY <1>2, <1>4, TwoMore
<1>6. Len(q) \in Nat
  BY LenProperties
<1>7. QED
  BY <1>1, <1>4, <1>5, <1>6

(* An input is cached and its two frames enter. *)
LEMMA CountedPush ==
  ASSUME NEW q \in Seq(Frames), Len(q) <= SourceCache, NEW i \in Nat, i \in Frames, \A k \in 1 .. Len(q) : q[k] < i,
         NEW E, E \subseteq 0 .. 2 * i - 1, NEW n \in Nat, CountedBy(q, E, n),
         NEW r, r = Cached(q, SourceCache, i), NEW E2, E2 = E \cup {2 * i, 2 * i + 1}
  PROVE  CountedBy(r, E2, n)
<1>0. SourceCache \in Nat \ {0}
  BY ChainAssumption
<1>1. PICK d \in {0, 1} : /\ r \in Seq(Frames) /\ Len(r) = Len(q) - d + 1 /\ Len(q) \in Nat
                          /\ d = 1 <=> Len(q) = SourceCache
                          /\ r[Len(r)] = i
                          /\ \A k \in 1 .. Len(q) - d : r[k] = q[k + d]
  <2>1. CachedAs(q, SourceCache, i, r)
    BY <1>0, CachedAt
  <2>2. r \in Seq(Frames)
    BY <1>0, CachedAt
  <2>3. QED
    BY <2>1, <2>2 DEF CachedAs
<1>2. IsFiniteSet(E) /\ IsFiniteSet(E2)
  <2>1. IsFiniteSet(0 .. 2 * i - 1) /\ IsFiniteSet(0 .. 2 * i + 1)
    BY FS_Interval
  <2>2. E2 \subseteq 0 .. 2 * i + 1
    OBVIOUS
  <2>3. QED
    BY <2>1, <2>2, FS_Subset
<1> SUFFICES ASSUME NEW f \in E2, NEW k \in 1 .. Len(r), f \div 2 <= r[k]
             PROVE  2 * (Len(r) - k + 1) <= Cardinality(From(E2, f)) + 1 + 2 * n
  BY DEF CountedBy
<1>2a. k \in Int /\ 1 <= k /\ k <= Len(q) - d + 1 /\ (k = Len(r) \/ k \in 1 .. Len(q) - d)
       /\ (k \in 1 .. Len(q) - d => k + d \in 1 .. Len(q))
  <2>1. PICK m \in Nat : m = Len(q) /\ Len(r) = m - d + 1
    BY <1>1
  <2>2. k \in 1 .. m - d + 1
    BY <2>1
  <2>3. QED
    BY <2>1, <2>2
<1>3. IsFiniteSet(From(E2, f)) /\ Cardinality(From(E2, f)) \in Nat
  BY <1>2, FromFinite
<1>4. CASE f \in E
  <2>1. f \in Int /\ 0 <= f /\ f < 2 * i
    BY <1>4
  <2>2. From(E2, f) = (From(E, f) \cup {2 * i}) \cup {2 * i + 1}
    BY <2>1 DEF From
  <2>3. 2 * i \notin From(E, f) /\ 2 * i + 1 \notin From(E, f) \cup {2 * i}
    BY DEF From
  <2>4. IsFiniteSet(From(E, f)) /\ Cardinality(From(E, f)) \in Nat
    BY <1>2, FromFinite
  <2>5. PICK G : G = From(E, f) \cup {2 * i}
    OBVIOUS
  <2>6. IsFiniteSet(G) /\ Cardinality(G) = Cardinality(From(E, f)) + 1
    BY <2>3, <2>4, <2>5, OneMore
  <2>7. Cardinality(From(E2, f)) = Cardinality(G) + 1
    BY <2>2, <2>3, <2>5, <2>6, OneMore
  <2>8. CASE k = Len(r)
    BY <1>1, <2>4, <2>6, <2>7, <2>8
  <2>9. CASE k # Len(r)
    <3>1. k \in 1 .. Len(q) - d /\ k + d \in 1 .. Len(q) /\ r[k] = q[k + d]
      BY <1>1, <1>2a, <2>9
    <3>2. 2 * (Len(q) - (k + d) + 1) <= Cardinality(From(E, f)) + 1 + 2 * n
      BY <1>4, <3>1 DEF CountedBy
    <3>3. QED
      BY <1>1, <2>4, <2>6, <2>7, <3>1, <3>2
  <2>10. QED
    BY <2>8, <2>9
<1>5. CASE f \notin E
  <2>1. f = 2 * i \/ f = 2 * i + 1
    BY <1>5
  <2>2. f \div 2 = i
    BY <2>1
  <2>3. f \in From(E2, f)
    BY <2>1 DEF From
  <2>4. Cardinality(From(E2, f)) >= 1
    <3>1. From(E2, f) # {}
      BY <2>3
    <3>2. Cardinality(From(E2, f)) # 0
      BY <1>3, <3>1, FS_EmptySet
    <3>3. QED
      BY <1>3, <3>2
  <2>5. CASE k = Len(r)
    BY <1>1, <1>3, <2>4, <2>5
  <2>6. CASE k # Len(r)
    <3>1. k \in 1 .. Len(q) - d /\ k + d \in 1 .. Len(q) /\ r[k] = q[k + d]
      BY <1>1, <1>2a, <2>6
    <3>2. q[k + d] < i /\ q[k + d] \in Int
      BY <3>1, ElementOfSeq, FramesFacts
    <3>3. QED
      BY <2>2, <3>1, <3>2
  <2>7. QED
    BY <2>5, <2>6
<1>6. QED
  BY <1>4, <1>5

(* An input is cached whose frames are lost. *)
LEMMA CountedInput ==
  ASSUME NEW q \in Seq(Frames), Len(q) <= SourceCache, NEW i \in Frames,
         NEW E, IsFiniteSet(E), NEW n \in Nat, CountedBy(q, E, n), NEW r, r = Cached(q, SourceCache, i)
  PROVE  CountedBy(r, E, n + 1)
<1>1. SourceCache \in Nat \ {0}
  BY ChainAssumption
<1>2. PICK d \in {0, 1} : /\ r \in Seq(Frames) /\ Len(r) = Len(q) - d + 1 /\ Len(q) \in Nat
                          /\ d = 1 <=> Len(q) = SourceCache
                          /\ r[Len(r)] = i
                          /\ \A k \in 1 .. Len(q) - d : r[k] = q[k + d]
  <2>1. CachedAs(q, SourceCache, i, r)
    BY <1>1, CachedAt
  <2>2. r \in Seq(Frames)
    BY <1>1, CachedAt
  <2>3. QED
    BY <2>1, <2>2 DEF CachedAs
<1> SUFFICES ASSUME NEW f \in E, NEW k \in 1 .. Len(r), f \div 2 <= r[k]
             PROVE  2 * (Len(r) - k + 1) <= Cardinality(From(E, f)) + 1 + 2 * (n + 1)
  BY DEF CountedBy
<1>3. k \in Int /\ 1 <= k /\ k <= Len(q) - d + 1 /\ (k = Len(r) \/ k \in 1 .. Len(q) - d)
      /\ (k \in 1 .. Len(q) - d => k + d \in 1 .. Len(q))
  <2>1. PICK m \in Nat : m = Len(q) /\ Len(r) = m - d + 1
    BY <1>2
  <2>2. k \in 1 .. m - d + 1
    BY <2>1
  <2>3. QED
    BY <2>1, <2>2
<1>4. Cardinality(From(E, f)) \in Nat
  BY FromFinite
<1>5. CASE k = Len(r)
  BY <1>2, <1>4, <1>5
<1>6. CASE k # Len(r)
  <2>1. k \in 1 .. Len(q) - d /\ k + d \in 1 .. Len(q) /\ r[k] = q[k + d]
    BY <1>2, <1>3, <1>6
  <2>2. 2 * (Len(q) - (k + d) + 1) <= Cardinality(From(E, f)) + 1 + 2 * n
    BY <2>1 DEF CountedBy
  <2>3. QED
    BY <1>2, <1>4, <2>1, <2>2
<1>7. QED
  BY <1>5, <1>6

(* What the cache drops is the input of no frame in front of EDI, if these *)
(* are few enough.                                                         *)
LEMMA InputsStay ==
  ASSUME NEW q \in Seq(Frames), Len(q) <= SourceCache, NEW i \in Frames,
         NEW E \in SUBSET Int, IsFiniteSet(E), NEW n \in Nat, CountedBy(q, E, n),
         NEW most \in Nat, Cardinality(E) <= most, 2 * (SourceCache - n) > most + 1,
         \A f \in E : f \div 2 \in Elems(q), NEW r, r = Cached(q, SourceCache, i)
  PROVE  i \in Elems(r) /\ \A f \in E : f \div 2 \in Elems(r)
<1>1. SourceCache \in Nat \ {0}
  BY ChainAssumption
<1>2. PICK d \in {0, 1} : /\ r \in Seq(Frames) /\ Len(r) = Len(q) - d + 1 /\ Len(q) \in Nat
                          /\ d = 1 <=> Len(q) = SourceCache
                          /\ r[Len(r)] = i
                          /\ \A k \in 1 .. Len(q) - d : r[k] = q[k + d]
  <2>1. CachedAs(q, SourceCache, i, r)
    BY <1>1, CachedAt
  <2>2. r \in Seq(Frames)
    BY <1>1, CachedAt
  <2>3. QED
    BY <2>1, <2>2 DEF CachedAs
<1>3. PICK l \in Nat : l = Len(q) /\ Len(r) = l - d + 1 /\ l <= SourceCache /\ (d = 1 <=> l = SourceCache)
  BY <1>2
<1>4. i \in Elems(r)
  <2>1. l - d + 1 \in 1 .. l - d + 1
    BY <1>1, <1>3
  <2>2. QED
    BY <1>2, <1>3, <2>1 DEF Elems
<1>5. ASSUME NEW f \in E PROVE f \div 2 \in Elems(r)
  <2>1. PICK k \in 1 .. Len(q) : q[k] = f \div 2
    BY DEF Elems
  <2>2. f \div 2 <= q[k]
    BY <2>1
  <2>3. Cardinality(From(E, f)) \in Nat /\ Cardinality(From(E, f)) <= Cardinality(E) /\ Cardinality(E) \in Nat
    BY FromFinite
  <2>4. 2 * (l - k + 1) <= Cardinality(From(E, f)) + 1 + 2 * n
    BY <1>3, <2>2 DEF CountedBy
  <2>5. k \in 1 .. l /\ k > d
    BY <1>1, <1>3, <2>1, <2>3, <2>4
  <2>6. k - d \in 1 .. l - d /\ k - d \in 1 .. l - d + 1 /\ (k - d) + d = k
    BY <1>3, <2>5
  <2>7. r[k - d] = q[k]
    BY <1>2, <1>3, <2>6
  <2>8. QED
    BY <1>3, <2>1, <2>6, <2>7 DEF Elems
<1>6. QED
  BY <1>4, <1>5

(* The cache has inputs given; of those the frames in front of EDI are of  *)
(* there are few, and all of them are there.                               *)
SourcesCounted ==
  /\ \A k \in 1 .. Len(sources) : sources[k] < inputs
  /\ CountedBy(sources, Early, failures)

EarlyLag == Lag("prefilter") + Lag("analyze")

LEMMA EarlyLagKept ==
  ASSUME ChainInv, parameters' = parameters
  PROVE  EarlyLag' = EarlyLag /\ EarlyLag \in Nat
<1>1. EarlyLag' = EarlyLag
  BY ParametersKept DEF EarlyLag
<1>2. Lag("prefilter") \in Nat /\ Lag("analyze") \in Nat
  BY Parameters, PosFacts DEF ChainInv, Counted
<1>3. QED
  BY <1>1, <1>2 DEF EarlyLag

SourcesKept ==
  2 * (SourceCache - failures) > EarlyLag + 1 =>
    missed["source"] = {} /\ \A f \in Early : f \div 2 \in Elems(sources)

SourceInv == SourcesCounted /\ SourcesKept

(* What the invariant says when a step takes no input and fails nowhere.   *)
LEMMA SourcesStay ==
  ASSUME ChainInv, SourceInv, sources' = sources, inputs' = inputs, failures' = failures, parameters' = parameters,
         Early' \subseteq Early,
         Early' = Early \/ (\E m : Early = Early' \cup {m} /\ Before({m}, Early')),
         2 * (SourceCache - failures) > EarlyLag + 1 => missed'["source"] = {}
  PROVE  SourceInv'
<1>1. EarlyLag' = EarlyLag
  BY ParametersKept DEF EarlyLag
<1>2. PICK E, E2, q, n : E = Early /\ E2 = Early' /\ q = sources /\ n = failures
  OBVIOUS
<1>3. CountedBy(q, E, n) /\ E \in SUBSET Int
  BY <1>2, EarlyFacts, FramesFacts DEF SourceInv, SourcesCounted
<1>4. CountedBy(q, E2, n)
  <2>1. CASE E2 = E
    BY <1>3, <2>1
  <2>2. CASE \E m : E = E2 \cup {m} /\ Before({m}, E2)
    <3>1. PICK m : E = E2 \cup {m} /\ Before({m}, E2)
      BY <2>2
    <3>2. QED
      BY <1>3, <3>1, CountedFirst
  <2>3. QED
    BY <1>2, <2>1, <2>2
<1>5. CountedBy(sources, Early, failures)'
  BY <1>2, <1>4
<1>6. SourcesCounted'
  BY <1>5 DEF SourceInv, SourcesCounted
<1>7. SourcesKept'
  BY <1>1 DEF SourceInv, SourcesKept
<1>8. QED
  BY <1>6, <1>7 DEF SourceInv

LEMMA InputsAreOld ==
  ASSUME NEW q \in Seq(Frames), Len(q) <= SourceCache, NEW i \in Frames, \A k \in 1 .. Len(q) : q[k] < i,
         NEW r, r = Cached(q, SourceCache, i)
  PROVE  \A k \in 1 .. Len(r) : r[k] < i + 1
<1>1. CachedAs(q, SourceCache, i, r)
  BY ChainAssumption, CachedAt
<1>2. PICK d \in {0, 1} : /\ Len(r) = Len(q) - d + 1 /\ Len(q) \in Nat
                          /\ r[Len(r)] = i
                          /\ \A k \in 1 .. Len(q) - d : r[k] = q[k + d]
  BY <1>1 DEF CachedAs
<1>3. ASSUME NEW k \in 1 .. Len(r) PROVE r[k] < i + 1
  <2>1. PICK l \in Nat : l = Len(q) /\ Len(r) = l - d + 1
    BY <1>2
  <2>2. k = Len(r) \/ (k \in 1 .. Len(q) - d /\ k + d \in 1 .. Len(q))
    BY <2>1
  <2>3. i \in Int
    BY FramesFacts
  <2>4. CASE k = Len(r)
    BY <1>2, <2>3, <2>4
  <2>5. CASE k \in 1 .. Len(q) - d /\ k + d \in 1 .. Len(q)
    <3>1. r[k] = q[k + d] /\ q[k + d] < i /\ q[k + d] \in Frames
      BY <1>2, <2>5, ElementOfSeq
    <3>2. q[k + d] \in Int
      BY <3>1, FramesFacts
    <3>3. QED
      BY <2>3, <3>1, <3>2
  <2>6. QED
    BY <2>2, <2>4, <2>5
<1>4. QED
  BY <1>3

(* A push. *)
LEMMA SourcesPush ==
  ASSUME ChainInv, SourceInv, Push
  PROVE  SourceInv'
<1>1. /\ at = "idle" /\ sources' = Cached(sources, SourceCache, inputs) /\ inputs' = inputs + 1
      /\ failures' = failures /\ missed' = missed /\ parameters' = parameters
  BY DEF Push
<1>2. /\ inputs \in Nat /\ inputs \in Frames /\ failures \in Nat
      /\ sources \in Seq(Frames) /\ Len(sources) <= SourceCache
  <2>1. inputs \in Nat /\ inputs < MaxInputs
    BY EarlyPush
  <2>2. inputs \in Frames
    BY <2>1, ChainAssumption DEF Frames
  <2>3. QED
    BY <2>1, <2>2, ChainAssumption DEF ChainInv, CachesOK, Counted
<1>3. PICK q, i, n, E, r, E2 : /\ q = sources /\ i = inputs /\ n = failures /\ E = Early
                               /\ r = sources' /\ E2 = Early'
  OBVIOUS
<1>4. /\ q \in Seq(Frames) /\ Len(q) <= SourceCache /\ i \in Nat /\ i \in Frames /\ n \in Nat
      /\ r = Cached(q, SourceCache, i)
  BY <1>1, <1>2, <1>3
<1>5. E \subseteq 0 .. 2 * i - 1 /\ IsFiniteSet(E) /\ E \in SUBSET Int /\ E2 = E \cup {2 * i, 2 * i + 1}
  BY <1>3, EarlyFacts, EarlyPush
<1>6. CountedBy(q, E, n) /\ \A k \in 1 .. Len(q) : q[k] < i
  BY <1>3 DEF SourceInv, SourcesCounted
<1>7. CountedBy(r, E2, n)
  BY <1>4, <1>5, <1>6, CountedPush
<1>8. \A k \in 1 .. Len(r) : r[k] < i + 1
  BY <1>4, <1>6, InputsAreOld
<1>9. SourcesCounted'
  <2>1. CountedBy(sources, Early, failures)'
    BY <1>1, <1>3, <1>7
  <2>2. (\A k \in 1 .. Len(sources) : sources[k] < inputs)'
    BY <1>1, <1>3, <1>8
  <2>3. QED
    BY <2>1, <2>2 DEF SourcesCounted
<1>10. EarlyLag' = EarlyLag /\ EarlyLag \in Nat
  BY <1>1, EarlyLagKept
<1>11. SourcesKept'
  <2> SUFFICES ASSUME 2 * (SourceCache - n) > EarlyLag + 1
               PROVE  missed'["source"] = {} /\ \A f \in E2 : f \div 2 \in Elems(r)
    BY <1>1, <1>3, <1>10 DEF SourcesKept
  <2>1. missed["source"] = {} /\ \A f \in E : f \div 2 \in Elems(q)
    BY <1>3 DEF SourceInv, SourcesKept
  <2>2. PICK m \in Nat : m = EarlyLag /\ Cardinality(E) <= m
    BY <1>1, <1>3, <1>10, EarlyAtRest DEF EarlyLag
  <2>3. i \in Elems(r) /\ \A f \in E : f \div 2 \in Elems(r)
    BY <1>4, <1>5, <1>6, <2>1, <2>2, InputsStay
  <2>4. (2 * i) \div 2 = i /\ (2 * i + 1) \div 2 = i
    BY <1>4
  <2>5. QED
    BY <1>1, <1>5, <2>1, <2>3, <2>4
<1>12. QED
  BY <1>9, <1>11 DEF SourceInv

(* An input that fails. *)
LEMMA SourcesInput ==
  ASSUME ChainInv, SourceInv, InputFails
  PROVE  SourceInv'
<1>1. /\ at = "idle" /\ sources' \in {sources, Cached(sources, SourceCache, inputs)} /\ inputs' = inputs + 1
      /\ failures' = failures + 1 /\ missed' = missed /\ parameters' = parameters
      /\ stage' = stage /\ frame' = frame /\ second' = second /\ inputs < parameters.inputs
  BY DEF InputFails
<1>2. frame = Tick /\ second = Tick
  BY <1>1, IdleFacts
<1>3. Early' = Early
  BY <1>1, <1>2 DEF Early, UnderWay, Under
<1>4. /\ inputs \in Nat /\ inputs \in Frames /\ failures \in Nat
      /\ sources \in Seq(Frames) /\ Len(sources) <= SourceCache
  <2>1. inputs \in Nat /\ parameters.inputs \in 0 .. MaxInputs
    BY EarlyFacts, Parameters DEF ChainInv, Counted
  <2>2. inputs \in Frames
    BY <1>1, <2>1, ChainAssumption DEF Frames
  <2>3. QED
    BY <2>1, <2>2, ChainAssumption DEF ChainInv, CachesOK, Counted
<1>5. PICK q, i, n, E, r : /\ q = sources /\ i = inputs /\ n = failures /\ E = Early /\ r = sources'
  OBVIOUS
<1>6. /\ q \in Seq(Frames) /\ Len(q) <= SourceCache /\ i \in Nat /\ i \in Frames /\ n \in Nat
      /\ r = q \/ r = Cached(q, SourceCache, i)
  BY <1>1, <1>4, <1>5
<1>7. IsFiniteSet(E) /\ E \in SUBSET Int
  BY <1>5, EarlyFacts, FramesFacts
<1>8. CountedBy(q, E, n) /\ \A k \in 1 .. Len(q) : q[k] < i
  BY <1>5 DEF SourceInv, SourcesCounted
<1>9. EarlyLag' = EarlyLag /\ EarlyLag \in Nat
  BY <1>1, EarlyLagKept
<1>10. CountedBy(r, E, n + 1) /\ \A k \in 1 .. Len(r) : r[k] < i + 1
  <2>1. CASE r = q
    <3>1. E \subseteq E \cup {i, i}
      OBVIOUS
    <3>2. CountedBy(q, E, n + 1)
      BY <1>6, <1>7, <1>8, <3>1, CountedLost
    <3>3. \A k \in 1 .. Len(q) : q[k] < i + 1
      <4>1. \A k \in 1 .. Len(q) : q[k] \in Int
        BY <1>6, ElementOfSeq, FramesFacts
      <4>2. QED
        BY <1>6, <1>8, <4>1
    <3>4. QED
      BY <2>1, <3>2, <3>3
  <2>2. CASE r = Cached(q, SourceCache, i)
    BY <1>6, <1>7, <1>8, <2>2, CountedInput, InputsAreOld
  <2>3. QED
    BY <1>6, <2>1, <2>2
<1>11. SourcesCounted'
  <2>1. CountedBy(sources, Early, failures)'
    BY <1>1, <1>3, <1>5, <1>10
  <2>2. (\A k \in 1 .. Len(sources) : sources[k] < inputs)'
    BY <1>1, <1>5, <1>10
  <2>3. QED
    BY <2>1, <2>2 DEF SourcesCounted
<1>12. SourcesKept'
  <2> SUFFICES ASSUME 2 * (SourceCache - (n + 1)) > EarlyLag + 1
               PROVE  missed'["source"] = {} /\ \A f \in E : f \div 2 \in Elems(r)
    BY <1>1, <1>3, <1>5, <1>9 DEF SourcesKept
  <2>1. 2 * (SourceCache - n) > EarlyLag + 1
    BY <1>6, <1>9, ChainAssumption
  <2>2. missed["source"] = {} /\ \A f \in E : f \div 2 \in Elems(q)
    BY <1>5, <2>1 DEF SourceInv, SourcesKept
  <2>3. PICK m \in Nat : m = EarlyLag /\ Cardinality(E) <= m
    BY <1>1, <1>5, <1>9, EarlyAtRest DEF EarlyLag
  <2>4. r = Cached(q, SourceCache, i) => \A f \in E : f \div 2 \in Elems(r)
    BY <1>6, <1>7, <1>8, <2>1, <2>2, <2>3, InputsStay
  <2>5. QED
    BY <1>1, <1>6, <2>2, <2>4
<1>13. QED
  BY <1>11, <1>12 DEF SourceInv

(* A stage that fails. *)
LEMMA SourcesFail ==
  ASSUME ChainInv, SourceInv, FilterFails \/ EdiFails \/ StepFails
  PROVE  SourceInv'
<1>1. /\ sources' = sources /\ inputs' = inputs /\ failures' = failures + 1 /\ missed' = missed
      /\ parameters' = parameters
  BY DEF FilterFails, EdiFails, StepFails, CallFails, caches
<1>2. PICK q, n, E, E2 : q = sources /\ n = failures /\ E = Early /\ E2 = Early'
  OBVIOUS
<1>3. /\ q \in Seq(Frames) /\ n \in Nat /\ IsFiniteSet(E) /\ E \in SUBSET Int
  BY <1>2, EarlyFacts, FramesFacts, ChainAssumption DEF ChainInv, CachesOK, Counted
<1>4. CountedBy(q, E, n)
  BY <1>2 DEF SourceInv, SourcesCounted
<1>5. PICK y, z : E2 \subseteq E /\ E \subseteq E2 \cup {y, z}
  BY <1>2, EarlyFails
<1>6. CountedBy(q, E2, n + 1)
  BY <1>3, <1>4, <1>5, CountedLost
<1>7. CountedBy(sources, Early, failures)'
  BY <1>1, <1>2, <1>6
<1>8. SourcesCounted'
  BY <1>1, <1>7 DEF SourceInv, SourcesCounted
<1>9. EarlyLag' = EarlyLag /\ EarlyLag \in Nat
  BY <1>1, EarlyLagKept
<1>10. 2 * (SourceCache - (n + 1)) > EarlyLag + 1 => 2 * (SourceCache - n) > EarlyLag + 1
  BY <1>3, <1>9, ChainAssumption
<1>11. SourcesKept'
  BY <1>1, <1>2, <1>5, <1>9, <1>10 DEF SourceInv, SourcesKept
<1>12. QED
  BY <1>8, <1>11 DEF SourceInv

LEMMA SourceNext ==
  ASSUME ChainInv, SourceInv, [ChainNext]_chainVars
  PROVE  SourceInv'
<1>1. CASE Push
  BY <1>1, SourcesPush
<1>2. CASE InputFails
  BY <1>2, SourcesInput
<1>3. CASE FilterFails \/ EdiFails \/ StepFails
  BY <1>3, SourcesFail
<1>4. CASE RunTemporal
  <2>1. /\ sources' = sources /\ inputs' = inputs /\ failures' = failures /\ parameters' = parameters
        /\ missed' = missed
    BY <1>4 DEF RunTemporal
  <2>2. Early' = Early
    BY <1>4, EarlyTemporal
  <2>3. 2 * (SourceCache - failures) > EarlyLag + 1 => missed'["source"] = {}
    BY <2>1 DEF SourceInv, SourcesKept
  <2>4. QED
    BY <2>1, <2>2, <2>3, SourcesStay
<1>5. CASE RunEdi /\ frame # Tick
  <2>1. /\ sources' = sources /\ inputs' = inputs /\ failures' = failures /\ parameters' = parameters
        /\ at = "edi"
    BY <1>5 DEF RunEdi
  <2>2. Early' \subseteq Early /\ Early = Early' \cup {frame} /\ Before({frame}, Early')
    BY <1>5, EarlyEdi
  <2>3. 2 * (SourceCache - failures) > EarlyLag + 1 => missed'["source"] = {}
    <3>1. ASSUME 2 * (SourceCache - failures) > EarlyLag + 1 PROVE missed'["source"] = {}
      <4>1. missed["source"] = {} /\ frame \div 2 \in Elems(sources)
        BY <2>2, <3>1 DEF SourceInv, SourcesKept
      <4>2. \E i \in DOMAIN sources : sources[i] = frame \div 2
        <5>1. sources \in Seq(Frames)
          BY DEF ChainInv, CachesOK
        <5>2. DOMAIN sources = 1 .. Len(sources)
          BY <5>1, LenProperties
        <5>3. QED
          BY <4>1, <5>2 DEF Elems
      <4>3. Misses({}, frame)
        BY <1>5, <4>2 DEF RunEdi
      <4>4. QED
        BY <4>1, <4>3 DEF Misses, Needs
    <3>2. QED
      BY <3>1
  <2>4. QED
    BY <2>1, <2>2, <2>3, SourcesStay
<1>6. CASE \/ PassThrough \/ RunRetouch \/ Sink \/ PushReturns \/ DrainReturns \/ Drain \/ AskChain
           \/ (RunEdi /\ frame = Tick) \/ UNCHANGED chainVars
  <2>1. /\ sources' = sources /\ inputs' = inputs /\ failures' = failures /\ parameters' = parameters
    BY <1>6 DEF PassThrough, RunRetouch, Sink, PushReturns, DrainReturns, Drain, AskChain, RunEdi, chainVars, caches
  <2>2. Early' = Early
    BY <1>6, EarlyStill
  <2>3. missed'["source"] = missed["source"]
    <3>1. CASE RunRetouch /\ frame # Tick
      <4>1. Misses(LimitMisses(frame), frame) /\ "source" \notin LimitMisses(frame)
        BY <3>1 DEF RunRetouch, LimitMisses
      <4>2. QED
        BY <4>1 DEF Misses, Needs
    <3>2. CASE missed' = missed
      BY <3>2
    <3>3. QED
      BY <1>6, <3>1, <3>2 DEF PassThrough, RunRetouch, Sink, PushReturns, DrainReturns, Drain, AskChain, RunEdi, chainVars
  <2>4. 2 * (SourceCache - failures) > EarlyLag + 1 => missed'["source"] = {}
    BY <2>3 DEF SourceInv, SourcesKept
  <2>5. QED
    BY <2>1, <2>2, <2>4, SourcesStay
<1>7. QED
  BY <1>1, <1>2, <1>3, <1>4, <1>5, <1>6 DEF ChainNext, RunStage

(* EDI finds the input of every frame, whatever fails, if the cache is     *)
(* longer by one for each failure than the two stages in front of EDI.     *)
THEOREM SourceCorrect == ChainSpec => []SourceAtHand
<1>1. ChainInit => SourceInv
  <2> SUFFICES ASSUME ChainInit PROVE SourceInv
    OBVIOUS
  <2>1. sources = << >> /\ missed["source"] = {}
    BY DEF ChainInit, Needs
  <2>2. SourcesCounted
    BY <2>1 DEF SourcesCounted, CountedBy
  <2>3. Early = {}
    BY DEF ChainInit, Early, UnderWay, Under, InStage, EmptyStage, Filters
  <2>4. QED
    BY <2>1, <2>2, <2>3 DEF SourceInv, SourcesKept
<1>2. ChainInv /\ SourceInv /\ [ChainNext]_chainVars => SourceInv'
  BY SourceNext
<1>3. ChainInv /\ SourceInv => SourceAtHand
  <2> SUFFICES ASSUME ChainInv, SourceInv PROVE SourceAtHand
    OBVIOUS
  <2>1. Lag("prefilter") \in Nat /\ Lag("analyze") \in Nat
    BY Parameters, PosFacts DEF ChainInv, Counted
  <2>2. QED
    BY <2>1 DEF SourceInv, SourcesKept, EarlyLag, SourceAtHand
<1>4. QED
  BY <1>1, <1>2, <1>3, ChainInvariant, PTL DEF ChainSpec

-----------------------------------------------------------------------------
(* What the limit of the retouch finds, as long as no step fails           *)

(* The frames TR1 has, and with the one that has come out of it.           *)
InTr1  == InStage(stage["tr1"]) \cup (IF at = "tr1" THEN Under(frame) ELSE {})
Wanted == InTr1 \cup (IF at = "retouch" THEN Under(frame) ELSE {})

(* The first of the n frames before frame e.                               *)
FirstOf(e, n) == IF e < n THEN 0 ELSE e - n

(* q is the frames from a on that are before e.                            *)
Row(q, a, e) == q \in Seq(Frames) /\ Len(q) = e - a /\ \A i \in 1 .. Len(q) : q[i] = a + i - 1

(* Those up to e have gone through EDI, and TR1 has the last of them.      *)
Reached(e) ==
  /\ e <= 2 * inputs
  /\ Early = e .. 2 * inputs - 1
  /\ \E t \in 0 .. e : InTr1 = t .. e - 1

(* The helpers hs have got those up to e and worked on those up to w.      *)
HelpersAt(hs, e, w) ==
  /\ hs["forw"] = hs["back"]
  /\ Row(hs["back"].cache, FirstOf(e, CompCache), e)
  /\ Row(hs["back"].hold, w, e)
  /\ hs["back"].bound = w - 1

(* They keep pace with EDI: a drain has them bring out what they have      *)
(* before TR1 does.                                                        *)
Helped(e, w) ==
  /\ HelpersAt(helper, e, w)
  /\ FirstOf(e, HelperDelay) <= w /\ w <= e
  /\ Pos[drainAt] <= 2 => w = FirstOf(e, HelperDelay)
  /\ Pos[drainAt] > 3 => w = e

Room   == CompCache >= Lag("tr1") + 2
InTime == NestedDelta = 1 \/ Lag("tr1") = HelperDelay

(* An envelope is of the frame's neighbours, and those are in the caches.  *)
Near(x, e) == x.back \cup x.forw \subseteq (x.frame - 1 .. x.frame + 1) \cap (0 .. e - 1)

(* What they have worked on is stored for as long as it is wanted.         *)
Provided(e, w) ==
  /\ \A g \in Wanted : g < w => Envelope(g) # {}
  /\ Room => \A x \in stored : Near(x, e)
  /\ at = "retouch" /\ frame # Tick =>
       /\ e - Lag("tr1") - 1 <= frame /\ frame < w
       /\ Lag("tr1") = HelperDelay => frame = w - 1

Placed(e, w) == Reached(e) /\ Helped(e, w) /\ Provided(e, w)

LimitKept ==
  /\ missed["limit"] = {}
  /\ Room => missed["refs"] = {}
  /\ InTime => missed["vectors"] = {}

(* A drain ticks stages that hold frames back, and only those put one out. *)
LimitInv ==
  failures = 0 =>
    /\ LimitKept
    /\ frame # Tick => drainAt \in Filters
    /\ parameters.limit => \E e \in Nat : \E w \in Nat : Placed(e, w)

(* A row of frames gets the next one, and loses its first.                 *)
LEMMA RowAppend ==
  ASSUME NEW a \in Nat, NEW e \in Nat, a <= e, e \in Frames, NEW q, Row(q, a, e)
  PROVE  Row(Append(q, e), a, e + 1)
<1>1. /\ Append(q, e) \in Seq(Frames) /\ Len(Append(q, e)) = Len(q) + 1 /\ Len(q) \in Nat
      /\ \A i \in 1 .. Len(q) : Append(q, e)[i] = q[i]
      /\ Append(q, e)[Len(q) + 1] = e
  BY AppendProperties, LenProperties DEF Row
<1>2. Len(q) = e - a /\ \A i \in 1 .. Len(q) : q[i] = a + i - 1
  BY DEF Row
<1>3. ASSUME NEW i \in 1 .. Len(Append(q, e)) PROVE Append(q, e)[i] = a + i - 1
  <2>1. i \in 1 .. Len(q) \/ i = Len(q) + 1
    BY <1>1
  <2>2. QED
    BY <1>1, <1>2, <2>1
<1>4. Len(Append(q, e)) = (e + 1) - a
  BY <1>1, <1>2
<1>5. QED
  BY <1>1, <1>3, <1>4 DEF Row

LEMMA RowTail ==
  ASSUME NEW a \in Nat, NEW e \in Nat, a < e, NEW q, Row(q, a, e)
  PROVE  Row(Tail(q), a + 1, e) /\ Head(q) = a /\ q # << >>
<1>1. Len(q) = e - a /\ q \in Seq(Frames) /\ \A i \in 1 .. Len(q) : q[i] = a + i - 1
  BY DEF Row
<1>2. q # << >>
  BY <1>1, EmptySeq
<1>3. /\ Head(q) = q[1] /\ Tail(q) \in Seq(Frames) /\ Len(Tail(q)) = Len(q) - 1
      /\ \A i \in 1 .. Len(q) - 1 : Tail(q)[i] = q[i + 1]
  BY <1>1, <1>2, HeadTailProperties
<1>4. Head(q) = a
  BY <1>1, <1>3
<1>5. ASSUME NEW i \in 1 .. Len(Tail(q)) PROVE Tail(q)[i] = (a + 1) + i - 1
  <2>1. i + 1 \in 1 .. Len(q) /\ i \in 1 .. Len(q) - 1
    BY <1>1, <1>3
  <2>2. QED
    BY <1>1, <1>3, <2>1
<1>6. Len(Tail(q)) = e - (a + 1)
  BY <1>1, <1>3
<1>7. QED
  BY <1>2, <1>3, <1>4, <1>5, <1>6 DEF Row

LEMMA FirstOfFacts ==
  ASSUME NEW e \in Nat, NEW n \in Nat
  PROVE  /\ FirstOf(e, n) \in Nat /\ FirstOf(e, n) <= e
         /\ e < n => FirstOf(e, n) = 0
         /\ n <= e => FirstOf(e, n) = e - n
BY DEF FirstOf

(* A cache that has the last frames of a stream has them again.            *)
LEMMA RowCached ==
  ASSUME NEW e \in Nat, e \in Frames, NEW n \in Nat \ {0}, NEW q, Row(q, FirstOf(e, n), e)
  PROVE  Row(Cached(q, n, e), FirstOf(e + 1, n), e + 1)
<1>1. Len(q) = e - FirstOf(e, n) /\ FirstOf(e, n) \in Nat /\ FirstOf(e, n) <= e
  BY FirstOfFacts DEF Row
<1>2. CASE e < n
  <2>1. FirstOf(e, n) = 0 /\ FirstOf(e + 1, n) = 0 /\ Len(q) < n
    BY <1>1, <1>2 DEF FirstOf
  <2>2. Cached(q, n, e) = Append(q, e)
    BY <2>1 DEF Cached
  <2>3. QED
    BY <2>1, <2>2, RowAppend
<1>3. CASE n <= e
  <2>1. FirstOf(e, n) = e - n /\ FirstOf(e + 1, n) = (e - n) + 1 /\ ~ Len(q) < n /\ e - n \in Nat
    BY <1>1, <1>3 DEF FirstOf
  <2>2. Cached(q, n, e) = Append(Tail(q), e)
    BY <2>1 DEF Cached
  <2>3. Row(Tail(q), (e - n) + 1, e)
    BY <2>1, RowTail
  <2>4. (e - n) + 1 \in Nat /\ (e - n) + 1 <= e
    BY <2>1
  <2>5. QED
    BY <2>1, <2>2, <2>3, <2>4, RowAppend
<1>4. QED
  BY <1>2, <1>3

LEMMA RowHas ==
  ASSUME NEW a \in Nat, NEW e \in Nat, NEW q, Row(q, a, e), NEW f \in Nat, a <= f, f < e
  PROVE  f \in Elems(q)
<1>1. (f - a) + 1 \in 1 .. Len(q) /\ q[(f - a) + 1] = a + ((f - a) + 1) - 1
  BY DEF Row
<1>2. QED
  BY <1>1 DEF Elems

(* What is around a frame of it are the frame and its neighbours.          *)
LEMMA RowAround ==
  ASSUME NEW a \in Nat, NEW e \in Nat, NEW q, Row(q, a, e), NEW f \in Nat, a <= f, f < e
  PROVE  Around(q, f) \subseteq (f - 1 .. f + 1) \cap (0 .. e - 1)
<1> DEFINE i == CHOOSE i \in 1 .. Len(q) : q[i] = f
<1>1. Len(q) = e - a /\ \A k \in 1 .. Len(q) : q[k] = a + k - 1
  BY DEF Row
<1>2. \E k \in 1 .. Len(q) : q[k] = f
  BY RowHas DEF Elems
<1>3. i \in 1 .. Len(q) /\ q[i] = f
  BY <1>2
<1>4. Around(q, f) = {q[j] : j \in {i - 1, i, i + 1} \cap (1 .. Len(q))}
  BY DEF Around
<1> HIDE DEF i
<1>5. f = a + i - 1
  BY <1>1, <1>3
<1>6. ASSUME NEW j \in {i - 1, i, i + 1} \cap (1 .. Len(q))
      PROVE  q[j] \in (f - 1 .. f + 1) \cap (0 .. e - 1)
  <2>1. j \in 1 .. Len(q) /\ q[j] = a + j - 1
    BY <1>1
  <2>2. QED
    BY <1>1, <1>3, <1>5, <2>1
<1>7. QED
  BY <1>4, <1>6

(* The helpers' turn, with the frame EDI has got or a drain tick.          *)
LEMMA HelpersTurn ==
  ASSUME CachesOK, parameters \in Settings, NEW e \in Nat, NEW w \in Nat, w <= e, HelpersAt(helper, e, w),
         frame = Tick \/ (frame = e /\ e \in Frames),
         NEW x, x = Turn("back"), NEW e2, e2 = IF frame = Tick THEN e ELSE e + 1
  PROVE  /\ Turn("forw") = x /\ x \in Helping
         /\ Row(x.cache, FirstOf(e2, CompCache), e2) /\ Row(x.hold, w, e2) /\ x.bound = w - 1
<1>1. "back" \in Helpers /\ "forw" \in Helpers /\ helper["back"] \in Helping /\ helper["forw"] = helper["back"]
  BY DEF Helpers, CachesOK, HelpersAt
<1>2. PICK h : h = helper["back"]
  OBVIOUS
<1>3. Row(h.cache, FirstOf(e, CompCache), e) /\ Row(h.hold, w, e) /\ h.bound = w - 1
  BY <1>2 DEF HelpersAt
<1>4. CASE frame = Tick
  BY <1>1, <1>2, <1>3, <1>4 DEF Turn
<1>5. CASE frame # Tick
  <2>1. frame = e /\ e \in Frames /\ e2 = e + 1
    BY <1>5
  <2>2. /\ x = [h EXCEPT !.hold = Append(@, e), !.cache = Cached(@, CompCache, e)]
        /\ Turn("forw") = x
    BY <1>1, <1>2, <1>5, <2>1 DEF Turn, HelperFed
  <2>3. x.hold = Append(h.hold, e) /\ x.cache = Cached(h.cache, CompCache, e) /\ x.bound = h.bound
    BY <1>1, <1>2, <2>2 DEF Helping
  <2>4. Row(x.hold, w, e2)
    BY <1>3, <2>1, <2>3, RowAppend
  <2>5. Row(x.cache, FirstOf(e2, CompCache), e2)
    BY <1>3, <2>1, <2>3, RowCached, ChainAssumption
  <2>6. x \in Helping
    <3>1. frame \in Frames \cup {Tick}
      BY <2>1
    <3>2. QED
      BY <1>1, <3>1, TurnTyped
  <2>7. QED
    BY <1>3, <2>2, <2>3, <2>4, <2>5, <2>6
<1>6. QED
  BY <1>4, <1>5

(* How many frames they keep for the sake of those that come after.        *)
Ahead == IF frame = Tick THEN 0 ELSE HelperDelay

(* They wait for a later frame.                                            *)
LEMMA StoreWaits ==
  ASSUME CachesOK, parameters \in Settings, NEW e \in Nat, NEW w \in Nat, w <= e, HelpersAt(helper, e, w),
         frame = Tick \/ (frame = e /\ e \in Frames),
         NEW e2, e2 = IF frame = Tick THEN e ELSE e + 1, e2 - w <= Ahead, Store
  PROVE  HelpersAt(helper', e2, w) /\ stored' = stored
<1>1. PICK x : x = Turn("back")
  OBVIOUS
<1>2. /\ Turn("forw") = x /\ x \in Helping
      /\ Row(x.cache, FirstOf(e2, CompCache), e2) /\ Row(x.hold, w, e2) /\ x.bound = w - 1
  BY <1>1, HelpersTurn
<1>3. ~ Ready(x)
  BY <1>2, Parameters DEF Row, Ready, Ahead
<1>4. Built(x) = x
  BY <1>3 DEF Built
<1>5. helper' = [back |-> x, forw |-> x] /\ stored' = stored
  BY <1>1, <1>2, <1>3, <1>4 DEF Store
<1>6. QED
  BY <1>2, <1>5 DEF HelpersAt

(* They work on the first frame they have, and what they make is stored.   *)
LEMMA StoreWorks ==
  ASSUME CachesOK, parameters \in Settings, NEW e \in Nat, NEW w \in Nat, w <= e, HelpersAt(helper, e, w),
         frame = Tick \/ (frame = e /\ e \in Frames),
         NEW e2, e2 = IF frame = Tick THEN e ELSE e + 1, e2 - w > Ahead, Store
  PROVE  /\ HelpersAt(helper', e2, w + 1) /\ w < e2
         /\ \E q : /\ Row(q, FirstOf(e2, CompCache), e2)
                   /\ stored' = {x \in stored : x.frame # w}
                                  \cup {[frame |-> w, back |-> Around(q, w), forw |-> Around(q, w)]}
<1>1. PICK x : x = Turn("back")
  OBVIOUS
<1>2. /\ Turn("forw") = x /\ x \in Helping
      /\ Row(x.cache, FirstOf(e2, CompCache), e2) /\ Row(x.hold, w, e2) /\ x.bound = w - 1
  BY <1>1, HelpersTurn
<1>3. Ahead \in Nat /\ w < e2 /\ e2 \in Nat
  BY Parameters DEF Ahead
<1>4. Ready(x)
  BY <1>2, <1>3 DEF Row, Ready, Ahead
<1>5. Head(x.hold) = w /\ Row(Tail(x.hold), w + 1, e2)
  BY <1>2, <1>3, RowTail
<1>6. PICK y : y = Built(x)
  OBVIOUS
<1>7. y = [x EXCEPT !.hold = Tail(@), !.bound = w]
  BY <1>4, <1>5, <1>6 DEF Built
<1>8. y.hold = Tail(x.hold) /\ y.bound = w /\ y.cache = x.cache
  BY <1>2, <1>7 DEF Helping
<1>9. RefsOf(x) = Around(x.cache, w)
  BY <1>4, <1>5 DEF RefsOf
<1>10. helper' = [back |-> y, forw |-> y]
  BY <1>1, <1>2, <1>6 DEF Store
<1>11. stored' = {z \in stored : z.frame # w}
                   \cup {[frame |-> w, back |-> Around(x.cache, w), forw |-> Around(x.cache, w)]}
  BY <1>1, <1>2, <1>4, <1>5, <1>9 DEF Store
<1>12. HelpersAt(helper', e2, w + 1)
  <2>1. helper'["forw"] = y /\ helper'["back"] = y
    BY <1>10
  <2>2. Row(y.cache, FirstOf(e2, CompCache), e2) /\ Row(y.hold, w + 1, e2) /\ y.bound = (w + 1) - 1
    BY <1>2, <1>5, <1>8
  <2>3. QED
    BY <2>1, <2>2 DEF HelpersAt
<1>13. QED
  BY <1>2, <1>3, <1>11, <1>12

(* TR1 holds back no less than the helpers, and as much only if that is    *)
(* one frame.                                                              *)
LEMMA Tr1Lag ==
  ASSUME parameters \in Settings
  PROVE  /\ Lag("tr1") = Delay("tr1") + DepthOf("tr1") /\ Lag("tr1") \in Nat
         /\ HelperDelay <= Lag("tr1") /\ HelperDelay \in Nat /\ HelperDelay >= 1
         /\ Lag("tr1") = HelperDelay => Lag("tr1") = 1
<1>1. /\ parameters.tr1 \in 1 .. 2 /\ parameters.lowLatency \in BOOLEAN /\ Search \in Nat
      /\ HelperDelay \in Nat /\ HelperDelay >= 1 /\ Enabled("tr1")
  BY Parameters
<1>2. Delay("tr1") = parameters.tr1 + Search /\ HelperDelay = 1 + Search
  BY DEF Delay, HelperDelay
<1>3. DepthOf("tr1") = IF parameters.lowLatency THEN 0 ELSE TestDepth
  BY DEF DepthOf
<1>4. Lag("tr1") = Delay("tr1") + DepthOf("tr1")
  BY <1>1 DEF Lag
<1>5. TestDepth \in Nat /\ TestDepth >= 1
  BY ChainAssumption
<1>6. parameters.lowLatency => Search = 0
  BY DEF Search
<1>7. QED
  BY <1>1, <1>2, <1>3, <1>4, <1>5, <1>6

(* S is f and the frames of E, which come after it.                        *)
WithFirst(S, f, E) == S = E \cup {f} /\ Before({f}, E)

(* The first of the frames from a to b is taken off.                       *)
LEMMA FirstTaken ==
  ASSUME NEW a \in Int, NEW b \in Int, NEW f \in Int, NEW E, WithFirst(a .. b, f, E)
  PROVE  f = a /\ E = a + 1 .. b /\ a <= b
<1>1. f \in a .. b /\ a .. b = E \cup {f} /\ Before({f}, E)
  BY DEF WithFirst
<1>2. f = a
  <2>1. a \in E \cup {f}
    BY <1>1
  <2>2. a \in E => f < a
    BY <1>1 DEF Before
  <2>3. QED
    BY <1>1, <2>1, <2>2
<1>3. f \notin E
  BY <1>1 DEF Before
<1>4. E = (a .. b) \ {a}
  BY <1>1, <1>2, <1>3
<1>5. QED
  BY <1>1, <1>2, <1>4

LEMMA LimitParameters ==
  ASSUME parameters' = parameters
  PROVE  Room' = Room /\ InTime' = InTime /\ Lag("tr1")' = Lag("tr1") /\ HelperDelay' = HelperDelay
BY ParametersKept DEF Room, InTime

(* TR1 neither gets a frame nor puts one out.                              *)
LEMMA Tr1Same ==
  ASSUME stage'["tr1"] = stage["tr1"], at # "tr1" \/ frame = Tick, at' # "tr1" \/ frame' = Tick
  PROVE  InTr1' = InTr1
BY DEF InTr1, Under

(* Nor do EDI and the helpers, and no envelope that is wanted goes.        *)
LEMMA PlacedStays ==
  ASSUME NEW e \in Nat, NEW w \in Nat, Placed(e, w),
         (Early' = Early /\ inputs' = inputs) \/ Reached(e)',
         InTr1' = InTr1, parameters' = parameters, helper' = helper,
         stored' \subseteq stored, \A g \in InTr1 : Envelope(g) # {} => Envelope(g)' # {},
         at' # "retouch" \/ frame' = Tick,
         Pos[drainAt'] <= 2 => Pos[drainAt] <= 2,
         Pos[drainAt'] > 3 => Pos[drainAt] > 3 \/ w = e
  PROVE  Placed(e, w)'
<1>1. Reached(e)'
  BY DEF Placed, Reached
<1>2. Helped(e, w)'
  <2>1. HelperDelay' = HelperDelay
    BY LimitParameters
  <2>2. QED
    BY <2>1 DEF Placed, Helped
<1>3. Wanted' = InTr1' /\ InTr1 \subseteq Wanted
  BY DEF Wanted, Under
<1>4. \A g \in Wanted' : g < w => Envelope(g)' # {}
  BY <1>3 DEF Placed, Provided
<1>5. Room' => \A x \in stored' : Near(x, e)
  BY LimitParameters DEF Placed, Provided
<1>6. Provided(e, w)'
  BY <1>4, <1>5 DEF Provided
<1>7. QED
  BY <1>1, <1>2, <1>6 DEF Placed

(* What the helpers make of frame w is stored: of its neighbours, which    *)
(* are in their caches if there is room.                                   *)
LEMMA StoreProvides ==
  ASSUME parameters \in Settings, parameters' = parameters,
         NEW e \in Nat, NEW w \in Nat, NEW e2 \in {e, e + 1}, FirstOf(e, HelperDelay) <= w, w < e2,
         Wanted \subseteq Int, \A g \in Wanted : g < w => Envelope(g) # {},
         Room => \A x \in stored : Near(x, e),
         NEW q, Row(q, FirstOf(e2, CompCache), e2),
         stored' = {x \in stored : x.frame # w}
                     \cup {[frame |-> w, back |-> Around(q, w), forw |-> Around(q, w)]},
         Wanted' \subseteq Wanted \cup {e}
  PROVE  /\ \A g \in Wanted' : g < w + 1 => Envelope(g)' # {}
         /\ Room' => \A x \in stored' : Near(x, e2)
<1> DEFINE new == [frame |-> w, back |-> Around(q, w), forw |-> Around(q, w)]
<1>1. new.frame = w /\ new.back = Around(q, w) /\ new.forw = Around(q, w) /\ new \in stored'
  OBVIOUS
<1>2. stored' \subseteq {x \in stored : x.frame # w} \cup {new} /\ {x \in stored : x.frame # w} \subseteq stored'
  OBVIOUS
<1> HIDE DEF new
<1>3. Envelope(w)' # {}
  <2>1. new \in Envelope(w)'
    BY <1>1 DEF Envelope
  <2>2. QED
    BY <2>1
<1>4. ASSUME NEW g \in Wanted', g < w + 1 PROVE Envelope(g)' # {}
  <2>1. g \in Wanted \/ g = e
    OBVIOUS
  <2>2. g \in Int /\ (g = w \/ (g < w /\ g \in Wanted))
    BY <1>4, <2>1
  <2>3. CASE g = w
    BY <1>3, <2>3
  <2>4. CASE g < w /\ g \in Wanted
    <3>1. PICK x \in stored : x.frame = g
      BY <2>4 DEF Envelope
    <3>2. x \in stored'
      BY <1>2, <2>2, <2>4, <3>1
    <3>3. x \in Envelope(g)'
      BY <3>1, <3>2 DEF Envelope
    <3>4. QED
      BY <3>3
  <2>5. QED
    BY <2>2, <2>3, <2>4
<1>5. ASSUME Room, NEW x \in stored' PROVE Near(x, e2)
  <2>1. CASE x \in stored
    <3>1. Near(x, e)
      BY <1>5, <2>1
    <3>2. 0 .. e - 1 \subseteq 0 .. e2 - 1
      OBVIOUS
    <3>3. QED
      BY <3>1, <3>2 DEF Near
  <2>2. CASE x = new
    <3>1. FirstOf(e2, CompCache) <= w /\ FirstOf(e2, CompCache) \in Nat
      <4>1. CompCache \in Nat /\ HelperDelay \in Nat /\ CompCache >= HelperDelay + 2
        BY <1>5, Tr1Lag, ChainAssumption DEF Room
      <4>2. PICK c \in Nat, h \in Nat : c = CompCache /\ h = HelperDelay
        BY <4>1
      <4>3. FirstOf(e, h) <= w /\ c >= h + 2
        BY <4>1, <4>2
      <4>4. FirstOf(e2, c) <= w /\ FirstOf(e2, c) \in Nat
        BY <4>3 DEF FirstOf
      <4>5. QED
        BY <4>2, <4>4
    <3>2. Around(q, w) \subseteq (w - 1 .. w + 1) \cap (0 .. e2 - 1)
      BY <3>1, RowAround
    <3>3. QED
      BY <1>1, <2>2, <3>2 DEF Near
  <2>3. QED
    BY <1>2, <2>1, <2>2
<1>6. Room' = Room
  BY LimitParameters
<1>7. QED
  BY <1>4, <1>5, <1>6

(* The helpers work on a frame for every one they get, once they have as   *)
(* many as they keep.                                                      *)
LEMMA FirstOfNext ==
  ASSUME NEW e \in Nat, NEW h \in Nat, h >= 1, NEW w \in Nat, w = FirstOf(e, h)
  PROVE  /\ (e + 1) - w <= h => w = FirstOf(e + 1, h) /\ w <= e + 1
         /\ (e + 1) - w > h => w + 1 = FirstOf(e + 1, h) /\ w + 1 <= e + 1
<1>1. CASE e < h
  <2>1. w = 0 /\ FirstOf(e + 1, h) = 0
    BY <1>1 DEF FirstOf
  <2>2. QED
    BY <1>1, <2>1
<1>2. CASE h <= e
  <2>1. w = e - h /\ FirstOf(e + 1, h) = (e + 1) - h
    BY <1>2 DEF FirstOf
  <2>2. QED
    BY <1>2, <2>1
<1>3. QED
  BY <1>1, <1>2

(* EDI gets a frame, and the helpers after it.                             *)
LEMMA EdiPlaces ==
  ASSUME ChainInv, parameters.limit, RunEdi, frame # Tick, drainAt \in Filters,
         NEW e \in Nat, NEW w \in Nat, Placed(e, w)
  PROVE  \E w2 \in Nat : Placed(e + 1, w2)'
<1>1. /\ parameters \in Settings /\ parameters' = parameters /\ inputs' = inputs /\ stage' = stage
      /\ inputs \in Nat /\ CachesOK /\ Control /\ Store /\ at = "edi" /\ Goes("tr1", frame)
  BY EarlyEdi, EarlyFacts DEF RunEdi, ChainInv, Counted
<1>2. at' = "tr1" /\ frame' = frame /\ drainAt' = drainAt
  BY <1>1 DEF Goes
<1>3. Early = Early' \cup {frame} /\ Before({frame}, Early') /\ frame \in Frames /\ frame \in Int
  BY EarlyEdi, FramesFacts
<1>4. PICK n \in Nat : n = inputs
  BY <1>1
<1>5. frame = e /\ Early' = e + 1 .. 2 * n - 1 /\ e <= 2 * n - 1
  <2>1. Early = e .. 2 * n - 1
    BY <1>4 DEF Placed, Reached
  <2>2. PICK E, f : E = Early' /\ f = frame
    OBVIOUS
  <2>3. e .. 2 * n - 1 = E \cup {f} /\ Before({f}, E) /\ f \in Int
    BY <1>3, <2>1, <2>2
  <2>4. PICK b \in Int : b = 2 * n - 1
    OBVIOUS
  <2>5. f = e /\ E = e + 1 .. b /\ e <= b
    <3>1. WithFirst(e .. b, f, E) /\ f \in Int /\ e \in Int
      BY <2>3, <2>4 DEF WithFirst
    <3>2. QED
      BY <3>1, <2>4, FirstTaken
  <2>6. QED
    BY <2>2, <2>4, <2>5
<1>6. PICK t \in 0 .. e : InTr1 = t .. e - 1
  BY DEF Placed, Reached
<1>7. InTr1' = InTr1 \cup {e} /\ InTr1' = t .. (e + 1) - 1
  <2>1. InTr1 = InStage(stage["tr1"]) /\ InTr1' = InStage(stage["tr1"]) \cup {e}
    BY <1>1, <1>2, <1>3, <1>5, FramesFacts DEF InTr1, Under
  <2>2. QED
    BY <1>6, <2>1
<1>8. Reached(e + 1)'
  <2>1. t \in 0 .. e + 1
    BY <1>6
  <2>2. QED
    BY <1>1, <1>4, <1>5, <1>7, <2>1 DEF Reached
<1>9. Pos[drainAt] <= 2
  <2>1. ~ drainAsked => drainAt = "prefilter"
    BY <1>1 DEF Control
  <2>2. drainAsked => Pos[drainAt] < 3
    BY <1>1, PosFacts DEF Control
  <2>3. Pos[drainAt] \in 0 .. 8
    BY PosFacts
  <2>4. QED
    BY <2>1, <2>2, <2>3, PosFacts
<1>10. PICK h \in Nat : h = HelperDelay /\ h >= 1 /\ h = HelperDelay'
  BY <1>1, Tr1Lag, LimitParameters
<1>11. w = FirstOf(e, h) /\ w <= e /\ HelpersAt(helper, e, w)
  BY <1>9, <1>10 DEF Placed, Helped
<1>12. Ahead = h /\ e + 1 = IF frame = Tick THEN e ELSE e + 1
  BY <1>10 DEF Ahead
<1>13. Wanted = InTr1 /\ Wanted' = InTr1'
  BY <1>1, <1>2 DEF Wanted, Under
<1>14. /\ \A g \in Wanted : g < w => Envelope(g) # {}
       /\ Room => \A x \in stored : Near(x, e)
  BY DEF Placed, Provided
<1>15. CASE (e + 1) - w <= h
  <2>1. HelpersAt(helper', e + 1, w) /\ stored' = stored
    BY <1>1, <1>3, <1>5, <1>11, <1>12, <1>15, StoreWaits
  <2>2. w = FirstOf(e + 1, h) /\ w <= e + 1
    BY <1>10, <1>11, <1>15, FirstOfNext
  <2>3. Helped(e + 1, w)'
    <3>1. ~ Pos[drainAt'] > 3
      BY <1>2, <1>9, PosFacts
    <3>2. QED
      BY <1>10, <2>1, <2>2, <3>1 DEF Helped
  <2>4. Provided(e + 1, w)'
    <3>1. \A g \in Wanted' : g < w => Envelope(g)' # {}
      BY <1>6, <1>7, <1>11, <1>13, <1>14, <2>1 DEF Envelope
    <3>2. Room' => \A x \in stored' : Near(x, e + 1)
      <4>1. 0 .. e - 1 \subseteq 0 .. (e + 1) - 1
        OBVIOUS
      <4>2. QED
        BY <1>1, <1>14, <2>1, <4>1, LimitParameters DEF Near
    <3>3. QED
      BY <1>2, <3>1, <3>2 DEF Provided
  <2>5. QED
    BY <1>8, <2>3, <2>4 DEF Placed
<1>16. CASE (e + 1) - w > h
  <2>1. PICK q : /\ HelpersAt(helper', e + 1, w + 1) /\ w < e + 1 /\ Row(q, FirstOf(e + 1, CompCache), e + 1)
                 /\ stored' = {x \in stored : x.frame # w}
                                \cup {[frame |-> w, back |-> Around(q, w), forw |-> Around(q, w)]}
    BY <1>1, <1>3, <1>5, <1>11, <1>12, <1>16, StoreWorks
  <2>2. w + 1 = FirstOf(e + 1, h) /\ w + 1 <= e + 1
    BY <1>10, <1>11, <1>16, FirstOfNext
  <2>3. Helped(e + 1, w + 1)'
    <3>1. ~ Pos[drainAt'] > 3
      BY <1>2, <1>9, PosFacts
    <3>2. QED
      BY <1>10, <2>1, <2>2, <3>1 DEF Helped
  <2>4. /\ \A g \in Wanted' : g < w + 1 => Envelope(g)' # {}
        /\ Room' => \A x \in stored' : Near(x, e + 1)
    <3>1. FirstOf(e, HelperDelay) <= w /\ e + 1 \in {e, e + 1} /\ Wanted \subseteq Int
      BY <1>6, <1>10, <1>11, <1>13
    <3>2. Wanted' \subseteq Wanted \cup {e}
      BY <1>7, <1>13
    <3>3. QED
      BY <1>1, <1>14, <2>1, <3>1, <3>2, StoreProvides
  <2>5. Provided(e + 1, w + 1)'
    BY <1>2, <2>4 DEF Provided
  <2>6. QED
    BY <1>8, <2>3, <2>5 DEF Placed
<1>17. QED
  BY <1>10, <1>11, <1>15, <1>16

(* EDI is drained: the helpers work on a frame, until none is left.        *)
LEMMA EdiDrains ==
  ASSUME ChainInv, parameters.limit, RunEdi, frame = Tick,
         NEW e \in Nat, NEW w \in Nat, Placed(e, w)
  PROVE  \E w2 \in Nat : Placed(e, w2)'
<1>1. /\ parameters \in Settings /\ parameters' = parameters /\ inputs' = inputs /\ stage' = stage
      /\ CachesOK /\ at = "edi" /\ inputs \in Nat
  BY EarlyFacts DEF RunEdi, ChainInv, Counted, Store
<1>2. Early' = Early
  BY EarlyStill
<1>3. drainAt = "edi"
  BY <1>1, PosFacts DEF ChainInv, Control, Rest
<1>4. w <= e /\ HelpersAt(helper, e, w) /\ FirstOf(e, HelperDelay) <= w
  BY DEF Placed, Helped
<1>5. Wanted = InTr1
  BY <1>1 DEF Wanted, Under
<1>6. PICK t \in 0 .. e : InTr1 = t .. e - 1
  BY DEF Placed, Reached
<1>7. CASE HelpersLeft
  <2>1. Store /\ UNCHANGED control
    BY <1>7 DEF RunEdi
  <2>2. at' = at /\ frame' = frame /\ drainAt' = drainAt
    BY <2>1 DEF control
  <2>3. InTr1' = InTr1 /\ Wanted' = Wanted
    <3>1. InTr1' = InTr1
      BY <1>1, <2>2, Tr1Same
    <3>2. QED
      BY <1>1, <1>5, <2>2, <3>1 DEF Wanted, Under
  <2>4. w < e
    <3>1. helper["back"].hold # << >>
      BY <1>4, <1>7 DEF HelpersLeft, HelpersAt, Helpers
    <3>2. Len(helper["back"].hold) = e - w /\ helper["back"].hold \in Seq(Frames)
      BY <1>4 DEF HelpersAt, Row
    <3>3. Len(helper["back"].hold) # 0
      BY <3>1, <3>2, EmptySeq
    <3>4. QED
      BY <1>4, <3>2, <3>3
  <2>5. Ahead = 0 /\ e = IF frame = Tick THEN e ELSE e + 1
    BY DEF Ahead
  <2>6. e - w > Ahead
    BY <2>4, <2>5
  <2>7. PICK q : /\ HelpersAt(helper', e, w + 1) /\ Row(q, FirstOf(e, CompCache), e)
                 /\ stored' = {x \in stored : x.frame # w}
                                \cup {[frame |-> w, back |-> Around(q, w), forw |-> Around(q, w)]}
    BY <1>1, <1>4, <2>1, <2>5, <2>6, StoreWorks
  <2>8. Reached(e)'
    BY <1>1, <1>2, <2>3 DEF Placed, Reached
  <2>9. Helped(e, w + 1)'
    <3>1. Pos[drainAt'] = 3
      BY <1>3, <2>2, PosFacts
    <3>2. HelperDelay' = HelperDelay /\ HelperDelay \in Nat
      BY <1>1, LimitParameters, Tr1Lag
    <3>3. FirstOf(e, HelperDelay') <= w + 1 /\ w + 1 <= e
      BY <1>4, <2>4, <3>2, FirstOfFacts
    <3>4. QED
      BY <2>7, <3>1, <3>3 DEF Helped
  <2>10. /\ \A g \in Wanted' : g < w + 1 => Envelope(g)' # {}
         /\ Room' => \A x \in stored' : Near(x, e)
    <3>1. /\ \A g \in Wanted : g < w => Envelope(g) # {}
          /\ Room => \A x \in stored : Near(x, e)
      BY DEF Placed, Provided
    <3>2. Wanted \subseteq Int /\ Wanted' \subseteq Wanted \cup {e} /\ e \in {e, e + 1}
      BY <1>5, <1>6, <2>3
    <3>3. QED
      BY <1>1, <1>4, <2>4, <2>7, <3>1, <3>2, StoreProvides
  <2>11. Provided(e, w + 1)'
    BY <1>1, <2>2, <2>10 DEF Provided
  <2>12. QED
    BY <2>8, <2>9, <2>11 DEF Placed
<1>8. CASE ~ HelpersLeft
  <2>1. StageDrained /\ helper' = helper /\ stored' = stored
    BY <1>8 DEF RunEdi
  <2>2. drainAt' = "tr1" /\ frame' = Tick
    BY <1>3, <2>1 DEF StageDrained, After
  <2>3. InTr1' = InTr1
    BY <1>1, <2>2, Tr1Same
  <2>4. w = e
    <3>1. helper["back"].hold = << >>
      BY <1>8 DEF HelpersLeft, Helpers
    <3>2. Len(helper["back"].hold) = e - w
      BY <1>4 DEF HelpersAt, Row
    <3>3. QED
      BY <1>4, <3>1, <3>2
  <2>5. ~ Pos[drainAt'] <= 2
    BY <2>2, PosFacts DEF Pos
  <2>6. Placed(e, w)'
    <3>1. \A g \in InTr1 : Envelope(g) # {} => Envelope(g)' # {}
      BY <2>1 DEF Envelope
    <3>2. QED
      BY <1>1, <1>2, <2>1, <2>2, <2>3, <2>4, <2>5, <3>1, PlacedStays
  <2>7. QED
    BY <2>6
<1>9. QED
  BY <1>7, <1>8

(* A stage whose frames are in order has each once.                        *)
LEMMA OrderedCount ==
  ASSUME NEW a, a.hold \in Seq(Frames), a.pending \in Seq(Frames), InOrder(a)
  PROVE  Cardinality(InStage(a)) = Len(a.hold) + Len(a.pending) /\ IsFiniteSet(InStage(a))
<1>1. PICK h \in Seq(Frames), p \in Seq(Frames) : h = a.hold /\ p = a.pending
  OBVIOUS
<1>2. Sorted(h) /\ Sorted(p) /\ Before(Elems(p), Elems(h))
  BY <1>1 DEF InOrder
<1>3. Cardinality(Elems(h)) = Len(h) /\ Cardinality(Elems(p)) = Len(p)
  BY <1>2, SortedCount, FramesFacts
<1>4. IsFiniteSet(Elems(h)) /\ IsFiniteSet(Elems(p)) /\ Elems(h) \subseteq Frames
  BY ElemsCount
<1>5. Elems(h) \cap Elems(p) = {}
  <2>1. ASSUME NEW x \in Elems(h), x \in Elems(p) PROVE FALSE
    <3>1. x < x /\ x \in Int
      BY <1>2, <1>4, <2>1, FramesFacts DEF Before
    <3>2. QED
      BY <3>1
  <2>2. QED
    BY <2>1
<1>6. InStage(a) = Elems(h) \cup Elems(p)
  BY <1>1 DEF InStage, Elems
<1>7. Cardinality({}) = 0 /\ Len(h) \in Nat /\ Len(p) \in Nat
  BY FS_EmptySet, LenProperties
<1>8. /\ IsFiniteSet(Elems(h) \cup Elems(p))
      /\ Cardinality(Elems(h) \cup Elems(p))
           = Cardinality(Elems(h)) + Cardinality(Elems(p)) - Cardinality(Elems(h) \cap Elems(p))
  BY <1>4, FS_Union
<1>9. Cardinality(Elems(h) \cup Elems(p)) = Len(h) + Len(p)
  <2>1. Cardinality(Elems(h) \cap Elems(p)) = 0
    BY <1>5, <1>7
  <2>2. PICK m \in Nat, k \in Nat : m = Len(h) /\ k = Len(p)
    BY <1>7
  <2>3. Cardinality(Elems(h) \cup Elems(p)) = (m + k) - 0
    BY <1>3, <1>8, <2>1, <2>2
  <2>4. QED
    BY <2>2, <2>3
<1>10. QED
  BY <1>1, <1>6, <1>8, <1>9

(* TR1 gets a frame or a drain tick.                                       *)
LEMMA Tr1Places ==
  ASSUME ChainInv, RunTemporal, at = "tr1", frame # Tick => drainAt \in Filters,
         NEW e \in Nat, NEW w \in Nat, Placed(e, w)
  PROVE  Placed(e, w)'
<1> DEFINE s == "tr1"
<1>1. /\ StagesOK /\ Control /\ Conveyed /\ parameters \in Settings /\ frame \in Frames \cup {Tick}
      /\ inputs' = inputs /\ parameters' = parameters /\ helper' = helper /\ stored' = stored
  BY DEF RunTemporal, ChainInv, Counted, Control
<1>2. s \in Filters /\ Enabled(s) /\ Pos[s] = 4 /\ After[s] = "retouch" /\ at = s
  BY PosFacts, Tr1Lag DEF RunTemporal, Pos, After
<1> HIDE DEF s
<1>3. PICK a : a = Answer(s)
  OBVIOUS
<1>4. [hold |-> a.hold, pending |-> a.pending] \in Holding(Frames)
      /\ Len(a.hold) <= Delay(s) /\ Len(a.pending) <= DepthOf(s)
  BY <1>1, <1>2, <1>3, AnswerTyped
<1>5. PICK x : x = [hold |-> a.hold, pending |-> a.pending]
  OBVIOUS
<1>6. stage' = [stage EXCEPT ![s] = x]
  BY <1>2, <1>3, <1>5 DEF RunTemporal, Left
<1>7. stage'[s] = x
  BY <1>1, <1>2, <1>4, <1>5, <1>6, StagesKept
<1>8. InStage(x) = InStage(a)
  BY <1>5 DEF InStage
<1>9. Answers(InTr1, a)
  <2>1. Answers(InStage(stage[at]) \cup Under(frame), a)
    BY <1>1, <1>2, <1>3, AnswerOrdered
  <2>2. InTr1 = InStage(stage[at]) \cup Under(frame)
    BY <1>2 DEF InTr1, s
  <2>3. QED
    BY <2>1, <2>2
<1>10. Early' = Early
  BY EarlyTemporal
<1>11. /\ \/ \E f \in a.out : Goes("retouch", f)
          \/ a.out = {} /\ frame # Tick /\ CascadeEnds
          \/ a.out = {} /\ frame = Tick /\ StageDrained
  BY <1>2, <1>3 DEF RunTemporal
<1>12. frame = Tick => drainAsked /\ drainAt = s
  BY <1>1, <1>2, PosFacts DEF Control, Rest, s
<1>13. CASE ~ PutsOut(a)
  <2>1. InStage(a) = InTr1 /\ a.out = {}
    BY <1>9, <1>13 DEF Answers, PutsOut
  <2>2. at' # s \/ frame' = Tick
    <3>1. drainAsked => second = Tick
      BY <1>1 DEF Control
    <3>2. QED
      BY <1>11, <2>1, <3>1 DEF CascadeEnds, StageDrained, s
  <2>3. at' # "retouch" \/ frame' = Tick
    <3>1. drainAsked => second = Tick
      BY <1>1 DEF Control
    <3>2. QED
      BY <1>11, <2>1, <3>1 DEF CascadeEnds, StageDrained
  <2>4. InTr1' = InTr1
    BY <1>7, <1>8, <2>1, <2>2 DEF InTr1, Under, s
  <2>5. /\ Pos[drainAt'] <= 2 => Pos[drainAt] <= 2
        /\ Pos[drainAt'] > 3 => Pos[drainAt] > 3
    <3>1. CASE CascadeEnds
      BY <3>1 DEF CascadeEnds
    <3>2. CASE frame = Tick /\ StageDrained
      <4>1. drainAt = s /\ drainAt' = "retouch"
        BY <1>2, <1>12, <3>2 DEF StageDrained
      <4>2. QED
        BY <1>2, <4>1, PosFacts
    <3>3. QED
      BY <1>11, <2>1, <3>1, <3>2
  <2>6. \A g \in InTr1 : Envelope(g) # {} => Envelope(g)' # {}
    BY <1>1 DEF Envelope
  <2>7. QED
    BY <1>1, <1>10, <2>3, <2>4, <2>5, <2>6, PlacedStays
<1>14. CASE PutsOut(a)
  <2>1. PICK f : a.out = {f} /\ InStage(a) = InTr1 \ {f} /\ Before({f}, InStage(a)) /\ f \in InTr1
    BY <1>9, <1>14 DEF Answers, PutsOut
  <2>2. PICK t \in 0 .. e : InTr1 = t .. e - 1
    BY DEF Placed, Reached
  <2>3. f = t /\ InStage(a) = t + 1 .. e - 1 /\ t <= e - 1 /\ f \in Int
    <3>1. WithFirst(t .. e - 1, f, InStage(a)) /\ f \in Int
      BY <2>1, <2>2 DEF WithFirst
    <3>2. PICK b \in Int : b = e - 1
      OBVIOUS
    <3>3. WithFirst(t .. b, f, InStage(a)) /\ t \in Int
      BY <3>1, <3>2
    <3>4. f = t /\ InStage(a) = t + 1 .. b /\ t <= b
      BY <3>1, <3>2, <3>3, FirstTaken
    <3>5. QED
      BY <3>1, <3>2, <3>4
  <2>4. Goes("retouch", f) /\ f # Tick
    BY <1>11, <2>1, <2>3 DEF Tick
  <2>5. at' = "retouch" /\ frame' = f /\ drainAt' = drainAt
    BY <2>4 DEF Goes
  <2>6. InTr1' = t + 1 .. e - 1
    BY <1>7, <1>8, <2>3, <2>5 DEF InTr1, s
  <2>7. Reached(e)'
    BY <1>1, <1>10, <2>3, <2>6 DEF Placed, Reached
  <2>8. HelperDelay' = HelperDelay /\ Lag("tr1")' = Lag("tr1") /\ Room' = Room
    BY <1>1, LimitParameters
  <2>9. Helped(e, w)'
    BY <1>1, <2>5, <2>8 DEF Placed, Helped
  <2>10. Wanted' = InTr1
    BY <2>2, <2>3, <2>4, <2>5, <2>6 DEF Wanted, Under
  <2>11. \A g \in Wanted' : g < w => Envelope(g)' # {}
    <3>1. InTr1 \subseteq Wanted
      BY DEF Wanted
    <3>2. QED
      BY <1>1, <2>10, <3>1 DEF Placed, Provided, Envelope
  <2>12. Room' => \A x2 \in stored' : Near(x2, e)
    BY <1>1, <2>8 DEF Placed, Provided
  <2>13. PICK l \in Nat, h \in Nat : l = Lag("tr1") /\ h = HelperDelay
    BY <1>1, Tr1Lag
  <2>14. h <= l /\ h >= 1 /\ (l = h => l = 1)
    BY <1>1, <2>13, Tr1Lag
  <2>15. FirstOf(e, h) <= w /\ w <= e /\ (Pos[drainAt] <= 2 => w = FirstOf(e, h)) /\ (Pos[drainAt] > 3 => w = e)
    BY <2>13 DEF Placed, Helped
  <2>16. e - l - 1 <= t /\ t < w /\ (l = h => t = w - 1)
    <3>1. CASE frame = Tick
      <4>1. w = e
        BY <1>2, <1>12, <2>15, <3>1
      <4>2. InStage(stage[s]) = t .. e - 1 /\ Cardinality(InStage(stage[s])) <= l
        BY <1>1, <1>2, <2>2, <2>13, <3>1, StageCount DEF InTr1, Under, s
      <4>3. Cardinality(t .. e - 1) = e - t
        BY <2>3, FS_Interval
      <4>4. e - t <= l
        BY <4>2, <4>3
      <4>5. QED
        BY <2>3, <2>14, <4>1, <4>4
    <3>2. CASE frame # Tick
      <4>1. Len(a.hold) = Delay(s) /\ Len(a.pending) = DepthOf(s)
        BY <1>1, <1>2, <1>3, <1>14, <3>2, AnswerFed DEF Full
      <4>2. Cardinality(InStage(a)) = l
        <5>1. InOrder(a)
          BY <1>1, <1>2, <1>3, AnswerOrdered
        <5>2. QED
          BY <1>1, <1>4, <2>13, <4>1, <5>1, Tr1Lag, OrderedCount DEF s, Holding
      <4>3. Cardinality(t + 1 .. e - 1) = (e - 1) - (t + 1) + 1
        BY <2>3, FS_Interval
      <4>4. e - t - 1 = l
        BY <2>3, <4>2, <4>3
      <4>5. Pos[drainAt] <= 3 /\ drainAt \in Filters
        <5>1. drainAt \in Filters /\ Pos[drainAt] \in Int
          BY <3>2, PosFacts
        <5>2. drainAsked => Pos[drainAt] < 4
          BY <1>1, <1>2, <3>2 DEF Control
        <5>3. ~ drainAsked => drainAt = "prefilter"
          BY <1>1 DEF Control
        <5>4. QED
          BY <5>1, <5>2, <5>3, PosFacts
      <4>6. Pos[drainAt] <= 2
        BY <4>5 DEF Filters, Pos
      <4>7. w = FirstOf(e, h)
        BY <2>15, <4>6
      <4>8. QED
        <5>1. t = e - l - 1 /\ t \in Nat /\ e > h
          BY <2>2, <2>14, <4>4
        <5>2. w = e - h
          BY <4>7, <5>1, FirstOfFacts
        <5>3. QED
          BY <2>14, <5>1, <5>2
    <3>3. QED
      BY <3>1, <3>2
  <2>17. Provided(e, w)'
    BY <2>3, <2>5, <2>8, <2>11, <2>12, <2>13, <2>16 DEF Provided
  <2>18. QED
    BY <2>7, <2>9, <2>17 DEF Placed
<1>15. QED
  BY <1>13, <1>14

(* The retouch finds what it needs for the frame TR1 has put out.          *)
LEMMA RetouchFinds ==
  ASSUME ChainInv, at = "retouch", frame # Tick, NEW e \in Nat, NEW w \in Nat, Placed(e, w)
  PROVE  /\ "limit" \notin LimitMisses(frame)
         /\ Room => "refs" \notin LimitMisses(frame)
         /\ InTime => "vectors" \notin LimitMisses(frame)
<1>1. frame \in Frames /\ parameters \in Settings /\ stored \subseteq Envelopes
  BY DEF ChainInv, Control, Counted, CachesOK
<1>2. PICK f \in Nat : f = frame
  BY <1>1, FramesFacts
<1>3. PICK l \in Nat, h \in Nat : l = Lag("tr1") /\ h = HelperDelay
  BY <1>1, Tr1Lag
<1>4. e - l - 1 <= f /\ f < w /\ (l = h => f = w - 1)
  BY <1>2, <1>3 DEF Placed, Provided
<1>5. w <= e /\ HelpersAt(helper, e, w)
  BY DEF Placed, Helped
<1>6. Envelope(frame) # {}
  <2>1. frame \in Wanted
    BY DEF Wanted, Under
  <2>2. QED
    BY <1>2, <1>4, <2>1 DEF Placed, Provided
<1>7. ASSUME Room, NEW x \in Envelope(frame) PROVE RefsIntact(x)
  <2>1. x \in stored /\ x.frame = f /\ Near(x, e)
    BY <1>2, <1>7 DEF Envelope, Placed, Provided
  <2>2. PICK c \in Nat : c = CompCache /\ c >= l + 2
    BY <1>3, <1>7, ChainAssumption DEF Room
  <2>3. PICK q : q = helper["back"].cache
    OBVIOUS
  <2>4. Row(q, FirstOf(e, c), e) /\ helper["forw"].cache = q /\ FirstOf(e, c) \in Nat
    BY <1>5, <2>2, <2>3, FirstOfFacts DEF HelpersAt
  <2>5. ASSUME NEW g \in x.back \cup x.forw PROVE g \in Elems(q)
    <3>1. g \in f - 1 .. f + 1 /\ g \in 0 .. e - 1
      BY <2>1 DEF Near
    <3>2. FirstOf(e, c) <= g
      <4>1. CASE e < c
        BY <3>1, <4>1, FirstOfFacts
      <4>2. CASE c <= e
        <5>1. FirstOf(e, c) = e - c
          BY <4>2, FirstOfFacts
        <5>2. QED
          BY <1>4, <2>2, <3>1, <5>1
      <4>3. QED
        BY <4>1, <4>2
    <3>3. g \in Nat /\ g < e
      BY <3>1
    <3>4. QED
      BY <2>4, <3>2, <3>3, RowHas
  <2>6. DOMAIN q = 1 .. Len(q)
    BY <2>4, LenProperties DEF Row
  <2>7. /\ x.back \subseteq {q[i] : i \in DOMAIN q}
        /\ x.forw \subseteq {q[i] : i \in DOMAIN q}
    BY <2>5, <2>6 DEF Elems
  <2>8. QED
    BY <2>3, <2>4, <2>7 DEF RefsIntact
<1>8. ASSUME InTime PROVE VectorsAt(frame) = frame
  <2>1. CASE NestedDelta = 1
    BY <2>1 DEF VectorsAt, Copied
  <2>2. CASE l = h
    <3>1. helper["back"].bound = w - 1
      BY <1>5 DEF HelpersAt
    <3>2. QED
      BY <1>2, <1>4, <2>2, <3>1 DEF VectorsAt
  <2>3. QED
    BY <1>3, <1>8, <2>1, <2>2 DEF InTime
<1>9. QED
  BY <1>6, <1>7, <1>8 DEF LimitMisses

(* A drain has frames under way only behind a stage that holds some back.  *)
LEMMA FedNext ==
  ASSUME ChainInv, ChainInv', frame # Tick => drainAt \in Filters, [ChainNext]_chainVars
  PROVE  frame' # Tick => drainAt' \in Filters
<1>1. Control /\ Control'
  BY DEF ChainInv
<1>2. CASE ~ drainAsked'
  <2>1. drainAt' = "prefilter"
    BY <1>1, <1>2 DEF Control
  <2>2. QED
    BY <2>1, PosFacts
<1>3. CASE drainAsked' /\ drainAsked
  <2>1. second = Tick
    BY <1>1, <1>3 DEF Control
  <2>2. frame = Tick /\ at \notin Rest => at = drainAt
    BY <1>1, <1>3 DEF Control
  <2>3. CASE \E f : Goes(After[at], f) /\ at \in Filters
    <3>1. drainAt' = drainAt /\ at \notin Rest
      BY <2>3, PosFacts DEF Goes
    <3>2. QED
      BY <2>2, <2>3, <3>1
  <2>4. CASE frame' = frame /\ drainAt' = drainAt
    BY <2>4
  <2>5. CASE frame' = Tick
    BY <2>5
  <2>6. \/ \E f : Goes(After[at], f) /\ at \in Filters
        \/ frame' = frame /\ drainAt' = drainAt
        \/ frame' = Tick
    <3>1. CASE Push \/ InputFails \/ PushReturns
      BY <1>3, <3>1 DEF Push, InputFails, PushReturns
    <3>2. CASE PassThrough \/ RunTemporal
      BY <2>1, <3>2 DEF PassThrough, RunTemporal, StageDrained, CascadeEnds
    <3>3. CASE RunEdi \/ RunRetouch
      BY <3>3 DEF RunEdi, RunRetouch, StageDrained, Goes, control
    <3>4. CASE Sink
      BY <2>1, <3>4 DEF Sink, CascadeEnds
    <3>5. CASE DrainReturns \/ Drain \/ AskChain
      BY <3>5 DEF DrainReturns, Drain, AskChain
    <3>6. CASE FilterFails \/ EdiFails \/ StepFails
      BY <3>6 DEF FilterFails, EdiFails, StepFails, CallFails
    <3>7. CASE UNCHANGED chainVars
      BY <3>7 DEF chainVars, control
    <3>8. QED
      BY <3>1, <3>2, <3>3, <3>4, <3>5, <3>6, <3>7 DEF ChainNext, RunStage
  <2>7. QED
    BY <2>3, <2>4, <2>5, <2>6
<1>4. CASE drainAsked' /\ ~ drainAsked
  <2>1. AskChain
    BY <1>4 DEF ChainNext, RunStage, Push, InputFails, PushReturns, PassThrough, RunTemporal, RunEdi, RunRetouch,
                StageDrained, CascadeEnds, Goes, Sink, DrainReturns, Drain, FilterFails, EdiFails, StepFails,
                CallFails, chainVars, control
  <2>2. frame' = frame /\ frame = Tick
    BY <1>1, <2>1, PosFacts DEF AskChain, Control
  <2>3. QED
    BY <2>2
<1>5. QED
  BY <1>2, <1>3, <1>4

(* A step of another stage than EDI and TR1 brings TR1 no frame and takes  *)
(* none from it, and the drain goes on past EDI only from there.           *)
LEMMA MovesElsewhere ==
  ASSUME ChainInv, at \in DOMAIN After \cup {"sink"}, at # "edi", at # "tr1",
         \/ at \in DOMAIN After /\ \E f : Goes(After[at], f)
         \/ CascadeEnds
         \/ at \in DOMAIN After /\ frame = Tick /\ StageDrained
  PROVE  /\ at' # "tr1" \/ frame' = Tick
         /\ at' # "retouch" \/ frame' = Tick
         /\ Pos[drainAt'] <= 2 => Pos[drainAt] <= 2
         /\ Pos[drainAt'] > 3 => Pos[drainAt] > 3
<1>1. Control /\ at \notin Rest
  BY PosFacts DEF ChainInv
<1>2. CASE at \in DOMAIN After /\ \E f : Goes(After[at], f)
  <2>1. at' = After[at] /\ drainAt' = drainAt
    BY <1>2 DEF Goes
  <2>2. After[at] # "tr1" /\ After[at] # "retouch"
    BY <1>2 DEF After
  <2>3. QED
    BY <2>1, <2>2
<1>3. CASE CascadeEnds
  <2>1. drainAt' = drainAt /\ frame' = second
    BY <1>3 DEF CascadeEnds
  <2>2. drainAsked => second = Tick
    BY <1>1 DEF Control
  <2>3. ~ drainAsked => at' \in {"prefilter", "return"}
    BY <1>3 DEF CascadeEnds
  <2>4. QED
    BY <2>1, <2>2, <2>3
<1>4. CASE at \in DOMAIN After /\ frame = Tick /\ StageDrained
  <2>1. drainAt = at /\ drainAt' = After[at] /\ frame' = Tick
    BY <1>1, <1>4 DEF Control, StageDrained
  <2>2. Pos[drainAt'] = Pos[drainAt] + 1 /\ Pos[drainAt] \in 0 .. 8
    BY <1>4, <2>1, PosFacts
  <2>3. Pos[drainAt] # 3
    BY <1>4, <2>1, PosFacts
  <2>4. QED
    BY <2>1, <2>2, <2>3
<1>5. QED
  BY <1>2, <1>3, <1>4

(* The other steps leave all that as it is.                                *)
LEMMA PlacedElsewhere ==
  ASSUME ChainInv, NEW e \in Nat, NEW w \in Nat, Placed(e, w),
         \/ PassThrough \/ (RunTemporal /\ at # "tr1") \/ RunRetouch \/ Sink \/ PushReturns \/ DrainReturns
         \/ Drain \/ AskChain \/ UNCHANGED chainVars
  PROVE  Placed(e, w)'
<1>1. Control /\ StagesOK /\ Conveyed /\ parameters \in Settings
  BY DEF ChainInv, Counted
<1>2. Early' = Early
  BY EarlyTemporal, EarlyStill
<1>3. parameters' = parameters /\ inputs' = inputs /\ helper' = helper
  BY DEF PassThrough, RunTemporal, RunRetouch, Sink, PushReturns, DrainReturns, Drain, AskChain, chainVars, caches
<1>4. CASE PassThrough \/ (RunTemporal /\ at # "tr1")
  <2>1. at \in DOMAIN After /\ at # "edi" /\ at # "tr1" /\ at \in Filters
    BY <1>1, <1>4, PosFacts, Parameters DEF PassThrough, RunTemporal
  <2>2. \/ \E f : Goes(After[at], f)
        \/ CascadeEnds
        \/ frame = Tick /\ StageDrained
    BY <1>4 DEF PassThrough, RunTemporal
  <2>3. stored' = stored
    BY <1>4 DEF PassThrough, RunTemporal, caches
  <2>4. stage'["tr1"] = stage["tr1"]
    <3>1. stage \in [Filters -> Holding(Frames)] /\ "tr1" \in Filters
      BY <1>1, PosFacts DEF StagesOK
    <3>2. CASE PassThrough
      BY <3>2 DEF PassThrough, caches
    <3>3. CASE RunTemporal
      <4>1. \E x : stage' = [stage EXCEPT ![at] = x]
        BY <3>3 DEF RunTemporal, Left
      <4>2. QED
        BY <2>1, <3>1, <4>1
    <3>4. QED
      BY <1>4, <3>2, <3>3
  <2>5. /\ at' # "tr1" \/ frame' = Tick
        /\ at' # "retouch" \/ frame' = Tick
        /\ Pos[drainAt'] <= 2 => Pos[drainAt] <= 2
        /\ Pos[drainAt'] > 3 => Pos[drainAt] > 3
    BY <2>1, <2>2, MovesElsewhere
  <2>6. InTr1' = InTr1
    BY <2>1, <2>4, <2>5, Tr1Same
  <2>7. \A g \in InTr1 : Envelope(g) # {} => Envelope(g)' # {}
    BY <2>3 DEF Envelope
  <2>8. QED
    BY <1>2, <1>3, <2>3, <2>5, <2>6, <2>7, PlacedStays
<1>5. CASE RunRetouch
  <2>1. at = "retouch" /\ at \in DOMAIN After /\ stage' = stage /\ stored' = stored
    BY <1>5, PosFacts DEF RunRetouch, caches
  <2>2. \/ \E f : Goes(After[at], f)
        \/ frame = Tick /\ StageDrained
    BY <1>5 DEF RunRetouch
  <2>3. /\ at' # "tr1" \/ frame' = Tick
        /\ at' # "retouch" \/ frame' = Tick
        /\ Pos[drainAt'] <= 2 => Pos[drainAt] <= 2
        /\ Pos[drainAt'] > 3 => Pos[drainAt] > 3
    BY <2>1, <2>2, MovesElsewhere
  <2>4. InTr1' = InTr1
    BY <2>1, <2>3, Tr1Same
  <2>5. \A g \in InTr1 : Envelope(g) # {} => Envelope(g)' # {}
    BY <2>1 DEF Envelope
  <2>6. QED
    BY <1>2, <1>3, <2>1, <2>3, <2>4, <2>5, PlacedStays
<1>6. CASE Sink
  <2>1. at = "sink" /\ stage' = stage /\ CascadeEnds /\ stored' = stored \ Envelope(frame)
    BY <1>6 DEF Sink
  <2>2. /\ at' # "tr1" \/ frame' = Tick
        /\ at' # "retouch" \/ frame' = Tick
        /\ Pos[drainAt'] <= 2 => Pos[drainAt] <= 2
        /\ Pos[drainAt'] > 3 => Pos[drainAt] > 3
    BY <2>1, MovesElsewhere
  <2>3. InTr1' = InTr1 /\ InTr1 = InStage(stage["tr1"])
    BY <2>1, <2>2, Tr1Same DEF InTr1
  <2>4. ASSUME NEW g \in InTr1, Envelope(g) # {} PROVE Envelope(g)' # {}
    <3>1. frame < g /\ frame \in Int
      <4>1. Before({frame}, ChainOf(stage, Tick) \cup Under(second)) /\ frame \in Frames
        BY <1>1, <2>1, AtSink
      <4>2. g \in ChainOf(stage, Tick)
        BY <2>3, PosFacts, ChainMember
      <4>3. QED
        BY <4>1, <4>2, FramesFacts DEF Before
    <3>2. PICK x \in stored : x.frame = g
      BY <2>4 DEF Envelope
    <3>3. x \in stored'
      BY <2>1, <3>1, <3>2 DEF Envelope
    <3>4. x \in Envelope(g)'
      BY <3>2, <3>3 DEF Envelope
    <3>5. QED
      BY <3>4
  <2>5. stored' \subseteq stored
    BY <2>1
  <2>6. QED
    BY <1>2, <1>3, <2>2, <2>3, <2>4, <2>5, PlacedStays
<1>7. CASE PushReturns \/ DrainReturns \/ Drain \/ AskChain
  <2>1. at \in Rest
    BY <1>7, PosFacts DEF PushReturns, DrainReturns, Drain, AskChain
  <2>2. frame = Tick /\ at # "tr1"
    BY <1>1, <2>1 DEF Control, Rest
  <2>3. frame' = Tick /\ drainAt' = drainAt /\ stage' = stage /\ stored' = stored
    BY <1>7, <2>2 DEF PushReturns, DrainReturns, Drain, AskChain, caches
  <2>4. InTr1' = InTr1
    BY <2>2, <2>3, Tr1Same
  <2>5. \A g \in InTr1 : Envelope(g) # {} => Envelope(g)' # {}
    BY <2>3 DEF Envelope
  <2>6. QED
    BY <1>2, <1>3, <2>3, <2>4, <2>5, PlacedStays
<1>8. CASE UNCHANGED chainVars
  <2>1. /\ at' = at /\ frame' = frame /\ drainAt' = drainAt /\ stage' = stage /\ stored' = stored
    BY <1>8 DEF chainVars, caches, control
  <2>2. InTr1' = InTr1 /\ Wanted' = Wanted
    BY <2>1 DEF InTr1, Wanted
  <2>3. HelperDelay' = HelperDelay /\ Lag("tr1")' = Lag("tr1") /\ Room' = Room
    BY <1>3, LimitParameters
  <2>4. Reached(e)'
    BY <1>2, <1>3, <2>2 DEF Placed, Reached
  <2>5. Helped(e, w)'
    BY <1>3, <2>1, <2>3 DEF Placed, Helped
  <2>6. Provided(e, w)'
    BY <2>1, <2>2, <2>3 DEF Placed, Provided, Envelope
  <2>7. QED
    BY <2>4, <2>5, <2>6 DEF Placed
<1>9. QED
  BY <1>4, <1>5, <1>6, <1>7, <1>8

(* An input enters.                                                        *)
LEMMA PushPlaces ==
  ASSUME ChainInv, Push, NEW e \in Nat, NEW w \in Nat, Placed(e, w)
  PROVE  Placed(e, w)'
<1>1. /\ parameters' = parameters /\ helper' = helper /\ stored' = stored /\ stage' = stage /\ inputs' = inputs + 1
      /\ at = "idle" /\ at' = "prefilter" /\ drainAt' = "prefilter" /\ ~ drainAsked
  BY DEF Push
<1>2. drainAt = "prefilter"
  BY <1>1 DEF ChainInv, Control
<1>3. InTr1' = InTr1
  BY <1>1, Tr1Same
<1>4. Reached(e)'
  <2>1. PICK n \in Nat : n = inputs
    BY EarlyFacts
  <2>2. e <= 2 * n /\ Early = e .. 2 * n - 1
    BY <2>1 DEF Placed, Reached
  <2>3. Early' = Early \cup {2 * n, 2 * n + 1}
    BY <2>1, EarlyPush
  <2>4. Early' = e .. 2 * (n + 1) - 1 /\ e <= 2 * (n + 1)
    BY <2>2, <2>3
  <2>5. QED
    BY <1>1, <1>3, <2>1, <2>4 DEF Placed, Reached
<1>5. \A g \in InTr1 : Envelope(g) # {} => Envelope(g)' # {}
  BY <1>1 DEF Envelope
<1>6. QED
  BY <1>1, <1>2, <1>3, <1>4, <1>5, PlacedStays

(* What the limit needs stays whole with a frame that goes without none.   *)
LEMMA LimitKeeps ==
  ASSUME LimitKept, parameters' = parameters, NEW ns, NEW f, Misses(ns, f),
         "limit" \notin ns, Room => "refs" \notin ns, InTime => "vectors" \notin ns
  PROVE  LimitKept'
<1>1. \A n \in Needs : n \notin ns => missed'[n] = missed[n]
  BY DEF Misses
<1>2. "limit" \in Needs /\ "refs" \in Needs /\ "vectors" \in Needs
  BY DEF Needs
<1>3. Room' = Room /\ InTime' = InTime
  BY LimitParameters
<1>4. QED
  BY <1>1, <1>2, <1>3 DEF LimitKept

LEMMA LimitKeptNext ==
  ASSUME ChainInv, LimitKept, parameters.limit => \E e \in Nat : \E w \in Nat : Placed(e, w),
         [ChainNext]_chainVars
  PROVE  LimitKept'
<1>1. parameters' = parameters
  BY DEF ChainNext, RunStage, Push, PassThrough, RunTemporal, RunEdi, RunRetouch, Sink, DrainReturns, Drain,
         PushReturns, AskChain, InputFails, FilterFails, EdiFails, StepFails, chainVars
<1>2. CASE missed' = missed
  BY <1>1, <1>2, LimitParameters DEF LimitKept
<1>3. CASE RunEdi /\ frame # Tick
  <2>1. \E ns \in {{}, {"source"}} : Misses(ns, frame)
    BY <1>3 DEF RunEdi
  <2>2. QED
    BY <1>1, <2>1, LimitKeeps
<1>4. CASE RunRetouch /\ frame # Tick
  <2>1. Misses(LimitMisses(frame), frame) /\ at = "retouch"
    BY <1>4 DEF RunRetouch
  <2>2. CASE parameters.limit
    <3>1. PICK e \in Nat, w \in Nat : Placed(e, w)
      BY <2>2
    <3>2. QED
      BY <1>1, <1>4, <2>1, <3>1, RetouchFinds, LimitKeeps
  <2>3. CASE ~ parameters.limit
    <3>1. LimitMisses(frame) = {}
      BY <2>3 DEF LimitMisses
    <3>2. QED
      BY <1>1, <2>1, <3>1, LimitKeeps
  <2>4. QED
    BY <2>2, <2>3
<1>5. QED
  BY <1>2, <1>3, <1>4 DEF ChainNext, RunStage, Push, PassThrough, RunTemporal, RunEdi, RunRetouch, Sink,
         DrainReturns, Drain, PushReturns, AskChain, InputFails, FilterFails, EdiFails, StepFails, chainVars

LEMMA PlacedNext ==
  ASSUME ChainInv, parameters.limit, frame # Tick => drainAt \in Filters, failures' = 0, failures = 0,
         NEW e \in Nat, NEW w \in Nat, Placed(e, w), [ChainNext]_chainVars
  PROVE  \E e2 \in Nat : \E w2 \in Nat : Placed(e2, w2)'
<1>1. ~ (InputFails \/ FilterFails \/ EdiFails \/ StepFails)
  BY DEF InputFails, FilterFails, EdiFails, StepFails, CallFails
<1>2. CASE Push
  BY <1>2, PushPlaces
<1>3. CASE RunTemporal /\ at = "tr1"
  BY <1>3, Tr1Places
<1>4. CASE RunEdi /\ frame # Tick
  <2>1. PICK w2 \in Nat : Placed(e + 1, w2)'
    BY <1>4, EdiPlaces
  <2>2. e + 1 \in Nat
    OBVIOUS
  <2>3. QED
    BY <2>1, <2>2
<1>5. CASE RunEdi /\ frame = Tick
  BY <1>5, EdiDrains
<1>6. CASE \/ PassThrough \/ (RunTemporal /\ at # "tr1") \/ RunRetouch \/ Sink \/ PushReturns \/ DrainReturns
           \/ Drain \/ AskChain \/ UNCHANGED chainVars
  BY <1>6, PlacedElsewhere
<1>7. QED
  BY <1>1, <1>2, <1>3, <1>4, <1>5, <1>6 DEF ChainNext, RunStage

LEMMA LimitNext ==
  ASSUME ChainInv, ChainInv', LimitInv, [ChainNext]_chainVars
  PROVE  LimitInv'
<1> SUFFICES ASSUME failures' = 0
             PROVE  /\ LimitKept'
                    /\ frame' # Tick => drainAt' \in Filters
                    /\ parameters.limit' => \E e \in Nat : \E w \in Nat : Placed(e, w)'
  BY DEF LimitInv
<1>1. failures = 0
  <2>1. failures \in Nat
    BY DEF ChainInv, Counted
  <2>2. failures' = failures \/ failures' = failures + 1
    BY DEF ChainNext, RunStage, Push, PassThrough, RunTemporal, RunEdi, RunRetouch, Sink, DrainReturns, Drain,
           PushReturns, AskChain, InputFails, FilterFails, EdiFails, StepFails, CallFails, chainVars
  <2>3. QED
    BY <2>1, <2>2
<1>2. parameters' = parameters
  BY DEF ChainNext, RunStage, Push, PassThrough, RunTemporal, RunEdi, RunRetouch, Sink, DrainReturns, Drain,
         PushReturns, AskChain, InputFails, FilterFails, EdiFails, StepFails, chainVars
<1>3. /\ LimitKept /\ (frame # Tick => drainAt \in Filters)
      /\ parameters.limit => \E e \in Nat : \E w \in Nat : Placed(e, w)
  BY <1>1 DEF LimitInv
<1>4. LimitKept'
  BY <1>3, LimitKeptNext
<1>5. frame' # Tick => drainAt' \in Filters
  BY <1>3, FedNext
<1>6. ASSUME parameters.limit' PROVE \E e \in Nat : \E w \in Nat : Placed(e, w)'
  <2>1. parameters.limit
    BY <1>2, <1>6
  <2>2. PICK e \in Nat, w \in Nat : Placed(e, w)
    BY <1>3, <2>1
  <2>3. QED
    BY <1>1, <1>3, <2>1, <2>2, PlacedNext
<1>7. QED
  BY <1>4, <1>5, <1>6

LEMMA LimitBegins == ChainInit => LimitInv
<1> SUFFICES ASSUME ChainInit PROVE LimitInv
  OBVIOUS
<1>1. /\ inputs = 0 /\ stored = {} /\ at = "idle" /\ frame = Tick /\ second = Tick /\ drainAt = "prefilter"
      /\ stage = [s \in Filters |-> EmptyStage] /\ \A n \in Needs : missed[n] = {}
      /\ helper = [h \in Helpers |-> [hold |-> << >>, cache |-> << >>, bound |-> Tick]]
      /\ parameters \in Settings
  BY DEF ChainInit
<1>2. LimitKept
  BY <1>1 DEF LimitKept, Needs
<1>3. InTr1 = {} /\ Wanted = {} /\ Early = {}
  BY <1>1, PosFacts DEF InTr1, Wanted, Early, UnderWay, Under, InStage, EmptyStage
<1>4. Reached(0)
  <2>1. 0 .. 2 * inputs - 1 = {} /\ 0 .. 0 - 1 = {} /\ 0 <= 2 * inputs
    BY <1>1
  <2>2. QED
    BY <1>3, <2>1 DEF Reached
<1>5. Helped(0, 0)
  <2>1. HelperDelay \in Nat /\ CompCache \in Nat
    BY <1>1, Parameters, ChainAssumption
  <2>2. FirstOf(0, HelperDelay) = 0 /\ FirstOf(0, CompCache) = 0
    BY <2>1 DEF FirstOf
  <2>3. Row(<< >>, 0, 0)
    BY DEF Row
  <2>4. /\ helper["forw"] = helper["back"] /\ helper["back"].cache = << >> /\ helper["back"].hold = << >>
        /\ helper["back"].bound = 0 - 1
    BY <1>1 DEF Helpers, Tick
  <2>5. ~ Pos[drainAt] > 3
    BY <1>1, PosFacts
  <2>6. QED
    BY <2>2, <2>3, <2>4, <2>5 DEF Helped, HelpersAt
<1>6. Provided(0, 0)
  BY <1>1, <1>3 DEF Provided
<1>7. QED
  BY <1>1, <1>2, <1>4, <1>5, <1>6 DEF LimitInv, Placed

THEOREM LimitInvariant == ChainSpec => [](ChainInv /\ LimitInv)
<1>1. ChainInit => LimitInv
  BY LimitBegins
<1>2. ChainInv /\ ChainInv' /\ LimitInv /\ [ChainNext]_chainVars => LimitInv'
  BY LimitNext
<1>3. QED
  BY <1>1, <1>2, ChainInvariant, PTL DEF ChainSpec

(* The retouch finds the envelope of every frame stored, the last ones of  *)
(* the stream included, and the frames it is of in the helpers' caches.    *)
THEOREM EnvelopeWholeCorrect == ChainSpec => []EnvelopeWhole
<1>1. LimitInv => EnvelopeWhole
  BY DEF LimitInv, LimitKept, Room, EnvelopeWhole
<1>2. QED
  BY <1>1, LimitInvariant, PTL

(* It has been built with the frame's own vectors.                         *)
THEOREM OwnVectorsCorrect == ChainSpec => []OwnLimitVectors
<1>1. LimitInv => OwnLimitVectors
  BY DEF LimitInv, LimitKept, InTime, OwnLimitVectors
<1>2. QED
  BY <1>1, LimitInvariant, PTL

-----------------------------------------------------------------------------
(* How far the filter is behind its input                                  *)

(* Without a failure no frame is lost: the first ones have been put out    *)
(* in order, and the filter has the rest.                                  *)
NoneLost ==
  failures = 0 =>
    /\ Len(put) <= 2 * inputs
    /\ \A i \in 1 .. Len(put) : put[i] = i - 1
    /\ Inside \cup Leaving = Len(put) .. 2 * inputs - 1

LEMMA NoneLostTook ==
  ASSUME ChainInv, NoneLost, failures' = failures, inputs' = inputs, Inside' = Inside, NEW t, Took(t)
  PROVE  NoneLost'
<1> SUFFICES ASSUME failures = 0 PROVE NoneLost'
  BY DEF NoneLost
<1>1. inputs \in Nat /\ put \in Seq(Frames) /\ t \in Int
  BY EarlyFacts, FramesFacts DEF ChainInv, Counted, Took
<1>2. PICK n \in Nat, k \in Nat : n = inputs /\ k = Len(put)
  BY <1>1, LenProperties
<1>3. k <= 2 * n /\ Inside \cup Leaving = k .. 2 * n - 1 /\ \A i \in 1 .. k : put[i] = i - 1
  BY <1>2 DEF NoneLost
<1>4. Before({t}, Inside \cup Leaving')
  <2>1. Before(Leaving, Inside) /\ t \in Leaving /\ Before({t}, Leaving')
    BY DEF ChainInv, Conveyed, Took
  <2>2. QED
    BY <2>1 DEF Before
<1>5. PICK b \in Int : b = 2 * n - 1
  BY <1>2
<1>6. PICK E, f : E = Inside \cup Leaving' /\ f = t /\ f \in Int
  BY <1>1
<1>7. t = k /\ E = k + 1 .. b /\ k <= b
  <2>1. WithFirst(k .. b, f, E)
    BY <1>3, <1>4, <1>5, <1>6 DEF WithFirst, Took
  <2>2. WithFirst(k .. b, f, E) /\ k \in Int /\ b \in Int /\ f \in Int
    BY <1>2, <1>5, <1>6, <2>1
  <2>3. f = k /\ E = k + 1 .. b /\ k <= b
    BY <2>2, FirstTaken
  <2>4. QED
    BY <1>6, <2>3
<1>8. /\ Len(put') = k + 1 /\ put'[k + 1] = t /\ \A i \in 1 .. k : put'[i] = put[i]
  BY <1>1, <1>2, AppendProperties DEF Took
<1>9. \A i \in 1 .. k + 1 : put'[i] = i - 1
  BY <1>3, <1>7, <1>8
<1>10. Inside' \cup Leaving' = k + 1 .. 2 * n - 1 /\ k + 1 <= 2 * n
  BY <1>2, <1>5, <1>6, <1>7
<1>11. QED
  BY <1>2, <1>8, <1>9, <1>10 DEF NoneLost

LEMMA NoneLostNext ==
  ASSUME ChainInv, NoneLost, [ChainNext]_chainVars
  PROVE  NoneLost'
<1>1. CASE failures' # 0
  BY <1>1 DEF NoneLost
<1>2. CASE \/ PassThrough \/ RunTemporal \/ RunEdi \/ RunRetouch \/ Sink
  BY <1>2, StagesMove DEF NoneLost
<1>3. CASE Push
  <2>1. /\ Leaving' = {} /\ Leaving = {} /\ Inside' = Inside \cup {2 * inputs, 2 * inputs + 1}
    BY <1>3, PushStep
  <2>2. inputs' = inputs + 1 /\ put' = put /\ failures' = failures
    BY <1>3 DEF Push
  <2>3. PICK n \in Nat, k \in Nat : n = inputs /\ k = Len(put)
    BY EarlyFacts, LenProperties DEF ChainInv, Counted
  <2>4. ASSUME failures = 0
        PROVE  k <= 2 * (n + 1) /\ Inside' \cup Leaving' = k .. 2 * (n + 1) - 1
    <3>1. k <= 2 * n /\ Inside \cup Leaving = k .. 2 * n - 1
      BY <2>3, <2>4 DEF NoneLost
    <3>2. QED
      BY <2>1, <2>3, <3>1
  <2>5. QED
    BY <2>2, <2>3, <2>4 DEF NoneLost
<1>4. CASE PushReturns
  <2>1. inputs' = inputs /\ failures' = failures
    BY <1>4 DEF PushReturns
  <2>2. /\ Inside' = Inside
        /\ (put' = put /\ Leaving' = Leaving) \/ \E t : Took(t)
    BY <1>4, PushReturnsStep
  <2>3. CASE put' = put /\ Leaving' = Leaving
    BY <2>1, <2>2, <2>3 DEF NoneLost
  <2>4. CASE \E t : Took(t)
    BY <2>1, <2>2, <2>4, NoneLostTook
  <2>5. QED
    BY <2>2, <2>3, <2>4
<1>5. CASE DrainReturns
  <2>1. inputs' = inputs /\ failures' = failures
    BY <1>5 DEF DrainReturns
  <2>2. /\ Inside' = Inside
        /\ (put' = put /\ Leaving' = Leaving) \/ \E t : Took(t)
    BY <1>5, DrainReturnsStep
  <2>3. CASE put' = put /\ Leaving' = Leaving
    BY <2>1, <2>2, <2>3 DEF NoneLost
  <2>4. CASE \E t : Took(t)
    BY <2>1, <2>2, <2>4, NoneLostTook
  <2>5. QED
    BY <2>2, <2>3, <2>4
<1>6. CASE Drain \/ AskChain \/ UNCHANGED chainVars
  <2>1. Inside' = Inside /\ Leaving' = Leaving
    BY <1>6, DrainStep, AskStep, ChainStutters
  <2>2. inputs' = inputs /\ failures' = failures /\ put' = put
    BY <1>6 DEF Drain, AskChain, chainVars
  <2>3. QED
    BY <2>1, <2>2 DEF NoneLost
<1>7. CASE InputFails \/ FilterFails \/ EdiFails \/ StepFails
  <2>1. failures' # 0
    BY <1>7, InputFailsStep, FilterFailsStep, EdiFailsStep, StepFailsStep
  <2>2. QED
    BY <1>1, <2>1
<1>8. QED
  BY <1>2, <1>3, <1>4, <1>5, <1>6, <1>7 DEF ChainNext, RunStage

(* Frames that come before others are counted with them.                   *)
LEMMA BeforeCount ==
  ASSUME NEW A \in SUBSET Int, NEW B \in SUBSET Int, IsFiniteSet(A), IsFiniteSet(B), Before(A, B)
  PROVE  /\ IsFiniteSet(A \cup B) /\ Cardinality(A) \in Nat /\ Cardinality(B) \in Nat
         /\ Cardinality(A \cup B) = Cardinality(A) + Cardinality(B)
<1>1. A \cap B = {}
  <2>1. ASSUME NEW x \in A, x \in B PROVE FALSE
    <3>1. x < x /\ x \in Int
      BY <2>1 DEF Before
    <3>2. QED
      BY <3>1
  <2>2. QED
    BY <2>1
<1>2. Cardinality(A) \in Nat /\ Cardinality(B) \in Nat
  BY FS_CardinalityType
<1>3. /\ IsFiniteSet(A \cup B)
      /\ Cardinality(A \cup B) = Cardinality(A) + Cardinality(B) - Cardinality(A \cap B)
  BY FS_Union
<1>4. Cardinality(A \cap B) = 0
  BY <1>1, FS_EmptySet
<1>5. QED
  BY <1>2, <1>3, <1>4

(* What the stages have between calls is what each has.                    *)
LEMMA StagesCount ==
  ASSUME ChainInv
  PROVE  Cardinality(ChainOf(stage, Tick))
           = ((Cardinality(InStage(stage["tr2"])) + Cardinality(InStage(stage["tr1"])))
                + Cardinality(InStage(stage["analyze"]))) + Cardinality(InStage(stage["prefilter"]))
<1> DEFINE S(s) == InStage(stage[s])
<1>1. /\ "prefilter" \in Filters /\ "analyze" \in Filters /\ "tr1" \in Filters /\ "tr2" \in Filters
      /\ Filters = {"prefilter", "analyze", "tr1", "tr2"}
  BY DEF Filters
<1>2. \A s \in Filters : S(s) \in SUBSET Int /\ IsFiniteSet(S(s))
  BY StageCount, FramesFacts DEF ChainInv, Counted
<1>3. Pos["prefilter"] = 1 /\ Pos["analyze"] = 2 /\ Pos["tr1"] = 4 /\ Pos["tr2"] = 6
  BY DEF Pos
<1>4. \A s, t \in Filters : Pos[s] < Pos[t] => Before(S(t), S(s))
  BY DEF ChainInv, Conveyed, Ordered
<1>5. ChainOf(stage, Tick) = ((S("tr2") \cup S("tr1")) \cup S("analyze")) \cup S("prefilter")
  <2>1. Under(Tick) = {}
    BY DEF Under
  <2>2. QED
    BY <1>1, <2>1 DEF ChainOf
<1> HIDE DEF S
<1>6. Before(S("tr2"), S("tr1"))
  BY <1>1, <1>3, <1>4
<1>7. Before(S("tr2") \cup S("tr1"), S("analyze"))
  <2>1. Before(S("tr2"), S("analyze")) /\ Before(S("tr1"), S("analyze"))
    BY <1>1, <1>3, <1>4
  <2>2. QED
    BY <2>1 DEF Before
<1>8. Before((S("tr2") \cup S("tr1")) \cup S("analyze"), S("prefilter"))
  <2>1. Before(S("tr2"), S("prefilter")) /\ Before(S("tr1"), S("prefilter")) /\ Before(S("analyze"), S("prefilter"))
    BY <1>1, <1>3, <1>4
  <2>2. QED
    BY <2>1 DEF Before
<1>9. PICK A, B, C, D : A = S("tr2") /\ B = S("tr1") /\ C = S("analyze") /\ D = S("prefilter")
  OBVIOUS
<1>10. /\ A \in SUBSET Int /\ B \in SUBSET Int /\ C \in SUBSET Int /\ D \in SUBSET Int
       /\ IsFiniteSet(A) /\ IsFiniteSet(B) /\ IsFiniteSet(C) /\ IsFiniteSet(D)
  BY <1>1, <1>2, <1>9
<1>11. IsFiniteSet(A \cup B) /\ Cardinality(A \cup B) = Cardinality(A) + Cardinality(B)
  BY <1>6, <1>9, <1>10, BeforeCount
<1>12. PICK E : E = A \cup B
  OBVIOUS
<1>13. IsFiniteSet(E \cup C) /\ Cardinality(E \cup C) = Cardinality(E) + Cardinality(C)
  BY <1>7, <1>9, <1>10, <1>11, <1>12, BeforeCount
<1>14. PICK F : F = E \cup C
  OBVIOUS
<1>15. Cardinality(F \cup D) = Cardinality(F) + Cardinality(D)
  BY <1>8, <1>9, <1>10, <1>12, <1>13, <1>14, BeforeCount
<1>16. QED
  BY <1>5, <1>9, <1>11, <1>12, <1>13, <1>14, <1>15 DEF S

(* As long as no step has failed the filter is behind its input by what    *)
(* its stages hold back together: the ledger by which a caller pairs the   *)
(* fields, for every set of parameters.                                    *)
LagIsBacklog == BacklogIs(((Lag("tr2") + Lag("tr1")) + Lag("analyze")) + Lag("prefilter"))

THEOREM BacklogCorrect == ChainSpec => []LagIsBacklog
<1>1. ChainInit => NoneLost
  <2> SUFFICES ASSUME ChainInit PROVE NoneLost
    OBVIOUS
  <2>1. /\ inputs = 0 /\ put = << >> /\ outs = << >> /\ pendingOut = << >> /\ frame = Tick /\ second = Tick
        /\ stage = [s \in Filters |-> EmptyStage]
    BY DEF ChainInit
  <2>2. Len(put) = 0 /\ 0 .. 2 * inputs - 1 = {}
    BY <2>1
  <2>3. Inside = {} /\ Leaving = {}
    BY <2>1 DEF Inside, Leaving, Out, ChainOf, Under, InStage, EmptyStage
  <2>4. QED
    BY <2>1, <2>2, <2>3 DEF NoneLost
<1>2. ChainInv /\ NoneLost /\ [ChainNext]_chainVars => NoneLost'
  BY NoneLostNext
<1>3. ChainInv /\ NoneLost => LagIsBacklog
  <2> SUFFICES ASSUME ChainInv, NoneLost, at = "idle", failures = 0, ~ drainAsked,
                      NEW n, n = ((Lag("tr2") + Lag("tr1")) + Lag("analyze")) + Lag("prefilter")
               PROVE  Len(put) = IF 2 * inputs > n THEN 2 * inputs - n ELSE 0
    BY DEF LagIsBacklog, BacklogIs
  <2>1. PICK i \in Nat, k \in Nat : i = inputs /\ k = Len(put)
    BY EarlyFacts, LenProperties DEF ChainInv, Counted
  <2>2. ChainOf(stage, Tick) = k .. 2 * i - 1 /\ k <= 2 * i
    BY <2>1, IdleFacts DEF NoneLost
  <2>3. PICK a \in Nat, b \in Nat, c \in Nat, d \in Nat :
          a = Lag("tr2") /\ b = Lag("tr1") /\ c = Lag("analyze") /\ d = Lag("prefilter")
    BY Parameters, PosFacts DEF ChainInv, Counted
  <2>4. PICK A \in Nat, B \in Nat, C \in Nat, D \in Nat :
          /\ A = Cardinality(InStage(stage["tr2"])) /\ B = Cardinality(InStage(stage["tr1"]))
          /\ C = Cardinality(InStage(stage["analyze"])) /\ D = Cardinality(InStage(stage["prefilter"]))
          /\ A <= a /\ B <= b /\ C <= c /\ D <= d
    BY <2>3, StageCount, PosFacts DEF ChainInv, Counted
  <2>5. 2 * i - k = ((A + B) + C) + D
    <3>1. Cardinality(k .. 2 * i - 1) = 2 * i - k
      <4>1. PICK e \in Int : e = 2 * i - 1
        BY <2>1
      <4>2. k \in Int /\ e \in Int
        BY <2>1, <4>1
      <4>3. Cardinality(k .. e) = IF k > e THEN 0 ELSE e - k + 1
        BY <4>2, FS_Interval
      <4>4. QED
        BY <2>1, <2>2, <4>1, <4>3
    <3>2. QED
      BY <2>2, <2>4, <3>1, StagesCount
  <2>6. CASE put = << >>
    <3>1. k = 0
      BY <2>1, <2>6
    <3>2. QED
      BY <2>1, <2>3, <2>4, <2>5, <3>1
  <2>7. CASE put # << >>
    <3>1. ASSUME NEW s \in Filters PROVE Cardinality(InStage(stage[s])) = Lag(s)
      <4>1. StagesOK /\ parameters \in Settings /\ Flowing /\ Conveyed
        BY DEF ChainInv, Counted
      <4>2. CASE Enabled(s)
        <5>1. Some
          BY <2>7 DEF Some
        <5>2. Primed(s)
          BY <4>1, <4>2, <5>1 DEF Flowing, Passed
        <5>3. Len(stage[s].hold) = Delay(s) /\ Len(stage[s].pending) = DepthOf(s)
          BY <5>2 DEF Primed, Full
        <5>4. InOrder(stage[s]) /\ stage[s] \in Holding(Frames)
          BY <4>1 DEF Conveyed, Ordered, StagesOK
        <5>5. Cardinality(InStage(stage[s])) = Delay(s) + DepthOf(s)
          BY <5>3, <5>4, OrderedCount DEF Holding
        <5>6. QED
          BY <4>2, <5>5 DEF Lag
      <4>3. CASE ~ Enabled(s)
        <5>1. InStage(stage[s]) = {}
          BY <4>1, <4>3, StageCount
        <5>2. QED
          BY <4>3, <5>1, FS_EmptySet DEF Lag
      <4>4. QED
        BY <4>2, <4>3
    <3>2. A = a /\ B = b /\ C = c /\ D = d
      BY <2>3, <2>4, <3>1, PosFacts
    <3>3. k >= 1
      BY <2>1, <2>7, EmptySeq DEF ChainInv, Counted
    <3>4. n = ((a + b) + c) + d /\ n \in Nat
      BY <2>3
    <3>5. 2 * i - k = n
      BY <2>5, <3>2, <3>4
    <3>6. 2 * i > n /\ k = 2 * i - n
      BY <2>1, <3>3, <3>4, <3>5
    <3>7. QED
      BY <2>1, <3>6
  <2>8. QED
    BY <2>6, <2>7
<1>4. QED
  BY <1>1, <1>2, <1>3, ChainInvariant, PTL DEF ChainSpec

-----------------------------------------------------------------------------
(* The ledger of the flows                                                 *)

(* What the first pass of a flow is given where nothing is overridden.     *)
LEMMA PlainParameters ==
  ASSUME NEW flow, NEW p, p = Preset(PresetOf(flow))
  PROVE  /\ DeintParams(Plain(flow)).tr0 = p.tr0 /\ DeintParams(Plain(flow)).analyze = p.analyze
         /\ DeintParams(Plain(flow)).tr1 = p.tr1 /\ DeintParams(Plain(flow)).tr2 = p.tr2
         /\ DeintParams(With(Plain(flow), "deintAnalyzeDelta", 1)).tr0 = p.tr0
         /\ DeintParams(With(Plain(flow), "deintAnalyzeDelta", 1)).analyze = 1
         /\ DeintParams(With(Plain(flow), "deintAnalyzeDelta", 1)).tr1 = p.tr1
         /\ DeintParams(With(Plain(flow), "deintAnalyzeDelta", 1)).tr2 = p.tr2
         /\ ~ Plain(flow).lowLatency /\ ~ With(Plain(flow), "deintAnalyzeDelta", 1).lowLatency
<1>1. /\ "deintTr0" \in Overrides /\ "deintAnalyzeDelta" \in Overrides /\ "deintTr1Delta" \in Overrides
      /\ "deintTr2Delta" \in Overrides /\ "deintRetouchSmode" \in Overrides
  BY DEF Overrides
<1>2. PICK c, c1 : c = Plain(flow) /\ c1 = With(Plain(flow), "deintAnalyzeDelta", 1)
  OBVIOUS
<1>3. c.flow = flow /\ c.lowLatency = FALSE /\ \A f \in Overrides : c.set[f] = -1
  BY <1>2 DEF Plain
<1>4. /\ c1.flow = flow /\ c1.lowLatency = FALSE /\ c1.set["deintAnalyzeDelta"] = 1
      /\ \A f \in Overrides \ {"deintAnalyzeDelta"} : c1.set[f] = -1
  BY <1>1, <1>2 DEF Plain, With
<1>5. \A f \in Overrides : \A v : Over(c, f, v) = v /\ OverDelta(c, f, v) = v
  BY <1>3 DEF Over, OverDelta
<1>6. \A f \in Overrides \ {"deintAnalyzeDelta"} : \A v : Over(c1, f, v) = v /\ OverDelta(c1, f, v) = v
  BY <1>4 DEF Over, OverDelta
<1>7. \A v : OverDelta(c1, "deintAnalyzeDelta", v) = 1
  BY <1>4 DEF OverDelta, Least, MaxDelta
<1>8. \A x \in {c, c1} :
        DeintParams(x) = [p EXCEPT !.tr0     = Over(x, "deintTr0", @),
                                   !.analyze = OverDelta(x, "deintAnalyzeDelta", @),
                                   !.tr1     = OverDelta(x, "deintTr1Delta", @),
                                   !.tr2     = OverDelta(x, "deintTr2Delta", @),
                                   !.smode   = Over(x, "deintRetouchSmode", @)]
  BY <1>3, <1>4 DEF DeintParams
<1>9. p = [tr0 |-> p.tr0, analyze |-> p.analyze, tr1 |-> p.tr1, tr2 |-> p.tr2, rep1 |-> p.rep1,
           rep2 |-> p.rep2, smode |-> p.smode, slmode |-> p.slmode, slrad |-> p.slrad]
  BY DEF Preset
<1>10. ASSUME NEW x \in {c, c1}
       PROVE  /\ DeintParams(x).tr0 = Over(x, "deintTr0", p.tr0)
              /\ DeintParams(x).analyze = OverDelta(x, "deintAnalyzeDelta", p.analyze)
              /\ DeintParams(x).tr1 = OverDelta(x, "deintTr1Delta", p.tr1)
              /\ DeintParams(x).tr2 = OverDelta(x, "deintTr2Delta", p.tr2)
  <2>1. PICK v, w1, w2, w3, v5 :
          /\ v = Over(x, "deintTr0", p.tr0) /\ v5 = Over(x, "deintRetouchSmode", p.smode)
          /\ w1 = OverDelta(x, "deintAnalyzeDelta", p.analyze) /\ w2 = OverDelta(x, "deintTr1Delta", p.tr1)
          /\ w3 = OverDelta(x, "deintTr2Delta", p.tr2)
    OBVIOUS
  <2>2. DeintParams(x) = [p EXCEPT !.tr0 = v, !.analyze = w1, !.tr1 = w2, !.tr2 = w3, !.smode = v5]
    BY <1>8, <2>1
  <2>3. DeintParams(x).tr0 = v /\ DeintParams(x).analyze = w1 /\ DeintParams(x).tr1 = w2 /\ DeintParams(x).tr2 = w3
    BY <1>9, <2>2
  <2>4. QED
    BY <2>1, <2>3
<1>11. /\ DeintParams(c).tr0 = p.tr0 /\ DeintParams(c).analyze = p.analyze
       /\ DeintParams(c).tr1 = p.tr1 /\ DeintParams(c).tr2 = p.tr2
  BY <1>1, <1>5, <1>10
<1>12. /\ DeintParams(c1).tr0 = p.tr0 /\ DeintParams(c1).analyze = 1
       /\ DeintParams(c1).tr1 = p.tr1 /\ DeintParams(c1).tr2 = p.tr2
  <2>1. /\ Over(c1, "deintTr0", p.tr0) = p.tr0 /\ OverDelta(c1, "deintTr1Delta", p.tr1) = p.tr1
        /\ OverDelta(c1, "deintTr2Delta", p.tr2) = p.tr2
    BY <1>1, <1>6
  <2>2. QED
    BY <1>7, <1>10, <2>1
<1>13. ~ c.lowLatency /\ ~ c1.lowLatency
  BY <1>3, <1>4
<1>14. QED
  BY <1>2, <1>11, <1>12, <1>13

(* What the stages hold back together with the parameters of setting p.    *)
LEMMA PlainLag ==
  ASSUME TestDepth = 2, ~ parameters.lowLatency,
         NEW tr0 \in 1 .. 2, NEW a \in 1 .. 2, NEW tr1 \in 1 .. 2, NEW tr2 \in 0 .. 1, a <= tr0,
         parameters.tr0 = tr0, parameters.analyze = a, parameters.tr1 = tr1, parameters.tr2 = tr2
  PROVE  ((Lag("tr2") + Lag("tr1")) + Lag("analyze")) + Lag("prefilter")
           = (((IF tr2 = 0 THEN 0 ELSE tr2 + tr0 + 2) + (tr1 + tr0 + 2)) + NestedDelta + tr0) + tr0 + 1
<1>1. Search = tr0
  BY DEF Search
<1>6. NestedDelta = Most(a, Most(tr1, tr2)) /\ NestedDelta \in Int
  BY DEF NestedDelta, Most
<1>2. Lag("prefilter") = tr0 + 1
  BY DEF Lag, Delay, DepthOf, Enabled
<1>3. Lag("analyze") = NestedDelta + tr0
  BY <1>6 DEF Lag, Delay, DepthOf, Enabled
<1>4. Lag("tr1") = tr1 + tr0 + 2
  BY <1>1 DEF Lag, Delay, DepthOf, Enabled
<1>5. Lag("tr2") = IF tr2 = 0 THEN 0 ELSE tr2 + tr0 + 2
  BY <1>1 DEF Lag, Delay, DepthOf, Enabled
<1>7. QED
  BY <1>2, <1>3, <1>4, <1>5, <1>6

(* The four presets the ledger's flows start from.                         *)
LEMMA LedgerPresets ==
  /\ Preset(Slower).tr0 = 2 /\ Preset(Slower).analyze = 2 /\ Preset(Slower).tr1 = 2 /\ Preset(Slower).tr2 = 1
  /\ Preset(Slow).tr0 = 2 /\ Preset(Slow).analyze = 2 /\ Preset(Slow).tr1 = 1 /\ Preset(Slow).tr2 = 1
  /\ Preset(Fast).tr0 = 2 /\ Preset(Fast).analyze = 2 /\ Preset(Fast).tr1 = 1 /\ Preset(Fast).tr2 = 0
  /\ Preset(Faster).tr0 = 1 /\ Preset(Faster).analyze = 1 /\ Preset(Faster).tr1 = 1 /\ Preset(Faster).tr2 = 0
<1>1. Placebo = 0 /\ VerySlow = 1 /\ Slower = 2 /\ Slow = 3 /\ Medium = 4 /\ Fast = 5 /\ Faster = 6 /\ UltraFast = 9
  BY DEF Placebo, VerySlow, Slower, Slow, Medium, Fast, Faster, UltraFast
<1>2. Preset(Slower).tr0 = 2 /\ Preset(Slower).analyze = 2 /\ Preset(Slower).tr1 = 2 /\ Preset(Slower).tr2 = 1
  BY <1>1 DEF Preset
<1>3. Preset(Slow).tr0 = 2 /\ Preset(Slow).analyze = 2 /\ Preset(Slow).tr1 = 1 /\ Preset(Slow).tr2 = 1
  BY <1>1 DEF Preset
<1>4. Preset(Fast).tr0 = 2 /\ Preset(Fast).analyze = 2 /\ Preset(Fast).tr1 = 1 /\ Preset(Fast).tr2 = 0
  BY <1>1 DEF Preset
<1>5. Preset(Faster).tr0 = 1 /\ Preset(Faster).analyze = 1 /\ Preset(Faster).tr1 = 1 /\ Preset(Faster).tr2 = 0
  BY <1>1 DEF Preset
<1>6. QED
  BY <1>2, <1>3, <1>4, <1>5

(* RtgmDif.h, "Measured steady-state lags": the filter is behind its input *)
(* by what the ledger says of the flow, on whatever stream and whether or  *)
(* not steps of it may fail, until one does.                               *)
THEOREM DocumentedLedgerCorrect ==
  ASSUME TestDepth = 2
  PROVE  ChainSpec => []LedgerAsDocumented
<1>1. LagIsBacklog => LedgerAsDocumented
  <2>1. SUFFICES ASSUME LagIsBacklog,
                        NEW d \in Documented, NEW faults, NEW n, parameters = SettingOf(d[1], faults, n)
                 PROVE  BacklogIs(d[2])
    BY DEF LedgerAsDocumented
  <2>2. /\ parameters.tr0 = DeintParams(d[1]).tr0 /\ parameters.analyze = DeintParams(d[1]).analyze
        /\ parameters.tr1 = DeintParams(d[1]).tr1 /\ parameters.tr2 = DeintParams(d[1]).tr2
        /\ parameters.lowLatency = d[1].lowLatency
    BY <2>1 DEF SettingOf
  <2>3. NestedDelta = Most(Most(1, parameters.analyze), Most(parameters.tr1, parameters.tr2))
    BY DEF NestedDelta
  <2>4. BacklogIs(((Lag("tr2") + Lag("tr1")) + Lag("analyze")) + Lag("prefilter"))
    BY <2>1 DEF LagIsBacklog
  <2>5. CASE d = << Plain("slow"), 17 >>
    <3>1. PresetOf("slow") = Slow
      BY DEF PresetOf
    <3>2. ~ parameters.lowLatency /\ parameters.tr0 = 2 /\ parameters.analyze = 2 /\ parameters.tr1 = 1 /\ parameters.tr2 = 1
      BY <2>2, <2>5, <3>1, PlainParameters, LedgerPresets
    <3>3. NestedDelta = 2
      BY <2>3, <3>2 DEF Most
    <3>4. ((Lag("tr2") + Lag("tr1")) + Lag("analyze")) + Lag("prefilter") = 17
      BY <3>2, <3>3, PlainLag
    <3>5. QED
      BY <2>4, <2>5, <3>4
  <2>6. CASE d = << Plain("faster_nn1"), 8 >>
    <3>1. PresetOf("faster_nn1") = Faster
      BY DEF PresetOf
    <3>2. ~ parameters.lowLatency /\ parameters.tr0 = 1 /\ parameters.analyze = 1 /\ parameters.tr1 = 1 /\ parameters.tr2 = 0
      BY <2>2, <2>6, <3>1, PlainParameters, LedgerPresets
    <3>3. NestedDelta = 1
      BY <2>3, <3>2 DEF Most
    <3>4. ((Lag("tr2") + Lag("tr1")) + Lag("analyze")) + Lag("prefilter") = 8
      BY <3>2, <3>3, PlainLag
    <3>5. QED
      BY <2>4, <2>6, <3>4
  <2>7. CASE d = << Plain("slower"), 18 >>
    <3>1. PresetOf("slower") = Slower
      BY DEF PresetOf
    <3>2. ~ parameters.lowLatency /\ parameters.tr0 = 2 /\ parameters.analyze = 2 /\ parameters.tr1 = 2 /\ parameters.tr2 = 1
      BY <2>2, <2>7, <3>1, PlainParameters, LedgerPresets
    <3>3. NestedDelta = 2
      BY <2>3, <3>2 DEF Most
    <3>4. ((Lag("tr2") + Lag("tr1")) + Lag("analyze")) + Lag("prefilter") = 18
      BY <3>2, <3>3, PlainLag
    <3>5. QED
      BY <2>4, <2>7, <3>4
  <2>8. CASE d = << With(Plain("slow"), "deintAnalyzeDelta", 1), 16 >>
    <3>1. PresetOf("slow") = Slow
      BY DEF PresetOf
    <3>2. ~ parameters.lowLatency /\ parameters.tr0 = 2 /\ parameters.analyze = 1 /\ parameters.tr1 = 1 /\ parameters.tr2 = 1
      BY <2>2, <2>8, <3>1, PlainParameters, LedgerPresets
    <3>3. NestedDelta = 1
      BY <2>3, <3>2 DEF Most
    <3>4. ((Lag("tr2") + Lag("tr1")) + Lag("analyze")) + Lag("prefilter") = 16
      BY <3>2, <3>3, PlainLag
    <3>5. QED
      BY <2>4, <2>8, <3>4
  <2>9. CASE d = << Plain("fast_deint"), 12 >>
    <3>1. PresetOf("fast_deint") = Fast
      BY DEF PresetOf
    <3>2. ~ parameters.lowLatency /\ parameters.tr0 = 2 /\ parameters.analyze = 2 /\ parameters.tr1 = 1 /\ parameters.tr2 = 0
      BY <2>2, <2>9, <3>1, PlainParameters, LedgerPresets
    <3>3. NestedDelta = 2
      BY <2>3, <3>2 DEF Most
    <3>4. ((Lag("tr2") + Lag("tr1")) + Lag("analyze")) + Lag("prefilter") = 12
      BY <3>2, <3>3, PlainLag
    <3>5. QED
      BY <2>4, <2>9, <3>4
  <2>10. QED
    BY <2>5, <2>6, <2>7, <2>8, <2>9 DEF Documented
<1>2. QED
  BY <1>1, BacklogCorrect, PTL
=============================================================================
