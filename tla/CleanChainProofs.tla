-------------------------- MODULE CleanChainProofs --------------------------
(***************************************************************************)
(* Proofs about CleanChain, for every setting, every size of the pools and *)
(* every number of frames and of failures, and about FrameRing, for every  *)
(* pool size and every order of pushes, failed pushes and drops.           *)
(*                                                                         *)
(* ChainInv is what holds of the chain: the frames are in order along its  *)
(* stages; the stage drain() is at is the one that is ticked; without a    *)
(* failure, a stage that has put a frame out is full until it is drained;  *)
(* the reference ring has all the frames in the chain while there is room, *)
(* and of others two at most for each failed step.  From it follow the     *)
(* types, the bound of the peak, that every repair finds its reference,    *)
(* and that the chain is a Pass.  Enveloped says the like of the envelopes *)
(* of the sharpness limit.                                                 *)
(*                                                                         *)
(* FindReturnsTheFrame, of a ring, is not inductive: it needs to know that *)
(* the live entries occupy consecutive buffers, modulo the pool's size.    *)
(***************************************************************************)
EXTENDS CleanChain, FrameRing, StageFacts

(* The stages that have the chain's frames, and where a stage stands in    *)
(* the chain.                                                              *)
Line == {"analyze", "tr1", "tr2"}

Pos ==
  [idle |-> 0, analyze |-> 1, compb |-> 2, compf |-> 3, tr1 |-> 4, rep1 |-> 5, retouch |-> 6,
   tr2 |-> 7, rep2 |-> 8, sink |-> 9]

(* The frames in a chain whose stages are st, with frame f under way.      *)
Under(f) == IF f = Tick THEN {} ELSE {f}

ChainOf(st, f) == (UNION {InStage(st[s]) : s \in Line}) \cup Under(f)

(* Of the stages that have the chain's frames, only s is another in st2.   *)
OnlyOne(st, st2, s) == \A t \in Line : t # s => st2[t] = st[t]

(* The frames are in order along the chain, the one at p included.         *)
Ordered(st, p, f) ==
  /\ \A s \in Line : InOrder(st[s])
  /\ \A s, t \in Line : Pos[s] < Pos[t] => Before(InStage(st[t]), InStage(st[s]))
  /\ \A s \in Line :
       /\ f # Tick /\ Pos[p] <= Pos[s] => Before(InStage(st[s]), {f})
       /\ f # Tick /\ Pos[s] < Pos[p] => Before({f}, InStage(st[s]))

(* A frame has come out of stage s.                                        *)
Passed(st, p, f, q, s) ==
  \/ q # << >>
  \/ f # Tick /\ Pos[s] < Pos[p]
  \/ \E t \in Line : Pos[s] < Pos[t] /\ InStage(st[t]) # {}

(* Stage x holds back as much as it ever does.                             *)
Full(x, delay, depth) == Len(x.hold) = delay /\ Len(x.pending) = depth

-----------------------------------------------------------------------------

(* Every stage keeps within its delay, and one that is off has nothing.    *)
StagesOK ==
  /\ stage \in [Filters -> Holding(Frames)]
  /\ \A s \in Filters : Len(stage[s].hold) <= Delay(s) /\ Len(stage[s].pending) <= PipelineDepth(s)
  /\ \A s \in Filters : ~ Enabled(s) => stage[s] = EmptyStage

CompsOK ==
  /\ backRing \in Seq(Frames) /\ Len(backRing) <= CompPool
  /\ forwRing \in Seq(Frames) /\ Len(forwRing) <= CompPool

Counted ==
  /\ setting \in Settings
  /\ given \in 0 .. setting.frames
  /\ put \in Seq(Frames)
  /\ unlimited \in SUBSET Frames
  /\ fails \in 0 .. MaxFails

(* Who has the frame: a push has one under way until it returns, a drain   *)
(* ticks the stage it is at and takes what comes out down the chain.       *)
Control ==
  /\ at \in Places /\ drainAt \in Places
  /\ frame \in Frames \cup {Tick}
  /\ asked \in BOOLEAN /\ ended \in BOOLEAN
  /\ at = "idle" => frame = Tick
  /\ ~ asked => ~ ended
  /\ ~ asked /\ at # "idle" => frame # Tick /\ given > 0 /\ given - 1 \in ChainOf(stage, frame)
  /\ asked => drainAt # "idle"
  /\ asked /\ at # "idle" => ~ ended /\ drainAt # "sink"
  /\ asked /\ frame = Tick /\ at # "idle" => at = drainAt
  /\ asked /\ frame # Tick => Pos[drainAt] < Pos[at]

(* The frames are in order along the chain, and they have been given.      *)
Conveyed ==
  /\ Ordered(stage, at, frame)
  /\ ChainOf(stage, frame) \subseteq 0 .. given - 1

(* Without a failure a stage that has put a frame out holds back as much   *)
(* as it ever does until the drain is at it, which leaves it empty.        *)
Primed(s) ==
  /\ stage[s].hold # << >> => Len(stage[s].pending) = PipelineDepth(s)
  /\ asked /\ Pos[s] < Pos[drainAt] => InStage(stage[s]) = {}
  /\ ~ asked \/ Pos[drainAt] < Pos[s] => Full(stage[s], Delay(s), PipelineDepth(s))

Flowing ==
  fails = 0 => \A s \in Line : Enabled(s) /\ Passed(stage, at, frame, put, s) => Primed(s)

(* The reference ring has the frames in the chain while there is room, and *)
(* of others no more than two for every step that has failed.              *)
Retains(q, C, n, room) ==
  /\ q \in Seq(Frames) /\ Len(q) <= RefPool
  /\ Sorted(q)
  /\ Cardinality(Elems(q) \ C) <= 2 * n
  /\ room => C \subseteq Elems(q)

References ==
  /\ Elems(refRing) \subseteq 0 .. given - 1
  /\ NeedRef => Retains(refRing, ChainOf(stage, frame), fails, RefRoom)
  /\ ~ NeedRef => refRing = << >>
  /\ refPeak \in 0 .. RefPool
  /\ refPeak <= Backlog + 1 + 2 * fails

Repaired ==
  /\ unrepaired \in SUBSET Frames
  /\ RefRoom => unrepaired = {}

ChainInv ==
  StagesOK /\ CompsOK /\ Counted /\ Control /\ Conveyed /\ Flowing /\ References /\ Repaired

-----------------------------------------------------------------------------
(* The places and the parameters                                           *)

(* The stages follow one another, and every place has a position.          *)
LEMMA PosFacts ==
  /\ \A p \in Places : Pos[p] \in 0 .. 9
  /\ \A p \in DOMAIN After : p \in Places /\ After[p] \in Places /\ Pos[After[p]] = Pos[p] + 1 /\ Pos[p] >= 1
  /\ \A p, r \in Places : Pos[p] = Pos[r] => p = r
  /\ Filters \subseteq DOMAIN After /\ Line \subseteq Filters /\ Filters = Line \cup Comps
  /\ Line \cap Comps = {} /\ Repairs \subseteq DOMAIN After /\ "retouch" \in DOMAIN After
  /\ "idle" \in Places /\ "sink" \in Places /\ Pos["idle"] = 0 /\ Pos["sink"] = 9 /\ Pos["analyze"] = 1
  /\ "analyze" \in Line /\ "analyze" \in DOMAIN After /\ "tr1" \in Line /\ "tr2" \in Line
  /\ "idle" \notin DOMAIN After /\ "sink" \notin DOMAIN After
  /\ \A p \in DOMAIN After : After[p] # "idle"
<1>1. DOMAIN After = {"analyze", "compb", "compf", "tr1", "rep1", "retouch", "tr2", "rep2"}
  BY DEF After
<1>2. Places = {"analyze", "compb", "compf", "tr1", "rep1", "retouch", "tr2", "rep2", "sink", "idle"}
  BY <1>1 DEF Places
<1>3. /\ Pos["analyze"] = 1 /\ Pos["compb"] = 2 /\ Pos["compf"] = 3 /\ Pos["tr1"] = 4 /\ Pos["rep1"] = 5
      /\ Pos["retouch"] = 6 /\ Pos["tr2"] = 7 /\ Pos["rep2"] = 8 /\ Pos["sink"] = 9 /\ Pos["idle"] = 0
  BY DEF Pos
<1>4. /\ After["analyze"] = "compb" /\ After["compb"] = "compf" /\ After["compf"] = "tr1"
      /\ After["tr1"] = "rep1" /\ After["rep1"] = "retouch" /\ After["retouch"] = "tr2"
      /\ After["tr2"] = "rep2" /\ After["rep2"] = "sink"
  BY DEF After
<1>5. \A p \in Places : Pos[p] \in 0 .. 9
  BY <1>2, <1>3
<1>6. \A p \in DOMAIN After : p \in Places /\ After[p] \in Places /\ Pos[After[p]] = Pos[p] + 1 /\ Pos[p] >= 1
  BY <1>1, <1>2, <1>3, <1>4
<1>7. \A p, r \in Places : Pos[p] = Pos[r] => p = r
  BY <1>2, <1>3
<1>8. \A p \in DOMAIN After : After[p] # "idle"
  BY <1>1, <1>4
<1>9. QED
  BY <1>1, <1>2, <1>3, <1>5, <1>6, <1>7, <1>8 DEF Filters, Line, Comps, Repairs

(* What init() accepts makes numbers of the delays.                        *)
LEMMA Parameters ==
  ASSUME setting \in Settings
  PROVE  /\ \A s \in Filters : Delay(s) \in Nat /\ PipelineDepth(s) \in Nat /\ Lag(s) \in Nat
         /\ Backlog \in Nat
         /\ setting.frames \in 0 .. MaxIn
         /\ NeedRef \in BOOLEAN
<1>1. setting \in Setting
  BY ChainAssumption
<1>2. /\ setting.tr0 \in Nat /\ setting.analyze \in Nat /\ setting.tr1 \in Nat /\ setting.tr2 \in Nat
      /\ setting.frames \in 0 .. MaxIn /\ setting.rep1 \in BOOLEAN /\ setting.rep2 \in BOOLEAN
  BY <1>1, ChainAssumption DEF Setting
<1>3. AnalyzeDelta \in Nat
  BY <1>2 DEF AnalyzeDelta, Most
<1>4. \A s \in Filters : Delay(s) \in Nat
  <2>1. Delay("analyze") \in Nat
    BY <1>2, <1>3 DEF Delay, Comps
  <2>2. \A s \in Comps : Delay(s) \in Nat
    BY DEF Delay, Comps
  <2>3. Delay("tr1") \in Nat
    BY <1>2 DEF Delay, Comps
  <2>4. Delay("tr2") \in Nat
    BY <1>2 DEF Delay, Comps
  <2>5. QED
    BY <2>1, <2>2, <2>3, <2>4, PosFacts DEF Line
<1>5. \A s \in Filters : PipelineDepth(s) \in Nat
  BY ChainAssumption DEF PipelineDepth
<1>6. \A s \in Filters : Lag(s) \in Nat
  BY <1>4, <1>5 DEF Lag
<1>7. Backlog \in Nat
  BY <1>6, PosFacts DEF Backlog
<1>8. QED
  BY <1>2, <1>4, <1>5, <1>6, <1>7 DEF NeedRef

-----------------------------------------------------------------------------
(* The frames along the chain                                              *)

(* The order along the chain, with no frame under way, does not depend on  *)
(* the place; a frame that is lost leaves the others in order.             *)
LEMMA OrderDropped ==
  ASSUME NEW st, NEW p, NEW f, Ordered(st, p, f), NEW r
  PROVE  Ordered(st, r, Tick)
BY DEF Ordered

(* A frame goes on past a stage that has none.                             *)
LEMMA OrderMoved ==
  ASSUME NEW st, NEW p \in DOMAIN After, NEW f, Ordered(st, p, f), p \in Line => InStage(st[p]) = {}
  PROVE  Ordered(st, After[p], f)
<1>1. ASSUME NEW s \in Line, f # Tick
      PROVE  /\ Pos[After[p]] <= Pos[s] => Before(InStage(st[s]), {f})
             /\ Pos[s] < Pos[After[p]] => Before({f}, InStage(st[s]))
  <2>1. Pos[After[p]] = Pos[p] + 1 /\ Pos[p] \in Int /\ Pos[s] \in Int /\ p \in Places /\ s \in Places
    BY PosFacts
  <2>2. Pos[After[p]] <= Pos[s] => Pos[p] <= Pos[s]
    BY <2>1
  <2>3. Pos[s] < Pos[After[p]] => Pos[s] < Pos[p] \/ Pos[s] = Pos[p]
    BY <2>1
  <2>4. Pos[s] = Pos[p] => s = p
    BY <2>1, PosFacts
  <2>5. InStage(st[s]) = {} => Before({f}, InStage(st[s]))
    BY DEF Before
  <2>6. QED
    BY <1>1, <2>2, <2>3, <2>4, <2>5 DEF Ordered
<1>2. QED
  BY <1>1 DEF Ordered

(* A later frame enters the chain.                                         *)
LEMMA OrderEnters ==
  ASSUME NEW st, NEW p, NEW f, Ordered(st, p, Tick), Before(ChainOf(st, Tick), {f})
  PROVE  Ordered(st, "analyze", f)
<1>1. ASSUME NEW s \in Line
      PROVE  /\ Before(InStage(st[s]), {f})
             /\ ~ Pos[s] < Pos["analyze"]
  <2>1. InStage(st[s]) \subseteq ChainOf(st, Tick)
    BY DEF ChainOf
  <2>2. Pos[s] >= 1 /\ Pos["analyze"] = 1 /\ Pos[s] \in Int
    BY PosFacts
  <2>3. QED
    BY <2>1, <2>2 DEF Before
<1>2. QED
  BY <1>1 DEF Ordered

(* The frame at the sink is the first of those in the chain.               *)
LEMMA OldestAtSink ==
  ASSUME NEW st, NEW f, f # Tick, Ordered(st, "sink", f)
  PROVE  Before({f}, ChainOf(st, Tick))
<1>1. ASSUME NEW s \in Line PROVE Before({f}, InStage(st[s]))
  <2>1. Pos[s] < Pos["sink"]
    <3>1. s \in DOMAIN After /\ "sink" \in Places /\ After[s] \in Places
      BY PosFacts
    <3>2. Pos[After[s]] = Pos[s] + 1 /\ Pos[After[s]] \in 0 .. 9 /\ Pos["sink"] = 9 /\ Pos[s] \in 0 .. 9
      BY <3>1, PosFacts
    <3>3. QED
      BY <3>2
  <2>2. QED
    BY <2>1 DEF Ordered
<1>2. QED
  BY <1>1 DEF Before, ChainOf, Under

(* Stage s is left with x of the frames it had and the one it was given.   *)
LEMMA OrderLeft ==
  ASSUME NEW st, NEW s \in Line, NEW f, Ordered(st, s, f),
         NEW x \in Holding(Frames), InOrder(x), InStage(x) \subseteq InStage(st[s]) \cup Under(f),
         NEW st2, st2[s] = x, OnlyOne(st, st2, s), NEW r
  PROVE  Ordered(st2, r, Tick)
<1>1. st2[s] = x /\ \A t \in Line : t # s => st2[t] = st[t]
  BY DEF OnlyOne
<1>2. ASSUME NEW t \in Line, Pos[t] < Pos[s]
      PROVE  Before(InStage(st[s]) \cup Under(f), InStage(st[t]))
  BY <1>2 DEF Ordered, Before, Under
<1>3. ASSUME NEW t \in Line, Pos[s] < Pos[t]
      PROVE  Before(InStage(st[t]), InStage(st[s]) \cup Under(f))
  <2>1. Pos[s] <= Pos[t]
    BY <1>3, PosFacts
  <2>2. QED
    BY <1>3, <2>1 DEF Ordered, Before, Under
<1>4. ASSUME NEW t \in Line, NEW u \in Line, Pos[t] < Pos[u]
      PROVE  Before(InStage(st2[u]), InStage(st2[t]))
  <2>1. CASE t = s
    <3>1. u # s
      BY <1>4, <2>1, PosFacts
    <3>2. Before(InStage(st[u]), InStage(st[s]) \cup Under(f))
      BY <1>3, <1>4, <2>1
    <3>3. QED
      BY <1>1, <2>1, <3>1, <3>2 DEF Before
  <2>2. CASE u = s
    <3>1. t # s
      BY <1>4, <2>2, PosFacts
    <3>2. Before(InStage(st[s]) \cup Under(f), InStage(st[t]))
      BY <1>2, <1>4, <2>2
    <3>3. QED
      BY <1>1, <2>2, <3>1, <3>2 DEF Before
  <2>3. CASE t # s /\ u # s
    BY <1>1, <1>4, <2>3 DEF Ordered
  <2>4. QED
    BY <2>1, <2>2, <2>3
<1>5. \A t \in Line : InOrder(st2[t])
  BY <1>1 DEF Ordered
<1>6. QED
  BY <1>4, <1>5 DEF Ordered

(* A frame in the chain is under way or in a stage.                        *)
LEMMA ChainMember ==
  ASSUME NEW st, NEW f, NEW e
  PROVE  e \in ChainOf(st, f) <=> e \in Under(f) \/ \E s \in Line : e \in InStage(st[s])
<1>1. ASSUME NEW s \in Line, e \in InStage(st[s]) PROVE e \in ChainOf(st, f)
  BY <1>1 DEF ChainOf
<1>2. ASSUME e \in ChainOf(st, f), e \notin Under(f) PROVE \E s \in Line : e \in InStage(st[s])
  BY <1>2 DEF ChainOf
<1>3. e \in Under(f) => e \in ChainOf(st, f)
  BY DEF ChainOf
<1>4. QED
  BY <1>1, <1>2, <1>3

(* What is in the chain when stage s is left with x.                       *)
LEMMA ChainLeft ==
  ASSUME NEW st, NEW s \in Line, NEW f,
         NEW x, InStage(x) \subseteq InStage(st[s]) \cup Under(f),
         NEW st2, st2[s] = x, OnlyOne(st, st2, s), NEW g, Under(g) \subseteq InStage(st[s]) \cup Under(f)
  PROVE  /\ ChainOf(st2, g) \subseteq ChainOf(st, f)
         /\ ChainOf(st, f) \ ChainOf(st2, g)
              \subseteq (InStage(st[s]) \cup Under(f)) \ (InStage(x) \cup Under(g))
<1>1. st2[s] = x /\ \A t \in Line : t # s => st2[t] = st[t]
  BY DEF OnlyOne
<1>2. ASSUME NEW e \in ChainOf(st2, g) PROVE e \in ChainOf(st, f)
  <2>1. CASE e \in Under(g) \/ e \in InStage(st2[s])
    <3>1. e \in InStage(st[s]) \cup Under(f)
      BY <1>1, <2>1
    <3>2. QED
      BY <3>1, ChainMember
  <2>2. CASE \E t \in Line : t # s /\ e \in InStage(st2[t])
    BY <1>1, <2>2, ChainMember
  <2>3. QED
    BY <2>1, <2>2, ChainMember
<1>3. ASSUME NEW e \in ChainOf(st, f), e \notin ChainOf(st2, g)
      PROVE  e \in (InStage(st[s]) \cup Under(f)) \ (InStage(x) \cup Under(g))
  <2>1. e \notin Under(g) /\ \A t \in Line : e \notin InStage(st2[t])
    BY <1>3, ChainMember
  <2>2. e \in Under(f) \/ \E t \in Line : e \in InStage(st[t])
    BY ChainMember
  <2>3. QED
    BY <1>1, <2>1, <2>2
<1>4. QED
  BY <1>2, <1>3

(* Stage s answers: what it had and was given is in order along the chain, *)
(* and all of it is still there.                                           *)
LEMMA OrderAnswered ==
  ASSUME NEW st, NEW s \in Line, NEW f, Ordered(st, s, f),
         NEW a, InOrder(a), Answers(InStage(st[s]) \cup Under(f), a),
         NEW x \in Holding(Frames), x = [hold |-> a.hold, pending |-> a.pending],
         NEW st2, st2[s] = x, OnlyOne(st, st2, s), Tick \notin InStage(st[s])
  PROVE  /\ ~ PutsOut(a) => /\ \A r : Ordered(st2, r, Tick)
                            /\ ChainOf(st2, Tick) = ChainOf(st, f)
         /\ \A g \in a.out : Ordered(st2, After[s], g) /\ ChainOf(st2, g) = ChainOf(st, f)
<1> DEFINE had == InStage(st[s]) \cup Under(f)
<1>1. InStage(x) = InStage(a) /\ InOrder(x)
  BY DEF InStage, InOrder
<1>2. InStage(x) \subseteq had /\ Tick \notin had
  <2>1. InStage(a) \subseteq had
    BY DEF Answers
  <2>2. QED
    BY <1>1, <2>1 DEF Under
<1>3. \A r : Ordered(st2, r, Tick)
  BY <1>1, <1>2, OrderLeft
<1>4. ASSUME ~ PutsOut(a) PROVE ChainOf(st2, Tick) = ChainOf(st, f)
  <2>1. InStage(x) = had /\ Under(Tick) = {}
    BY <1>1, <1>4 DEF Answers, PutsOut, Under
  <2>2. /\ ChainOf(st2, Tick) \subseteq ChainOf(st, f)
        /\ ChainOf(st, f) \ ChainOf(st2, Tick) \subseteq had \ (InStage(x) \cup Under(Tick))
    <3>1. InStage(x) \subseteq had /\ Under(Tick) \subseteq had
      BY <1>2, <2>1
    <3>2. QED
      BY <3>1, ChainLeft
  <2>3. QED
    BY <2>1, <2>2
<1>5. ASSUME NEW g \in a.out PROVE Ordered(st2, After[s], g) /\ ChainOf(st2, g) = ChainOf(st, f)
  <2>1. g \in had /\ InStage(x) = had \ {g} /\ Before({g}, InStage(x))
    BY <1>1, <1>5 DEF Answers
  <2>2. g # Tick /\ Under(g) = {g}
    BY <1>2, <2>1 DEF Under
  <2>3. ChainOf(st2, g) = ChainOf(st, f)
    <3>1. /\ ChainOf(st2, g) \subseteq ChainOf(st, f)
          /\ ChainOf(st, f) \ ChainOf(st2, g) \subseteq had \ (InStage(x) \cup Under(g))
      <4>1. InStage(x) \subseteq had /\ Under(g) \subseteq had
        BY <1>2, <2>1, <2>2
      <4>2. QED
        BY <4>1, ChainLeft
    <3>2. QED
      BY <2>1, <2>2, <3>1
  <2>4. st2[s] = x /\ \A t \in Line : t # s => st2[t] = st[t]
    BY DEF OnlyOne
  <2>5. Pos[After[s]] = Pos[s] + 1 /\ Pos[s] \in Int
    BY PosFacts
  <2>6. ASSUME NEW t \in Line, Pos[After[s]] <= Pos[t] PROVE Before(InStage(st2[t]), {g})
    <3>1. t # s /\ Pos[s] < Pos[t] /\ Pos[s] <= Pos[t]
      <4>1. Pos[t] \in Int
        BY PosFacts
      <4>2. QED
        BY <2>5, <2>6, <4>1
    <3>2. Before(InStage(st[t]), InStage(st[s])) /\ (f # Tick => Before(InStage(st[t]), {f}))
      BY <3>1 DEF Ordered
    <3>3. QED
      BY <2>1, <2>4, <3>1, <3>2 DEF Before, Under
  <2>7. ASSUME NEW t \in Line, Pos[t] < Pos[After[s]] PROVE Before({g}, InStage(st2[t]))
    <3>1. CASE t = s
      BY <2>1, <2>4, <3>1
    <3>2. CASE t # s
      <4>1. Pos[t] < Pos[s]
        <5>1. Pos[t] \in Int /\ Pos[t] # Pos[s]
          BY <3>2, PosFacts
        <5>2. QED
          BY <2>5, <2>7, <5>1
      <4>2. Before(InStage(st[s]), InStage(st[t])) /\ (f # Tick => Before({f}, InStage(st[t])))
        BY <4>1 DEF Ordered
      <4>3. QED
        BY <2>1, <2>4, <3>2, <4>2 DEF Before, Under
    <3>3. QED
      BY <3>1, <3>2
  <2>8. Ordered(st2, After[s], Tick)
    BY <1>3
  <2>9. Ordered(st2, After[s], g)
    BY <2>6, <2>7, <2>8 DEF Ordered
  <2>10. QED
    BY <2>3, <2>9
<1>6. QED
  BY <1>3, <1>4, <1>5

(* The stages that have the chain's frames are all that counts.            *)
LEMMA LineAlone ==
  ASSUME NEW st, NEW st2, \A s \in Line : st2[s] = st[s], NEW p, NEW f
  PROVE  /\ Ordered(st2, p, f) <=> Ordered(st, p, f)
         /\ ChainOf(st2, f) = ChainOf(st, f)
         /\ \A q, s : Passed(st2, p, f, q, s) <=> Passed(st, p, f, q, s)
<1>1. Ordered(st2, p, f) <=> Ordered(st, p, f)
  BY DEF Ordered
<1>2. \A e : e \in ChainOf(st2, f) <=> e \in ChainOf(st, f)
  BY ChainMember
<1>3. \A q, s : Passed(st2, p, f, q, s) <=> Passed(st, p, f, q, s)
  BY DEF Passed
<1>4. QED
  BY <1>1, <1>2, <1>3

-----------------------------------------------------------------------------
(* The rings                                                               *)

(* The first n entries are gone. *)
LEMMA SuffixFacts ==
  ASSUME NEW S \in SUBSET Int, NEW q \in Seq(S), NEW n \in 0 .. Len(q), NEW r, r = SubSeq(q, n + 1, Len(q))
  PROVE  /\ r \in Seq(S) /\ Len(r) = Len(q) - n
         /\ \A i \in 1 .. Len(r) : r[i] = q[n + i] /\ n + i \in 1 .. Len(q)
         /\ Elems(r) = {q[j] : j \in n + 1 .. Len(q)} /\ Elems(r) \subseteq Elems(q)
         /\ Sorted(q) => Sorted(r)
<1>1. Len(q) \in Nat /\ (\A i \in 1 .. Len(q) : q[i] \in S) /\ n \in Nat
  BY ElementOfSeq, LenProperties
<1>2. \A i \in n + 1 .. Len(q) : q[i] \in S
  BY <1>1
<1>3. /\ r \in Seq(S) /\ Len(r) = (IF n + 1 <= Len(q) THEN Len(q) - (n + 1) + 1 ELSE 0)
      /\ \A i \in 1 .. Len(q) - (n + 1) + 1 : r[i] = q[(n + 1) + i - 1]
  <2>1. n + 1 \in Int /\ Len(q) \in Int
    BY <1>1
  <2>2. QED
    BY <1>2, <2>1, SubSeqProperties
<1>4. Len(r) = Len(q) - n
  BY <1>1, <1>3
<1>5. \A i \in 1 .. Len(r) : r[i] = q[n + i] /\ n + i \in 1 .. Len(q)
  BY <1>1, <1>3, <1>4
<1>6. ASSUME NEW x \in Elems(r) PROVE \E j \in n + 1 .. Len(q) : x = q[j]
  <2>1. PICK i \in 1 .. Len(r) : x = r[i]
    BY DEF Elems
  <2>2. n + i \in n + 1 .. Len(q)
    BY <1>1, <1>4
  <2>3. QED
    BY <1>5, <2>1, <2>2
<1>7. ASSUME NEW j \in n + 1 .. Len(q) PROVE q[j] \in Elems(r)
  <2>1. j - n \in 1 .. Len(r) /\ n + (j - n) = j
    BY <1>1, <1>4
  <2>2. QED
    BY <1>5, <2>1 DEF Elems
<1>8. Elems(r) = {q[j] : j \in n + 1 .. Len(q)}
  BY <1>6, <1>7
<1>9. Elems(r) \subseteq Elems(q)
  BY <1>1, <1>6 DEF Elems
<1>10. ASSUME Sorted(q) PROVE Sorted(r)
  BY <1>1, <1>4, <1>5, <1>10 DEF Sorted
<1>11. QED
  BY <1>3, <1>4, <1>5, <1>8, <1>9, <1>10

(* push() makes room. *)
LEMMA RoomFacts ==
  ASSUME NEW S \in SUBSET Int, NEW q \in Seq(S), NEW size \in Nat \ {0}, Len(q) <= size,
         NEW r, r = Room(q, size)
  PROVE  /\ r \in Seq(S) /\ Len(r) <= Len(q) /\ Len(r) < size /\ Elems(r) \subseteq Elems(q)
         /\ Len(q) < size => r = q
         /\ Sorted(q) => Sorted(r)
<1>1. Len(q) \in Nat
  BY LenProperties
<1>2. CASE Len(q) < size
  BY <1>2 DEF Room
<1>3. CASE ~ Len(q) < size
  <2>0. PICK n \in Nat : n = 1
    OBVIOUS
  <2>1. Len(q) = size /\ n \in 0 .. Len(q) /\ n + 1 = Len(q) - size + 2
    BY <1>1, <1>3, <2>0
  <2>2. r = SubSeq(q, n + 1, Len(q))
    BY <1>3, <2>1 DEF Room
  <2>3. /\ r \in Seq(S) /\ Len(r) = Len(q) - n /\ Elems(r) \subseteq Elems(q)
        /\ Sorted(q) => Sorted(r)
    <3>1. n \in 0 .. Len(q)
      BY <2>1
    <3>2. QED
      BY <2>2, <3>1, SuffixFacts
  <2>4. QED
    BY <1>1, <1>3, <2>0, <2>1, <2>3
<1>4. QED
  BY <1>2, <1>3

(* push() appends a later frame. *)
LEMMA RetainedFacts ==
  ASSUME NEW S \in SUBSET Int, NEW q \in Seq(S), NEW size \in Nat \ {0}, Len(q) <= size, NEW f \in S,
         NEW r, r = Retained(q, size, f)
  PROVE  /\ r \in Seq(S) /\ Len(r) <= Len(q) + 1 /\ Len(r) <= size
         /\ Elems(r) \subseteq Elems(q) \cup {f}
         /\ Len(q) < size => Elems(r) = Elems(q) \cup {f}
         /\ ~ Len(q) < size => Len(r) <= Len(q)
         /\ Sorted(q) /\ Before(Elems(q), {f}) => Sorted(r)
<1>1. PICK u : u = Room(q, size)
  OBVIOUS
<1>2. /\ u \in Seq(S) /\ Len(u) <= Len(q) /\ Len(u) < size /\ Elems(u) \subseteq Elems(q)
      /\ Len(q) < size => u = q
      /\ Sorted(q) => Sorted(u)
  BY <1>1, RoomFacts
<1>3. r = Append(u, f)
  BY <1>1 DEF Retained
<1>4. /\ r \in Seq(S) /\ Len(r) = Len(u) + 1 /\ Elems(r) = Elems(u) \cup {f}
      /\ Sorted(u) /\ Before(Elems(u), {f}) => Sorted(r)
  <2>1. u \in Seq(S)
    BY <1>2
  <2>2. /\ Append(u, f) \in Seq(S) /\ Len(Append(u, f)) = Len(u) + 1
        /\ Elems(Append(u, f)) = Elems(u) \cup {f}
        /\ Sorted(u) /\ Before(Elems(u), {f}) => Sorted(Append(u, f))
    BY <2>1, AppendElems
  <2>3. QED
    BY <1>3, <2>2
<1>5. Len(q) \in Nat /\ Len(u) \in Nat
  BY <1>2, LenProperties
<1>6. Before(Elems(q), {f}) => Before(Elems(u), {f})
  BY <1>2 DEF Before
<1>7. QED
  BY <1>2, <1>4, <1>5, <1>6

(* A part of a sequence from its start on, with all that is before it, is  *)
(* the part up to its number.                                              *)
LEMMA InitialPart ==
  ASSUME NEW m \in Nat, NEW D \in SUBSET (1 .. m), \A i \in D : \A j \in 1 .. i : j \in D
  PROVE  \E n \in 0 .. m : D = 1 .. n
<1>1. IsFiniteSet(1 .. m) /\ Cardinality(1 .. m) = m
  BY FS_Interval
<1>2. PICK n : n = Cardinality(D)
  OBVIOUS
<1>3. IsFiniteSet(D) /\ n \in Nat /\ n <= m
  BY <1>1, <1>2, FS_Subset, FS_CardinalityType
<1>4. ASSUME NEW i \in D PROVE i \in 1 .. n
  <2>1. (1 .. i) \in SUBSET D
    OBVIOUS
  <2>2. i \in Nat /\ i >= 1
    OBVIOUS
  <2>3. Cardinality(1 .. i) = i
    BY <2>2, FS_Interval
  <2>4. Cardinality(1 .. i) <= n
    BY <1>2, <1>3, <2>1, FS_Subset
  <2>5. QED
    BY <1>3, <2>2, <2>3, <2>4
<1>5. IsFiniteSet(1 .. n) /\ Cardinality(1 .. n) = n
  BY <1>3, FS_Interval
<1>6. D \in SUBSET (1 .. n)
  BY <1>4
<1>7. D = 1 .. n
  BY <1>2, <1>5, <1>6, FS_Subset
<1>8. QED
  BY <1>3, <1>7

(* dropUpTo(): the entries up to the frame are gone, and no others. *)
LEMMA PrunedFacts ==
  ASSUME NEW S \in SUBSET Int, NEW q \in Seq(S), NEW f \in Int, NEW r, r = PrunedUpTo(q, f)
  PROVE  /\ r \in Seq(S) /\ Len(r) <= Len(q) /\ Elems(r) \subseteq Elems(q)
         /\ Sorted(q) => Sorted(r) /\ Elems(r) = {x \in Elems(q) : f < x}
<1> DEFINE Spent(n) == /\ \A i \in 1 .. n : q[i] <= f
                       /\ n < Len(q) => q[n + 1] > f
<1>1. Len(q) \in Nat /\ \A i \in 1 .. Len(q) : q[i] \in S /\ q[i] \in Int
  BY ElementOfSeq, LenProperties
<1>2. \E n \in 0 .. Len(q) : Spent(n)
  <2> DEFINE D == {i \in 1 .. Len(q) : \A j \in 1 .. i : q[j] <= f}
  <2>1. D \in SUBSET (1 .. Len(q)) /\ \A i \in D : \A j \in 1 .. i : j \in D
    BY <1>1
  <2>2. PICK n \in 0 .. Len(q) : D = 1 .. n
    <3> HIDE DEF D
    <3>1. QED
      BY <1>1, <2>1, InitialPart
  <2>3. \A i \in 1 .. n : q[i] <= f
    <3>1. ASSUME NEW i \in 1 .. n PROVE q[i] <= f
      <4>1. i \in D /\ i \in 1 .. i
        BY <2>2
      <4>2. QED
        BY <4>1
    <3>2. QED
      BY <3>1
  <2>4. ASSUME n < Len(q) PROVE q[n + 1] > f
    <3>1. n + 1 \in 1 .. Len(q) /\ n + 1 \notin 1 .. n /\ n \in Nat
      BY <1>1, <2>4
    <3>2. n + 1 \notin D
      BY <2>2, <3>1
    <3>3. PICK j \in 1 .. n + 1 : ~ q[j] <= f
      BY <3>1, <3>2
    <3>4. j = n + 1
      BY <2>3, <3>1, <3>3
    <3>5. QED
      BY <1>1, <3>1, <3>3, <3>4
  <2>5. QED
    BY <2>3, <2>4
<1>3. PICK n : n = CHOOSE m \in 0 .. Len(q) : Spent(m)
  OBVIOUS
<1>4. n \in 0 .. Len(q) /\ Spent(n)
  BY <1>2, <1>3
<1>5. r = SubSeq(q, n + 1, Len(q))
  BY <1>3 DEF PrunedUpTo
<1>6. /\ r \in Seq(S) /\ Len(r) = Len(q) - n
      /\ Elems(r) = {q[j] : j \in n + 1 .. Len(q)} /\ Elems(r) \subseteq Elems(q)
      /\ Sorted(q) => Sorted(r)
  BY <1>4, <1>5, SuffixFacts
<1>7. ASSUME Sorted(q) PROVE Elems(r) = {x \in Elems(q) : f < x}
  <2>1. ASSUME NEW j \in n + 1 .. Len(q) PROVE f < q[j]
    <3>1. n < Len(q) /\ n + 1 \in 1 .. Len(q) /\ j \in 1 .. Len(q) /\ q[n + 1] > f
      BY <1>1, <1>4
    <3>2. n + 1 = j \/ q[n + 1] < q[j]
      BY <1>1, <1>4, <1>7, <3>1 DEF Sorted
    <3>3. QED
      BY <1>1, <3>1, <3>2
  <2>2. ASSUME NEW x \in Elems(q), f < x PROVE x \in {q[j] : j \in n + 1 .. Len(q)}
    <3>1. PICK j \in 1 .. Len(q) : x = q[j]
      BY DEF Elems
    <3>2. j \notin 1 .. n
      BY <1>1, <1>4, <2>2, <3>1
    <3>3. j \in n + 1 .. Len(q)
      BY <1>1, <1>4, <3>2
    <3>4. QED
      BY <3>1, <3>3
  <2>3. QED
    BY <1>6, <2>1, <2>2
<1>8. Len(r) <= Len(q)
  BY <1>1, <1>4, <1>6
<1>9. QED
  BY <1>6, <1>7, <1>8

(* find() and the entries. *)
LEMMA HasFacts ==
  ASSUME NEW q, NEW f
  PROVE  Has(q, f) <=> f \in Elems(q)
BY DEF Has, Elems

-----------------------------------------------------------------------------
(* What stays with the parameters                                          *)

(* What init() has made of the parameters does not change. *)
LEMMA ParametersKept ==
  ASSUME setting' = setting
  PROVE  /\ \A s : Delay(s)' = Delay(s) /\ PipelineDepth(s)' = PipelineDepth(s)
         /\ \A s : Enabled(s)' = Enabled(s)
         /\ NeedRef' = NeedRef /\ Backlog' = Backlog
<1>1. \A s : Delay(s)' = Delay(s)
  BY DEF Delay, AnalyzeDelta
<1>2. \A s : PipelineDepth(s)' = PipelineDepth(s)
  BY DEF PipelineDepth
<1>3. \A s : Enabled(s)' = Enabled(s)
  BY DEF Enabled
<1>4. \A s : Lag(s)' = Lag(s)
  BY <1>1, <1>2, <1>3 DEF Lag
<1>5. NeedRef' = NeedRef /\ Backlog' = Backlog
  BY <1>4 DEF NeedRef, Backlog
<1>6. QED
  BY <1>1, <1>2, <1>3, <1>5

(* One stage is left with other frames. *)
LEMMA StagesKept ==
  ASSUME StagesOK, setting' = setting, NEW s \in Filters, Enabled(s), NEW x \in Holding(Frames),
         Len(x.hold) <= Delay(s), Len(x.pending) <= PipelineDepth(s), stage' = [stage EXCEPT ![s] = x]
  PROVE  StagesOK' /\ stage'[s] = x /\ OnlyOne(stage, stage', s)
<1>1. stage' \in [Filters -> Holding(Frames)]
  BY DEF StagesOK
<1>2. stage'[s] = x /\ \A t \in Filters : t # s => stage'[t] = stage[t]
  BY DEF StagesOK
<1>3. /\ \A t : Delay(t)' = Delay(t) /\ PipelineDepth(t)' = PipelineDepth(t)
      /\ \A t : Enabled(t)' = Enabled(t)
  BY ParametersKept
<1>4. ASSUME NEW t \in Filters
      PROVE  /\ Len(stage'[t].hold) <= Delay(t)' /\ Len(stage'[t].pending) <= PipelineDepth(t)'
             /\ ~ Enabled(t)' => stage'[t] = EmptyStage
  <2>1. CASE t = s
    BY <1>2, <1>3, <2>1
  <2>2. CASE t # s
    BY <1>2, <1>3, <2>2 DEF StagesOK
  <2>3. QED
    BY <2>1, <2>2
<1>5. OnlyOne(stage, stage', s)
  BY <1>2, PosFacts DEF OnlyOne
<1>6. QED
  BY <1>1, <1>2, <1>4, <1>5 DEF StagesOK

(* No stage changes. *)
LEMMA StagesSame ==
  ASSUME StagesOK, setting' = setting, stage' = stage
  PROVE  StagesOK'
<1>1. /\ \A t : Delay(t)' = Delay(t) /\ PipelineDepth(t)' = PipelineDepth(t)
      /\ \A t : Enabled(t)' = Enabled(t)
  BY ParametersKept
<1>2. QED
  BY <1>1 DEF StagesOK

(* The frames are numbers. *)
LEMMA FramesFacts ==
  /\ Frames \in SUBSET Int /\ Frames \subseteq Nat /\ Tick \notin Frames /\ Tick \in Int
  /\ \A n \in 0 .. MaxIn : 0 .. n - 1 \subseteq Frames
BY ChainAssumption DEF Frames, Tick

(* The frames of a stage are frames, and there are no more of them than it *)
(* may hold back.                                                          *)
LEMMA StageCount ==
  ASSUME StagesOK, setting \in Settings, NEW s \in Filters
  PROVE  /\ InStage(stage[s]) \subseteq Frames /\ IsFiniteSet(InStage(stage[s]))
         /\ Cardinality(InStage(stage[s])) \in Nat /\ Cardinality(InStage(stage[s])) <= Lag(s)
         /\ ~ Enabled(s) => InStage(stage[s]) = {}
<1>1. stage[s] \in Holding(Frames) /\ stage[s].hold \in Seq(Frames) /\ stage[s].pending \in Seq(Frames)
  BY DEF StagesOK, Holding
<1>2. PICK h \in Seq(Frames), p \in Seq(Frames) : h = stage[s].hold /\ p = stage[s].pending
  BY <1>1
<1>3. InStage(stage[s]) = Elems(h) \cup Elems(p)
  BY <1>2 DEF InStage, Elems
<1>4. /\ Elems(h) \subseteq Frames /\ IsFiniteSet(Elems(h)) /\ Cardinality(Elems(h)) <= Len(h)
      /\ Cardinality(Elems(h)) \in Nat
      /\ Elems(p) \subseteq Frames /\ IsFiniteSet(Elems(p)) /\ Cardinality(Elems(p)) <= Len(p)
      /\ Cardinality(Elems(p)) \in Nat
  BY ElemsCount
<1>5. /\ IsFiniteSet(Elems(h) \cup Elems(p))
      /\ Cardinality(Elems(h) \cup Elems(p))
           = Cardinality(Elems(h)) + Cardinality(Elems(p)) - Cardinality(Elems(h) \cap Elems(p))
      /\ Cardinality(Elems(h) \cap Elems(p)) \in Nat /\ Cardinality(Elems(h) \cup Elems(p)) \in Nat
  <2>1. IsFiniteSet(Elems(h) \cap Elems(p))
    BY <1>4, FS_Intersection
  <2>2. QED
    BY <1>4, <2>1, FS_Union, FS_CardinalityType
<1>6. Cardinality(InStage(stage[s])) \in Nat /\ Cardinality(InStage(stage[s])) <= Len(h) + Len(p)
  <2>1. Len(h) \in Nat /\ Len(p) \in Nat
    BY LenProperties
  <2>2. QED
    BY <1>3, <1>4, <1>5, <2>1
<1>7. CASE Enabled(s)
  <2>1. Len(h) <= Delay(s) /\ Len(p) <= PipelineDepth(s) /\ Lag(s) = Delay(s) + PipelineDepth(s)
    BY <1>2, <1>7 DEF StagesOK, Lag
  <2>2. Delay(s) \in Nat /\ PipelineDepth(s) \in Nat /\ Len(h) \in Nat /\ Len(p) \in Nat
    BY Parameters, LenProperties
  <2>3. QED
    BY <1>3, <1>4, <1>5, <1>6, <1>7, <2>1, <2>2
<1>8. CASE ~ Enabled(s)
  <2>1. stage[s] = EmptyStage
    BY <1>8 DEF StagesOK
  <2>2. h = << >> /\ p = << >> /\ Len(h) = 0 /\ Len(p) = 0
    BY <1>2, <2>1 DEF EmptyStage
  <2>3. Elems(h) = {} /\ Elems(p) = {}
    BY <2>2 DEF Elems
  <2>4. Lag(s) = 0
    BY <1>8 DEF Lag
  <2>5. Cardinality(InStage(stage[s])) <= 0
    BY <1>6, <2>2
  <2>6. QED
    BY <1>3, <1>4, <1>5, <1>6, <2>3, <2>4, <2>5
<1>9. QED
  BY <1>7, <1>8

(* With no frame under way there are no more than the stages hold back.    *)
LEMMA ChainCount ==
  ASSUME StagesOK, setting \in Settings
  PROVE  /\ IsFiniteSet(ChainOf(stage, Tick))
         /\ Cardinality(ChainOf(stage, Tick)) \in Nat
         /\ Cardinality(ChainOf(stage, Tick)) <= Backlog
<1> DEFINE A == InStage(stage["analyze"])
           B == InStage(stage["tr1"])
           C == InStage(stage["tr2"])
<1>1. ChainOf(stage, Tick) = (A \cup B) \cup C
  <2>1. \A e : e \in ChainOf(stage, Tick) <=> e \in A \/ e \in B \/ e \in C
    BY ChainMember DEF Under, Line
  <2>2. QED
    BY <2>1
<1>2. /\ IsFiniteSet(A) /\ Cardinality(A) \in Nat /\ Cardinality(A) <= Lag("analyze")
      /\ IsFiniteSet(B) /\ Cardinality(B) \in Nat /\ Cardinality(B) <= Lag("tr1")
      /\ IsFiniteSet(C) /\ Cardinality(C) \in Nat /\ Cardinality(C) <= Lag("tr2")
  BY StageCount, PosFacts
<1>3. Lag("analyze") \in Nat /\ Lag("tr1") \in Nat /\ Lag("tr2") \in Nat
  BY Parameters, PosFacts
<1> HIDE DEF A, B, C
<1>4. /\ IsFiniteSet(A \cup B) /\ Cardinality(A \cup B) \in Nat
      /\ Cardinality(A \cup B) <= Cardinality(A) + Cardinality(B)
  <2>1. IsFiniteSet(A \cap B) /\ Cardinality(A \cap B) \in Nat
    BY <1>2, FS_Intersection, FS_CardinalityType
  <2>2. IsFiniteSet(A \cup B) /\ Cardinality(A \cup B) = Cardinality(A) + Cardinality(B) - Cardinality(A \cap B)
    BY <1>2, FS_Union
  <2>3. Cardinality(A \cup B) \in Nat
    BY <2>2, FS_CardinalityType
  <2>4. QED
    BY <1>2, <2>1, <2>2, <2>3
<1>5. /\ IsFiniteSet((A \cup B) \cup C) /\ Cardinality((A \cup B) \cup C) \in Nat
      /\ Cardinality((A \cup B) \cup C) <= Cardinality(A \cup B) + Cardinality(C)
  <2>1. IsFiniteSet((A \cup B) \cap C) /\ Cardinality((A \cup B) \cap C) \in Nat
    BY <1>4, FS_Intersection, FS_CardinalityType
  <2>2. /\ IsFiniteSet((A \cup B) \cup C)
        /\ Cardinality((A \cup B) \cup C) = Cardinality(A \cup B) + Cardinality(C) - Cardinality((A \cup B) \cap C)
    BY <1>2, <1>4, FS_Union
  <2>3. Cardinality((A \cup B) \cup C) \in Nat
    BY <2>2, FS_CardinalityType
  <2>4. QED
    BY <1>2, <1>4, <2>1, <2>2, <2>3
<1>6. QED
  BY <1>1, <1>2, <1>3, <1>4, <1>5 DEF Backlog

-----------------------------------------------------------------------------
(* What the stages answer                                                  *)

(* A stage keeps within its delay whatever it is given. *)
LEMMA AnswerTyped ==
  ASSUME StagesOK, setting \in Settings, frame \in Frames \cup {Tick}, NEW s \in Filters,
         NEW a, a = Answer(s)
  PROVE  /\ [hold |-> a.hold, pending |-> a.pending] \in Holding(Frames)
         /\ Len(a.hold) <= Delay(s) /\ Len(a.pending) <= PipelineDepth(s)
         /\ a.out \in SUBSET Frames
<1>1. PICK d \in Nat, n \in Nat : d = Delay(s) /\ n = PipelineDepth(s)
  BY Parameters
<1>2. PICK st \in Holding(Frames) : st = stage[s]
  BY DEF StagesOK
<1>3. Len(st.hold) <= d /\ Len(st.pending) <= n /\ Frames \in SUBSET Int
  BY <1>1, <1>2, FramesFacts DEF StagesOK
<1>4. /\ a.hold \in Seq(Frames) /\ a.pending \in Seq(Frames) /\ a.out \in SUBSET Frames
      /\ Len(a.hold) <= d /\ Len(a.pending) <= n
  <2>1. CASE frame = Tick
    <3>1. a = StageTicked(st, n)
      BY <1>1, <1>2, <2>1 DEF Answer, Ticked
    <3>2. /\ a.hold \in Seq(Frames) /\ a.pending \in Seq(Frames) /\ a.out \in SUBSET Frames
          /\ Len(a.hold) <= Len(st.hold) /\ Len(a.pending) <= n
      BY <1>3, <3>1, TickedAnswer
    <3>3. Len(a.hold) \in Nat /\ Len(st.hold) \in Nat
      BY <3>2, LenProperties DEF Holding
    <3>4. QED
      BY <1>3, <3>2, <3>3
  <2>2. CASE frame # Tick
    <3>1. PICK f \in Frames : f = frame
      BY <2>2
    <3>2. a = StageFed(st, f, d, n)
      BY <1>1, <1>2, <2>2, <3>1 DEF Answer, Fed
    <3>3. FedAs(Frames, st, f, d, n, a)
      BY <1>3, <3>2, FedAnswer
    <3>4. QED
      BY <3>3 DEF FedAs
  <2>3. QED
    BY <2>1, <2>2
<1>5. QED
  BY <1>1, <1>4 DEF Holding

(* One of the chain's own stages keeps the order of what it has and is     *)
(* given.                                                                  *)
LEMMA AnswerOrdered ==
  ASSUME StagesOK, setting \in Settings, frame \in Frames \cup {Tick}, Conveyed, at \in Line,
         NEW a, a = Answer(at)
  PROVE  InOrder(a) /\ Answers(InStage(stage[at]) \cup Under(frame), a)
<1>1. PICK s \in Line : s = at
  OBVIOUS
<1>2. PICK d \in Nat, n \in Nat : d = Delay(s) /\ n = PipelineDepth(s)
  BY Parameters, PosFacts
<1>3. PICK st \in Holding(Frames) : st = stage[s]
  BY PosFacts DEF StagesOK
<1>4. Len(st.hold) <= d /\ Len(st.pending) <= n /\ Frames \in SUBSET Int
  BY <1>2, <1>3, FramesFacts, PosFacts DEF StagesOK
<1>5. InOrder(st) /\ (frame # Tick => Before(InStage(st), {frame}))
  <2>1. Pos[at] <= Pos[s]
    <3>1. Pos[s] \in Int
      BY PosFacts
    <3>2. QED
      BY <1>1, <3>1
  <2>2. QED
    BY <1>1, <1>3, <2>1 DEF Conveyed, Ordered
<1>6. CASE frame = Tick
  <2>1. a = StageTicked(st, n)
    BY <1>1, <1>2, <1>3, <1>6 DEF Answer, Ticked
  <2>2. Answers(InStage(st), a) /\ InOrder(a)
    BY <1>4, <1>5, <2>1, TickedAnswer
  <2>3. InStage(st) \cup Under(frame) = InStage(st)
    BY <1>6 DEF Under
  <2>4. QED
    BY <1>1, <1>3, <2>2, <2>3
<1>7. CASE frame # Tick
  <2>1. PICK f \in Frames : f = frame
    BY <1>7
  <2>2. a = StageFed(st, f, d, n)
    BY <1>1, <1>2, <1>3, <1>7, <2>1 DEF Answer, Fed
  <2>3. Before(InStage(st), {f})
    BY <1>5, <1>7, <2>1
  <2>4. Answers(InStage(st) \cup {f}, a) /\ InOrder(a)
    <3>1. FedAs(Frames, st, f, d, n, a)
      BY <1>4, <2>2, FedAnswer
    <3>2. QED
      BY <1>5, <2>3, <3>1 DEF FedAs
  <2>5. InStage(st) \cup Under(frame) = InStage(st) \cup {f}
    BY <1>7, <2>1 DEF Under
  <2>6. QED
    BY <1>1, <1>3, <2>4, <2>5
<1>8. QED
  BY <1>6, <1>7

(* A stage that puts a frame out for the one it is given is full, and one  *)
(* that is full does.                                                      *)
LEMMA AnswerFed ==
  ASSUME StagesOK, setting \in Settings, frame \in Frames, NEW s \in Filters, NEW a, a = Answer(s)
  PROVE  /\ PutsOut(a) => Full(a, Delay(s), PipelineDepth(s))
         /\ Full(stage[s], Delay(s), PipelineDepth(s)) => PutsOut(a)
<1>1. PICK d \in Nat, n \in Nat : d = Delay(s) /\ n = PipelineDepth(s)
  BY Parameters
<1>2. PICK st \in Holding(Frames) : st = stage[s]
  BY DEF StagesOK
<1>3. Len(st.hold) <= d /\ Len(st.pending) <= n /\ Frames \in SUBSET Int
  BY <1>1, <1>2, FramesFacts DEF StagesOK
<1>4. PICK f \in Frames : f = frame
  OBVIOUS
<1>5. a = StageFed(st, f, d, n)
  <2>1. frame # Tick
    BY FramesFacts
  <2>2. QED
    BY <1>1, <1>2, <1>4, <2>1 DEF Answer, Fed
<1>6. /\ PutsOut(a) => Len(a.hold) = d /\ Len(a.pending) = n
      /\ Len(st.hold) = d /\ Len(st.pending) = n => PutsOut(a)
  <2>1. FedAs(Frames, st, f, d, n, a)
    BY <1>3, <1>5, FedAnswer
  <2>2. QED
    BY <2>1 DEF FedAs
<1>7. QED
  BY <1>1, <1>2, <1>6 DEF Full

(* A stage that has put a frame out has something to drain until it has no *)
(* frame any more.                                                         *)
LEMMA AnswerTicked ==
  ASSUME StagesOK, setting \in Settings, frame = Tick, NEW s \in Filters, NEW a, a = Answer(s)
  PROVE  /\ PutsOut(a) /\ a.hold # << >> => Len(a.pending) = PipelineDepth(s)
         /\ ~ PutsOut(a) => \/ InStage(stage[s]) = {}
                            \/ stage[s].hold # << >> /\ Len(stage[s].pending) # PipelineDepth(s)
<1>1. PICK n \in Nat : n = PipelineDepth(s)
  BY Parameters
<1>2. PICK st \in Holding(Frames) : st = stage[s]
  BY DEF StagesOK
<1>3. Len(st.pending) <= n /\ Frames \in SUBSET Int
  BY <1>1, <1>2, FramesFacts DEF StagesOK
<1>4. a = StageTicked(st, n)
  BY <1>1, <1>2 DEF Answer, Ticked
<1>5. /\ PutsOut(a) /\ a.hold # << >> => Len(a.pending) = n
      /\ ~ PutsOut(a) => \/ InStage(st) = {}
                         \/ st.hold # << >> /\ Len(st.pending) # n
  BY <1>3, <1>4, TickedAnswer
<1>6. QED
  BY <1>1, <1>2, <1>5

(* What a call that fails leaves in a stage. *)
LEMMA FailureTyped ==
  ASSUME StagesOK, setting \in Settings, frame \in Frames \cup {Tick}, NEW s \in Filters,
         NEW x, x \in StageAfterFailure(stage[s], Answer(s))
  PROVE  x \in Holding(Frames) /\ Len(x.hold) <= Delay(s) /\ Len(x.pending) <= PipelineDepth(s)
<1>1. PICK d \in Nat, n \in Nat : d = Delay(s) /\ n = PipelineDepth(s)
  BY Parameters
<1>2. PICK st \in Holding(Frames) : st = stage[s]
  BY DEF StagesOK
<1>3. Len(st.hold) <= d /\ Len(st.pending) <= n /\ Frames \in SUBSET Int
  BY <1>1, <1>2, FramesFacts DEF StagesOK
<1>4. CASE frame = Tick
  <2>1. x \in StageAfterFailure(st, StageTicked(st, n))
    BY <1>1, <1>2, <1>4 DEF Answer, Ticked
  <2>2. x \in Holding(Frames) /\ Len(x.hold) <= Len(st.hold) /\ Len(x.pending) <= n
    BY <1>3, <2>1, TickedFails
  <2>3. Len(x.hold) \in Nat /\ Len(st.hold) \in Nat
    BY <2>2, LenProperties DEF Holding
  <2>4. QED
    BY <1>1, <1>3, <2>2, <2>3
<1>5. CASE frame # Tick
  <2>1. PICK f \in Frames : f = frame
    BY <1>5
  <2>2. x \in StageAfterFailure(st, StageFed(st, f, d, n))
    BY <1>1, <1>2, <1>5, <2>1 DEF Answer, Fed
  <2>3. x \in Holding(Frames) /\ Len(x.hold) <= d /\ Len(x.pending) <= n
    BY <1>3, <2>2, FedFails
  <2>4. QED
    BY <1>1, <2>3
<1>6. QED
  BY <1>4, <1>5

(* It costs the chain two frames at most. *)
LEMMA FailureOrdered ==
  ASSUME StagesOK, setting \in Settings, frame \in Frames \cup {Tick}, Conveyed, at \in Line,
         NEW x, x \in StageAfterFailure(stage[at], Answer(at))
  PROVE  InOrder(x) /\ Leaves(InStage(stage[at]) \cup Under(frame), x)
<1>1. PICK s \in Line : s = at
  OBVIOUS
<1>2. PICK d \in Nat, n \in Nat : d = Delay(s) /\ n = PipelineDepth(s)
  BY Parameters, PosFacts
<1>3. PICK st \in Holding(Frames) : st = stage[s]
  BY PosFacts DEF StagesOK
<1>4. Len(st.hold) <= d /\ Len(st.pending) <= n /\ Frames \in SUBSET Int
  BY <1>2, <1>3, FramesFacts, PosFacts DEF StagesOK
<1>5. InOrder(st) /\ (frame # Tick => Before(InStage(st), {frame}))
  <2>1. Pos[at] <= Pos[s]
    <3>1. Pos[s] \in Int
      BY PosFacts
    <3>2. QED
      BY <1>1, <3>1
  <2>2. QED
    BY <1>1, <1>3, <2>1 DEF Conveyed, Ordered
<1>6. CASE frame = Tick
  <2>1. x \in StageAfterFailure(st, StageTicked(st, n))
    BY <1>1, <1>2, <1>3, <1>6 DEF Answer, Ticked
  <2>2. InOrder(x) /\ Leaves(InStage(st), x)
    BY <1>4, <1>5, <2>1, TickedFails
  <2>3. InStage(st) \cup Under(frame) = InStage(st)
    BY <1>6 DEF Under
  <2>4. QED
    BY <1>1, <1>3, <2>2, <2>3
<1>7. CASE frame # Tick
  <2>1. PICK f \in Frames : f = frame
    BY <1>7
  <2>2. x \in StageAfterFailure(st, StageFed(st, f, d, n))
    BY <1>1, <1>2, <1>3, <1>7, <2>1 DEF Answer, Fed
  <2>3. Before(InStage(st), {f})
    BY <1>5, <1>7, <2>1
  <2>4. InOrder(x) /\ Leaves(InStage(st) \cup {f}, x)
    BY <1>4, <1>5, <2>2, <2>3, FedFails
  <2>5. InStage(st) \cup Under(frame) = InStage(st) \cup {f}
    BY <1>7, <2>1 DEF Under
  <2>6. QED
    BY <1>1, <1>3, <2>4, <2>5
<1>8. QED
  BY <1>6, <1>7

-----------------------------------------------------------------------------
(* From one step to the next                                               *)

(* The frame, or what comes out for it, goes on to the next stage. *)
LEMMA ControlGoes ==
  ASSUME Control, at \in DOMAIN After, NEW g \in Frames, Goes(After[at], g), given' = given,
         ChainOf(stage, frame)' = ChainOf(stage, frame)
  PROVE  Control'
<1>1. /\ at' = After[at] /\ frame' = g /\ drainAt' = drainAt /\ asked' = asked /\ ended' = ended
  BY DEF Goes
<1>2. /\ at \in Places /\ After[at] \in Places /\ Pos[After[at]] = Pos[at] + 1 /\ at # "idle" /\ After[at] # "idle"
      /\ Pos[at] \in Int
  BY PosFacts
<1>3. g # Tick
  BY FramesFacts
<1>4. asked => Pos[drainAt] < Pos[After[at]]
  <2>1. ASSUME asked, frame = Tick PROVE Pos[drainAt] = Pos[at]
    BY <1>2, <2>1 DEF Control
  <2>2. ASSUME asked, frame # Tick PROVE Pos[drainAt] < Pos[at]
    BY <2>2 DEF Control
  <2>3. Pos[drainAt] \in Int
    BY PosFacts DEF Control
  <2>4. QED
    BY <1>2, <2>1, <2>2, <2>3
<1>5. QED
  BY <1>1, <1>2, <1>3, <1>4 DEF Control

(* Nothing is left of a push or of a tick. *)
LEMMA ControlEnds ==
  ASSUME Control, at # "idle", CascadeEnds
  PROVE  Control'
<1>1. /\ at' = (IF asked THEN drainAt ELSE "idle") /\ frame' = Tick
      /\ drainAt' = drainAt /\ asked' = asked /\ ended' = ended
  BY DEF CascadeEnds
<1>2. CASE asked
  BY <1>1, <1>2 DEF Control
<1>3. CASE ~ asked
  BY <1>1, <1>3, PosFacts DEF Control
<1>4. QED
  BY <1>2, <1>3 DEF Control

(* The drain goes on to the next stage. *)
LEMMA ControlDrained ==
  ASSUME Control, at \in DOMAIN After, frame = Tick, StageDrained
  PROVE  Control' /\ asked /\ ~ ended /\ drainAt = at
<1>1. at # "idle"
  BY PosFacts
<1>2. asked /\ ~ ended /\ drainAt = at
  BY <1>1 DEF Control
<1>3. /\ drainAt' = After[at] /\ at' = (IF drainAt' = "sink" THEN "idle" ELSE drainAt') /\ frame' = Tick
      /\ ended' = (drainAt' = "sink") /\ asked' = asked
  BY <1>2 DEF StageDrained
<1>4. After[at] \in Places /\ After[at] # "idle" /\ "idle" \in Places
  BY PosFacts
<1>5. CASE After[at] = "sink"
  BY <1>2, <1>3, <1>4, <1>5 DEF Control
<1>6. CASE After[at] # "sink"
  BY <1>2, <1>3, <1>4, <1>6 DEF Control
<1>7. QED
  BY <1>2, <1>5, <1>6

(* A call breaks off. *)
LEMMA ControlFails ==
  ASSUME Control, CallFails
  PROVE  Control'
<1>1. /\ at' = "idle" /\ frame' = Tick /\ drainAt' = drainAt /\ asked' = asked /\ ended' = ended
  BY DEF CallFails
<1>2. QED
  BY <1>1, PosFacts DEF Control

(* Of the frames at p, or waiting there, some go on to the next stage: no  *)
(* other stage is passed by that.                                          *)
LEMMA PassedElsewhere ==
  ASSUME NEW st, NEW st2, NEW p \in Line, OnlyOne(st, st2, p), NEW f, NEW g, NEW r,
         InStage(st2[p]) \cup Under(g) \subseteq InStage(st[p]) \cup Under(f),
         g # Tick => r = After[p], NEW q, NEW s \in Line, s # p \/ g = Tick, Passed(st2, r, g, q, s)
  PROVE  Passed(st, p, f, q, s)
<1>1. Pos[After[p]] = Pos[p] + 1 /\ Pos[p] \in Int /\ Pos[s] \in Int /\ p \in Places /\ s \in Places
  BY PosFacts
<1>2. Pos[s] = Pos[p] => s = p
  BY <1>1, PosFacts
<1>3. CASE q # << >>
  BY <1>3 DEF Passed
<1>4. CASE g # Tick /\ Pos[s] < Pos[r]
  <2>1. Pos[s] < Pos[p]
    BY <1>1, <1>2, <1>4
  <2>2. g \in InStage(st[p]) \cup Under(f)
    BY <1>4 DEF Under
  <2>3. QED
    BY <2>1, <2>2 DEF Passed, Under
<1>5. CASE \E t \in Line : Pos[s] < Pos[t] /\ InStage(st2[t]) # {}
  <2>1. PICK t \in Line : Pos[s] < Pos[t] /\ InStage(st2[t]) # {}
    BY <1>5
  <2>2. CASE t # p
    BY <2>1, <2>2 DEF Passed, OnlyOne
  <2>3. CASE t = p
    <3>1. InStage(st[p]) # {} \/ Under(f) # {}
      BY <2>1, <2>3
    <3>2. Under(f) # {} => f # Tick
      BY DEF Under
    <3>3. QED
      BY <2>1, <2>3, <3>1, <3>2 DEF Passed
  <2>4. QED
    BY <2>2, <2>3
<1>6. QED
  BY <1>3, <1>4, <1>5 DEF Passed

(* A frame goes on from a stage that is not s. *)
LEMMA PassedMoved ==
  ASSUME NEW st, NEW p \in DOMAIN After, NEW f, NEW q, NEW s \in Line, s # p,
         Passed(st, After[p], f, q, s)
  PROVE  Passed(st, p, f, q, s)
<1>1. Pos[After[p]] = Pos[p] + 1 /\ Pos[p] \in Int /\ Pos[s] \in Int /\ p \in Places /\ s \in Places
  BY PosFacts
<1>2. Pos[s] < Pos[After[p]] => Pos[s] < Pos[p]
  <2>1. Pos[s] # Pos[p]
    BY <1>1, PosFacts
  <2>2. QED
    BY <1>1, <2>1
<1>3. QED
  BY <1>2 DEF Passed

(* With no frame under way the place does not count. *)
LEMMA PassedTick ==
  ASSUME NEW st, NEW p, NEW r, NEW q, NEW s
  PROVE  Passed(st, p, Tick, q, s) <=> Passed(st, r, Tick, q, s)
BY DEF Passed

(* A stage that is left alone remains as full as it was. *)
LEMMA PrimedKept ==
  ASSUME NEW s \in Line, Primed(s), stage'[s] = stage[s], setting' = setting, asked' = asked,
         drainAt' = drainAt
  PROVE  Primed(s)'
<1>1. Delay(s)' = Delay(s) /\ PipelineDepth(s)' = PipelineDepth(s)
  BY ParametersKept
<1>2. QED
  BY <1>1 DEF Primed

(* The drain goes on from another stage. *)
LEMMA PrimedDrained ==
  ASSUME NEW s \in Line, Primed(s), stage'[s] = stage[s], setting' = setting, asked, asked',
         NEW p \in DOMAIN After, p # s, drainAt = p, drainAt' = After[p]
  PROVE  Primed(s)'
<1>1. Delay(s)' = Delay(s) /\ PipelineDepth(s)' = PipelineDepth(s)
  BY ParametersKept
<1>2. Pos[After[p]] = Pos[p] + 1 /\ Pos[p] \in Int /\ Pos[s] \in Int /\ p \in Places /\ s \in Places
  BY PosFacts
<1>3. Pos[s] # Pos[p]
  BY <1>2, PosFacts
<1>4. /\ Pos[s] < Pos[drainAt'] => Pos[s] < Pos[drainAt]
      /\ Pos[drainAt'] < Pos[s] => Pos[drainAt] < Pos[s]
  BY <1>2, <1>3
<1>5. QED
  BY <1>1, <1>4 DEF Primed

(* The stage at the frame gets it, or a tick: nothing is lost of what is   *)
(* in the chain, and the order is kept.                                    *)
LEMMA TemporalStep ==
  ASSUME StagesOK, Counted, Control, Conveyed, RunTemporal
  PROVE  /\ StagesOK' /\ Control' /\ Conveyed'
         /\ ChainOf(stage, frame)' = ChainOf(stage, frame)
<1>1. /\ at \in Line /\ Enabled(at) /\ at \in Filters /\ at \in DOMAIN After /\ at # "idle"
      /\ setting' = setting /\ given' = given /\ setting \in Settings
  BY PosFacts DEF RunTemporal, Counted
<1>2. PICK a : a = Answer(at)
  OBVIOUS
<1>3. PICK x \in Holding(Frames) :
        /\ x = [hold |-> a.hold, pending |-> a.pending]
        /\ Len(x.hold) <= Delay(at) /\ Len(x.pending) <= PipelineDepth(at)
  BY <1>1, <1>2, AnswerTyped DEF Control
<1>4. /\ stage' = [stage EXCEPT ![at] = x]
      /\ \/ \E f \in a.out : Goes(After[at], f)
         \/ a.out = {} /\ frame # Tick /\ CascadeEnds
         \/ a.out = {} /\ frame = Tick /\ StageDrained
  BY <1>2, <1>3 DEF RunTemporal, Left
<1>5. StagesOK' /\ stage'[at] = x /\ OnlyOne(stage, stage', at)
  BY <1>1, <1>3, <1>4, StagesKept
<1>6. InOrder(a) /\ Answers(InStage(stage[at]) \cup Under(frame), a) /\ a.out \in SUBSET Frames
  BY <1>1, <1>2, AnswerOrdered, AnswerTyped DEF Control
<1>7. /\ ~ PutsOut(a) => /\ \A r : Ordered(stage', r, Tick)
                         /\ ChainOf(stage', Tick) = ChainOf(stage, frame)
      /\ \A g \in a.out : Ordered(stage', After[at], g) /\ ChainOf(stage', g) = ChainOf(stage, frame)
  <2>1. Tick \notin InStage(stage[at])
    BY <1>1, StageCount, FramesFacts
  <2>2. Ordered(stage, at, frame)
    BY DEF Conveyed
  <2>3. PICK st, st2, s, f : st = stage /\ st2 = stage' /\ s = at /\ f = frame
    OBVIOUS
  <2>4. /\ s \in Line /\ Ordered(st, s, f) /\ InOrder(a) /\ Answers(InStage(st[s]) \cup Under(f), a)
        /\ st2[s] = x /\ OnlyOne(st, st2, s) /\ Tick \notin InStage(st[s])
    BY <1>1, <1>5, <1>6, <2>1, <2>2, <2>3
  <2>5. x = [hold |-> a.hold, pending |-> a.pending]
    BY <1>3
  <2>6. /\ ~ PutsOut(a) => /\ \A r : Ordered(st2, r, Tick)
                           /\ ChainOf(st2, Tick) = ChainOf(st, f)
        /\ \A g \in a.out : Ordered(st2, After[s], g) /\ ChainOf(st2, g) = ChainOf(st, f)
    BY <2>4, <2>5, OrderAnswered
  <2>7. QED
    BY <2>3, <2>6
<1>8. CASE \E f \in a.out : Goes(After[at], f)
  <2>1. PICK g \in a.out : Goes(After[at], g)
    BY <1>8
  <2>2. at' = After[at] /\ frame' = g /\ g \in Frames
    BY <1>6, <2>1 DEF Goes
  <2>3. Ordered(stage, at, frame)' /\ ChainOf(stage, frame)' = ChainOf(stage, frame)
    BY <1>7, <2>1, <2>2
  <2>4. Control'
    BY <1>1, <2>1, <2>2, <2>3, ControlGoes
  <2>5. Conveyed'
    BY <1>1, <2>3 DEF Conveyed
  <2>6. QED
    BY <1>5, <2>3, <2>4, <2>5
<1>9. CASE a.out = {} /\ frame # Tick /\ CascadeEnds
  <2>1. frame' = Tick
    BY <1>9 DEF CascadeEnds
  <2>2. Ordered(stage, at, frame)' /\ ChainOf(stage, frame)' = ChainOf(stage, frame)
    BY <1>7, <1>9, <2>1 DEF PutsOut
  <2>3. Control'
    BY <1>1, <1>9, ControlEnds
  <2>4. Conveyed'
    BY <1>1, <2>2 DEF Conveyed
  <2>5. QED
    BY <1>5, <2>2, <2>3, <2>4
<1>10. CASE a.out = {} /\ frame = Tick /\ StageDrained
  <2>1. frame' = Tick
    BY <1>10 DEF StageDrained
  <2>2. Ordered(stage, at, frame)' /\ ChainOf(stage, frame)' = ChainOf(stage, frame)
    BY <1>7, <1>10, <2>1 DEF PutsOut
  <2>3. Control'
    BY <1>1, <1>10, ControlDrained
  <2>4. Conveyed'
    BY <1>1, <2>2 DEF Conveyed
  <2>5. QED
    BY <1>5, <2>2, <2>3, <2>4
<1>11. QED
  BY <1>4, <1>8, <1>9, <1>10

(* The same step keeps the stages full. *)
LEMMA TemporalFlow ==
  ASSUME StagesOK, Counted, Control, Conveyed, Flowing, RunTemporal
  PROVE  Flowing'
<1>1. /\ at \in Line /\ Enabled(at) /\ at \in Filters /\ at \in DOMAIN After /\ at # "idle"
      /\ setting' = setting /\ given' = given /\ setting \in Settings /\ fails' = fails /\ put' = put
  BY PosFacts DEF RunTemporal, Counted
<1>2. PICK a : a = Answer(at)
  OBVIOUS
<1>3. PICK x \in Holding(Frames) :
        /\ x = [hold |-> a.hold, pending |-> a.pending]
        /\ Len(x.hold) <= Delay(at) /\ Len(x.pending) <= PipelineDepth(at)
  BY <1>1, <1>2, AnswerTyped DEF Control
<1>4. /\ stage' = [stage EXCEPT ![at] = x]
      /\ \/ \E f \in a.out : Goes(After[at], f)
         \/ a.out = {} /\ frame # Tick /\ CascadeEnds
         \/ a.out = {} /\ frame = Tick /\ StageDrained
  BY <1>2, <1>3 DEF RunTemporal, Left
<1>5. stage'[at] = x /\ OnlyOne(stage, stage', at)
  BY <1>1, <1>3, <1>4, StagesKept
<1>6. Answers(InStage(stage[at]) \cup Under(frame), a) /\ a.out \in SUBSET Frames
  BY <1>1, <1>2, AnswerOrdered, AnswerTyped DEF Control
<1>7. InStage(x) = InStage(a)
  BY <1>3 DEF InStage
<1>8. /\ InStage(stage'[at]) \cup Under(frame') \subseteq InStage(stage[at]) \cup Under(frame)
      /\ frame' # Tick => at' = After[at] /\ PutsOut(a)
      /\ frame' = Tick => ~ PutsOut(a)
  <2>1. CASE \E f \in a.out : Goes(After[at], f)
    <3>1. PICK g \in a.out : at' = After[at] /\ frame' = g
      BY <2>1 DEF Goes
    <3>2. g # Tick /\ PutsOut(a)
      BY <1>6, <3>1, FramesFacts DEF PutsOut
    <3>3. Under(g) = {g}
      BY <3>2 DEF Under
    <3>4. QED
      BY <1>5, <1>6, <1>7, <3>1, <3>2, <3>3 DEF Answers
  <2>2. CASE a.out = {} /\ frame' = Tick
    <3>1. ~ PutsOut(a) /\ Under(frame') = {}
      BY <2>2 DEF PutsOut, Under
    <3>2. QED
      BY <1>5, <1>6, <1>7, <2>2, <3>1 DEF Answers
  <2>3. QED
    BY <1>4, <2>1, <2>2 DEF CascadeEnds, StageDrained
<1>9. SUFFICES ASSUME fails = 0, NEW s \in Line, Enabled(s)', Passed(stage, at, frame, put, s)'
               PROVE  Primed(s)'
  BY <1>1 DEF Flowing
<1>10. Enabled(s)
  BY <1>1, <1>9, ParametersKept
<1>11. ASSUME s # at \/ frame' = Tick PROVE Passed(stage, at, frame, put, s) /\ Primed(s)
  <2>1. Passed(stage', at', frame', put, s)
    BY <1>1, <1>9
  <2>2. PICK st2, r, g : st2 = stage' /\ r = at' /\ g = frame'
    OBVIOUS
  <2>3. Passed(stage, at, frame, put, s)
    <3>1. /\ OnlyOne(stage, st2, at) /\ Passed(st2, r, g, put, s) /\ (g # Tick => r = After[at])
          /\ InStage(st2[at]) \cup Under(g) \subseteq InStage(stage[at]) \cup Under(frame)
          /\ s # at \/ g = Tick
      BY <1>5, <1>8, <1>11, <2>1, <2>2
    <3>2. QED
      BY <1>1, <3>1, PassedElsewhere
  <2>4. QED
    BY <1>9, <1>10, <2>3 DEF Flowing
<1>12. CASE frame # Tick
  <2>1. asked' = asked /\ drainAt' = drainAt
    BY <1>4, <1>12 DEF Goes, CascadeEnds
  <2>2. CASE s # at
    <3>1. stage'[s] = stage[s]
      BY <1>5, <2>2 DEF OnlyOne
    <3>2. QED
      BY <1>1, <1>11, <2>1, <2>2, <3>1, PrimedKept
  <2>3. CASE s = at
    <3>1. asked => Pos[drainAt] < Pos[s]
      BY <1>12, <2>3 DEF Control
    <3>2. Pos[s] \in Int /\ Pos[drainAt] \in Int
      BY PosFacts DEF Control
    <3>3. frame \in Frames
      BY <1>12 DEF Control
    <3>4. /\ PutsOut(a) => Full(a, Delay(s), PipelineDepth(s))
          /\ Full(stage[s], Delay(s), PipelineDepth(s)) => PutsOut(a)
      BY <1>1, <1>2, <2>3, <3>3, AnswerFed
    <3>5. PutsOut(a)
      <4>1. CASE frame' = Tick
        <5>1. Full(stage[s], Delay(s), PipelineDepth(s))
          <6>1. ~ asked \/ Pos[drainAt] < Pos[s]
            BY <3>1 DEF Control
          <6>2. QED
            BY <1>11, <4>1, <6>1 DEF Primed
        <5>2. QED
          BY <3>4, <5>1
      <4>2. QED
        BY <1>8, <4>1
    <3>6. Full(stage'[s], Delay(s)', PipelineDepth(s)')
      <4>1. Full(x, Delay(s), PipelineDepth(s))
        BY <1>3, <3>4, <3>5 DEF Full
      <4>2. QED
        BY <1>1, <1>5, <2>3, <4>1, ParametersKept
    <3>7. asked' => ~ Pos[s] < Pos[drainAt']
      BY <2>1, <3>1, <3>2
    <3>8. QED
      BY <3>6, <3>7 DEF Primed, Full
  <2>4. QED
    BY <2>2, <2>3
<1>13. CASE frame = Tick
  <2>1. asked /\ drainAt = at
    BY <1>1, <1>13 DEF Control
  <2>2. /\ PutsOut(a) /\ a.hold # << >> => Len(a.pending) = PipelineDepth(at)
        /\ ~ PutsOut(a) => \/ InStage(stage[at]) = {}
                           \/ stage[at].hold # << >> /\ Len(stage[at].pending) # PipelineDepth(at)
    BY <1>1, <1>2, <1>13, AnswerTicked
  <2>3. CASE PutsOut(a)
    <3>1. asked' = asked /\ drainAt' = drainAt
      BY <1>4, <2>3 DEF Goes, PutsOut
    <3>2. CASE s # at
      <4>1. stage'[s] = stage[s]
        BY <1>5, <3>2 DEF OnlyOne
      <4>2. QED
        BY <1>1, <1>11, <3>1, <3>2, <4>1, PrimedKept
    <3>3. CASE s = at
      <4>1. stage'[s].hold # << >> => Len(stage'[s].pending) = PipelineDepth(s)'
        <5>1. PipelineDepth(s)' = PipelineDepth(s)
          BY <1>1, ParametersKept
        <5>2. QED
          BY <1>3, <1>5, <2>2, <2>3, <3>3, <5>1
      <4>2. ~ Pos[s] < Pos[drainAt'] /\ ~ Pos[drainAt'] < Pos[s] /\ asked'
        <5>1. Pos[s] \in Int
          BY PosFacts
        <5>2. QED
          BY <2>1, <3>1, <3>3, <5>1
      <4>3. QED
        BY <4>1, <4>2 DEF Primed
    <3>4. QED
      BY <3>2, <3>3
  <2>4. CASE ~ PutsOut(a)
    <3>1. frame' = Tick /\ drainAt' = After[at] /\ asked'
      BY <1>4, <1>13, <2>1, <2>4 DEF StageDrained, PutsOut
    <3>2. CASE s # at
      <4>1. stage'[s] = stage[s]
        BY <1>5, <3>2 DEF OnlyOne
      <4>2. QED
        BY <1>1, <1>11, <2>1, <3>1, <3>2, <4>1, PrimedDrained
    <3>3. CASE s = at
      <4>1. Primed(s)
        BY <1>11, <3>1
      <4>2. InStage(stage[at]) = {}
        BY <2>2, <2>4, <3>3, <4>1 DEF Primed
      <4>3. InStage(stage'[s]) = {}
        BY <1>5, <1>6, <1>7, <1>13, <2>4, <3>3, <4>2 DEF Answers, PutsOut, Under
      <4>4. stage'[s].hold = << >>
        <5>1. x.hold \in Seq(Frames) /\ x = stage'[s]
          BY <1>5, <3>3 DEF Holding
        <5>2. ASSUME x.hold # << >> PROVE FALSE
          <6>1. Len(x.hold) \in Nat /\ Len(x.hold) # 0
            BY <5>1, <5>2, LenProperties
          <6>2. 1 \in 1 .. Len(x.hold)
            BY <6>1
          <6>3. x.hold[1] \in InStage(x)
            BY <6>2 DEF InStage
          <6>4. QED
            BY <4>3, <5>1, <6>3
        <5>3. QED
          BY <5>1, <5>2
      <4>5. Pos[s] < Pos[drainAt']
        <5>1. Pos[After[s]] = Pos[s] + 1 /\ Pos[s] \in Int
          BY PosFacts
        <5>2. QED
          BY <3>1, <3>3, <5>1
      <4>6. ~ Pos[drainAt'] < Pos[s]
        <5>1. Pos[After[s]] = Pos[s] + 1 /\ Pos[s] \in Int
          BY PosFacts
        <5>2. QED
          BY <3>1, <3>3, <5>1
      <4>7. QED
        BY <3>1, <4>3, <4>4, <4>6 DEF Primed
    <3>4. QED
      BY <3>2, <3>3
  <2>5. QED
    BY <2>3, <2>4
<1>14. QED
  BY <1>12, <1>13

(* A step at a place that has none of the chain's frames but the one under *)
(* way: it goes on, or the drain does.                                     *)
LEMMA QuietStep ==
  ASSUME StagesOK, Counted, Control, Conveyed, Flowing,
         at \in DOMAIN After, at \notin Line \/ ~ Enabled(at),
         setting' = setting, given' = given, fails' = fails, put' = put,
         \A s \in Line : stage'[s] = stage[s],
         \/ frame # Tick /\ Goes(After[at], frame)
         \/ frame = Tick /\ CascadeEnds
         \/ frame = Tick /\ StageDrained
  PROVE  /\ Control' /\ Conveyed' /\ Flowing'
         /\ ChainOf(stage, frame)' = ChainOf(stage, frame)
<1>1. at # "idle" /\ at \in Places
  BY PosFacts
<1>2. PICK st2 : st2 = stage' /\ \A s \in Line : st2[s] = stage[s]
  OBVIOUS
<1>3. \A p, f : /\ Ordered(st2, p, f) <=> Ordered(stage, p, f)
                /\ ChainOf(st2, f) = ChainOf(stage, f)
                /\ \A q, s : Passed(st2, p, f, q, s) <=> Passed(stage, p, f, q, s)
  BY <1>2, LineAlone
<1>4. at \in Line => InStage(stage[at]) = {}
  <2>1. ASSUME at \in Line PROVE InStage(stage[at]) = {}
    <3>1. at \in Filters /\ ~ Enabled(at) /\ setting \in Settings
      BY <2>1, PosFacts DEF Counted
    <3>2. QED
      BY <3>1, StageCount
  <2>2. QED
    BY <2>1
<1>5. CASE frame # Tick /\ Goes(After[at], frame)
  <2>1. /\ at' = After[at] /\ frame' = frame /\ asked' = asked /\ drainAt' = drainAt
        /\ frame \in Frames
    BY <1>5 DEF Goes, Control
  <2>2. ChainOf(stage, frame)' = ChainOf(stage, frame)
    BY <1>2, <1>3, <2>1
  <2>3. Control'
    BY <1>5, <2>1, <2>2, ControlGoes
  <2>4. Ordered(stage, After[at], frame)
    BY <1>4, OrderMoved DEF Conveyed
  <2>5. Conveyed'
    <3>1. Ordered(stage, at, frame)'
      BY <1>2, <1>3, <2>1, <2>4
    <3>2. QED
      BY <2>2, <3>1 DEF Conveyed
  <2>6. ASSUME fails = 0, NEW s \in Line, Enabled(s)', Passed(stage, at, frame, put, s)'
        PROVE  Primed(s)'
    <3>1. Enabled(s) /\ s # at
      BY <2>6, ParametersKept
    <3>2. Passed(stage, After[at], frame, put, s)
      BY <1>2, <1>3, <2>1, <2>6
    <3>3. Passed(stage, at, frame, put, s)
      BY <3>1, <3>2, PassedMoved
    <3>4. Primed(s)
      BY <2>6, <3>1, <3>3 DEF Flowing
    <3>5. QED
      BY <2>1, <3>4, PrimedKept
  <2>7. QED
    BY <2>2, <2>3, <2>5, <2>6 DEF Flowing
<1>6. ASSUME frame = Tick, frame' = Tick
      PROVE  /\ ChainOf(stage, frame)' = ChainOf(stage, frame)
             /\ Conveyed'
             /\ \A s \in Line : Enabled(s)' /\ Passed(stage, at, frame, put, s)'
                                  => Enabled(s) /\ Passed(stage, at, frame, put, s)
  <2>1. ChainOf(stage, frame)' = ChainOf(stage, frame)
    BY <1>2, <1>3, <1>6
  <2>2. Ordered(stage, at, frame)'
    <3>1. Ordered(stage, at', Tick)
      BY OrderDropped DEF Conveyed
    <3>2. QED
      BY <1>2, <1>3, <1>6, <3>1
  <2>3. ASSUME NEW s \in Line, Enabled(s)', Passed(stage, at, frame, put, s)'
        PROVE  Enabled(s) /\ Passed(stage, at, frame, put, s)
    <3>1. Enabled(s)
      BY <2>3, ParametersKept
    <3>2. Passed(stage, at', Tick, put, s)
      BY <1>2, <1>3, <1>6, <2>3
    <3>3. QED
      BY <1>6, <3>1, <3>2, PassedTick
  <2>4. QED
    BY <2>1, <2>2, <2>3 DEF Conveyed
<1>7. CASE frame = Tick /\ CascadeEnds
  <2>1. frame' = Tick /\ asked' = asked /\ drainAt' = drainAt
    BY <1>7 DEF CascadeEnds
  <2>2. Control'
    BY <1>1, <1>7, ControlEnds
  <2>3. ASSUME fails = 0, NEW s \in Line, Enabled(s)', Passed(stage, at, frame, put, s)'
        PROVE  Primed(s)'
    <3>1. Primed(s)
      BY <1>6, <1>7, <2>1, <2>3 DEF Flowing
    <3>2. QED
      BY <2>1, <3>1, PrimedKept
  <2>4. QED
    BY <1>6, <1>7, <2>1, <2>2, <2>3 DEF Flowing
<1>8. CASE frame = Tick /\ StageDrained
  <2>1. frame' = Tick /\ asked' = asked /\ drainAt' = After[drainAt]
    BY <1>8 DEF StageDrained
  <2>2. Control' /\ asked /\ drainAt = at
    BY <1>8, ControlDrained
  <2>3. ASSUME fails = 0, NEW s \in Line, Enabled(s)', Passed(stage, at, frame, put, s)'
        PROVE  Primed(s)'
    <3>1. Primed(s) /\ Enabled(s)
      BY <1>6, <1>8, <2>1, <2>3 DEF Flowing
    <3>2. s # at
      BY <3>1
    <3>3. QED
      BY <2>1, <2>2, <3>1, <3>2, PrimedDrained
  <2>4. QED
    BY <1>6, <1>8, <2>1, <2>2, <2>3 DEF Flowing
<1>9. QED
  BY <1>5, <1>7, <1>8

(* A stage that is off. *)
LEMMA PassThroughStep ==
  ASSUME StagesOK, Counted, Control, Conveyed, Flowing, PassThrough
  PROVE  /\ StagesOK' /\ Control' /\ Conveyed' /\ Flowing'
         /\ ChainOf(stage, frame)' = ChainOf(stage, frame)
<1>1. /\ at \in DOMAIN After /\ ~ Enabled(at)
      /\ setting' = setting /\ given' = given /\ fails' = fails /\ put' = put /\ stage' = stage
      /\ \/ frame # Tick /\ Goes(After[at], frame)
         \/ frame = Tick /\ StageDrained
  BY DEF PassThrough
<1>2. StagesOK'
  BY <1>1, StagesSame
<1>3. QED
  BY <1>1, <1>2, QuietStep

(* A compensating pass has copies: the chain's frames are elsewhere. *)
LEMMA CompStep ==
  ASSUME StagesOK, Counted, Control, Conveyed, Flowing, RunComp
  PROVE  /\ StagesOK' /\ Control' /\ Conveyed' /\ Flowing'
         /\ ChainOf(stage, frame)' = ChainOf(stage, frame)
<1>1. /\ at \in Comps /\ Enabled(at) /\ at \in Filters /\ at \in DOMAIN After /\ at \notin Line
      /\ setting' = setting /\ given' = given /\ fails' = fails /\ put' = put /\ setting \in Settings
  BY PosFacts DEF RunComp, Counted
<1>2. PICK a : a = Answer(at)
  OBVIOUS
<1>3. PICK x \in Holding(Frames) :
        /\ x = [hold |-> a.hold, pending |-> a.pending]
        /\ Len(x.hold) <= Delay(at) /\ Len(x.pending) <= PipelineDepth(at)
  BY <1>1, <1>2, AnswerTyped DEF Control
<1>4. /\ stage' = [stage EXCEPT ![at] = x]
      /\ \/ frame # Tick /\ Goes(After[at], frame)
         \/ frame = Tick /\ StageDrained
         \/ frame = Tick /\ CascadeEnds
  BY <1>2, <1>3 DEF RunComp, Left
<1>5. StagesOK' /\ OnlyOne(stage, stage', at)
  BY <1>1, <1>3, <1>4, StagesKept
<1>6. \A s \in Line : stage'[s] = stage[s]
  BY <1>1, <1>5 DEF OnlyOne
<1>7. QED
  BY <1>1, <1>4, <1>5, <1>6, QuietStep

(* A repair holds nothing back. *)
LEMMA RepairStep ==
  ASSUME StagesOK, Counted, Control, Conveyed, Flowing, RunRepair
  PROVE  /\ StagesOK' /\ Control' /\ Conveyed' /\ Flowing'
         /\ ChainOf(stage, frame)' = ChainOf(stage, frame)
<1>1. /\ at \in DOMAIN After /\ at \notin Line
      /\ setting' = setting /\ given' = given /\ fails' = fails /\ put' = put /\ stage' = stage
      /\ \/ frame # Tick /\ Goes(After[at], frame)
         \/ frame = Tick /\ StageDrained
  BY PosFacts DEF RunRepair, Repairs, Line
<1>2. StagesOK'
  BY <1>1, StagesSame
<1>3. QED
  BY <1>1, <1>2, QuietStep

(* Nor does the retouch. *)
LEMMA RetouchStep ==
  ASSUME StagesOK, Counted, Control, Conveyed, Flowing, RunRetouch
  PROVE  /\ StagesOK' /\ Control' /\ Conveyed' /\ Flowing'
         /\ ChainOf(stage, frame)' = ChainOf(stage, frame)
<1>1. /\ at \in DOMAIN After /\ at \notin Line
      /\ setting' = setting /\ given' = given /\ fails' = fails /\ put' = put /\ stage' = stage
      /\ \/ frame # Tick /\ Goes(After[at], frame)
         \/ frame = Tick /\ StageDrained
  BY PosFacts DEF RunRetouch, Line
<1>2. StagesOK'
  BY <1>1, StagesSame
<1>3. QED
  BY <1>1, <1>2, QuietStep

(* The sink gets the first of the frames in the chain. *)
LEMMA SinkStep ==
  ASSUME StagesOK, Counted, Control, Conveyed, Flowing, Sink
  PROVE  /\ StagesOK' /\ Control' /\ Conveyed' /\ Flowing'
         /\ frame \in Frames /\ ChainOf(stage, frame) = ChainOf(stage, frame)' \cup {frame}
         /\ Before({frame}, ChainOf(stage, frame)')
<1>1. /\ at = "sink" /\ at # "idle" /\ CascadeEnds /\ put' = Append(put, frame)
      /\ setting' = setting /\ given' = given /\ fails' = fails /\ stage' = stage
  BY DEF Sink
<1>2. frame' = Tick /\ asked' = asked /\ drainAt' = drainAt
  BY <1>1 DEF CascadeEnds
<1>3. frame # Tick /\ frame \in Frames
  BY <1>1 DEF Control
<1>4. StagesOK' /\ Control'
  BY <1>1, StagesSame, ControlEnds
<1>5. \A e : e \in ChainOf(stage, frame) <=> e \in ChainOf(stage, Tick) \/ e = frame
  BY <1>3, ChainMember DEF Under
<1>6. ChainOf(stage, frame) = ChainOf(stage, frame)' \cup {frame}
  <2>1. ChainOf(stage, frame)' = ChainOf(stage, Tick)
    BY <1>1, <1>2
  <2>2. QED
    BY <1>5, <2>1
<1>7. Before({frame}, ChainOf(stage, frame)')
  <2>1. Before({frame}, ChainOf(stage, Tick))
    BY <1>1, <1>3, OldestAtSink DEF Conveyed
  <2>2. QED
    BY <1>1, <1>2, <2>1
<1>8. Conveyed'
  <2>1. Ordered(stage, at', Tick)
    BY OrderDropped DEF Conveyed
  <2>2. QED
    BY <1>1, <1>2, <1>6, <2>1 DEF Conveyed
<1>9. ASSUME fails = 0, NEW s \in Line, Enabled(s)' PROVE Primed(s)'
  <2>1. Enabled(s)
    BY <1>1, <1>9, ParametersKept
  <2>2. Passed(stage, at, frame, put, s)
    <3>1. Pos[After[s]] = Pos[s] + 1 /\ Pos[After[s]] \in 0 .. 9 /\ Pos["sink"] = 9 /\ Pos[s] \in Int
      BY PosFacts
    <3>2. Pos[s] < Pos[at]
      BY <1>1, <3>1
    <3>3. QED
      BY <1>3, <3>2 DEF Passed
  <2>3. Primed(s)
    BY <1>9, <2>1, <2>2 DEF Flowing
  <2>4. QED
    BY <1>1, <1>2, <2>3, PrimedKept
<1>10. QED
  BY <1>1, <1>3, <1>4, <1>6, <1>7, <1>8, <1>9 DEF Flowing

(* A push takes the next frame. *)
LEMMA PushStep ==
  ASSUME StagesOK, Counted, Control, Conveyed, Flowing, PushFrame
  PROVE  /\ StagesOK' /\ Control' /\ Conveyed' /\ Flowing'
         /\ given \in Frames /\ frame = Tick
         /\ ChainOf(stage, frame)' = ChainOf(stage, frame) \cup {given}
         /\ Before(ChainOf(stage, frame), {given})
<1>1. /\ at = "idle" /\ ~ asked /\ given < setting.frames /\ given' = given + 1 /\ setting' = setting
      /\ at' = "analyze" /\ frame' = given /\ drainAt' = drainAt /\ asked' = asked /\ ended' = ended
      /\ stage' = stage /\ put' = put /\ fails' = fails
  BY DEF PushFrame, Goes
<1>2. given \in Frames /\ given \in Nat
  BY <1>1, Parameters, FramesFacts DEF Counted, Frames
<1>3. frame = Tick /\ given # Tick
  BY <1>1, <1>2, FramesFacts DEF Control
<1>4. Before(ChainOf(stage, frame), {given})
  BY <1>2 DEF Conveyed, Before
<1>5. ChainOf(stage, frame)' = ChainOf(stage, frame) \cup {given}
  <2>1. \A e : e \in ChainOf(stage, given) <=> e \in ChainOf(stage, Tick) \/ e = given
    BY <1>3, ChainMember DEF Under
  <2>2. QED
    BY <1>1, <1>3, <2>1
<1>6. StagesOK'
  BY <1>1, StagesSame
<1>7. Control'
  BY <1>1, <1>2, <1>3, <1>5, PosFacts DEF Control
<1>8. Conveyed'
  <2>1. Ordered(stage, "analyze", given)
    BY <1>3, <1>4, OrderEnters DEF Conveyed
  <2>2. ChainOf(stage, frame)' \subseteq 0 .. given' - 1
    BY <1>1, <1>2, <1>5 DEF Conveyed
  <2>3. QED
    BY <1>1, <2>1, <2>2 DEF Conveyed
<1>9. ASSUME fails = 0, NEW s \in Line, Enabled(s)', Passed(stage, at, frame, put, s)'
      PROVE  Primed(s)'
  <2>1. Enabled(s)
    BY <1>1, <1>9, ParametersKept
  <2>2. ~ Pos[s] < Pos["analyze"]
    <3>1. Pos[s] >= 1 /\ Pos["analyze"] = 1 /\ Pos[s] \in Int
      BY PosFacts
    <3>2. QED
      BY <3>1
  <2>3. Passed(stage, at, frame, put, s)
    BY <1>1, <1>9, <2>2 DEF Passed
  <2>4. Primed(s)
    BY <1>9, <2>1, <2>3 DEF Flowing
  <2>5. QED
    BY <1>1, <2>4, PrimedKept
<1>10. QED
  BY <1>1, <1>2, <1>3, <1>4, <1>5, <1>6, <1>7, <1>8, <1>9 DEF Flowing

(* drain() is called. *)
LEMMA AskStep ==
  ASSUME StagesOK, Counted, Control, Conveyed, Flowing, Ask
  PROVE  /\ StagesOK' /\ Control' /\ Conveyed' /\ Flowing'
         /\ ChainOf(stage, frame)' = ChainOf(stage, frame)
<1>1. /\ at = "idle" /\ (~ asked \/ fails > 0)
      /\ asked' /\ ended' = FALSE /\ drainAt' = "analyze" /\ at' = "analyze" /\ frame' = frame
      /\ asked' \in BOOLEAN
      /\ stage' = stage /\ setting' = setting /\ given' = given /\ put' = put /\ fails' = fails
  BY DEF Ask
<1>2. frame = Tick
  BY <1>1 DEF Control
<1>3. StagesOK'
  BY <1>1, StagesSame
<1>4. "analyze" \in Places /\ "analyze" # "idle" /\ "analyze" # "sink" /\ Pos["analyze"] = 1
  BY PosFacts
<1>5. Control'
  BY <1>1, <1>2, <1>4 DEF Control
<1>6. Conveyed'
  <2>1. Ordered(stage, "analyze", Tick)
    BY OrderDropped DEF Conveyed
  <2>2. QED
    BY <1>1, <1>2, <2>1 DEF Conveyed
<1>7. ASSUME fails = 0, NEW s \in Line, Enabled(s)', Passed(stage, at, frame, put, s)'
      PROVE  Primed(s)'
  <2>1. Enabled(s) /\ Delay(s)' = Delay(s) /\ PipelineDepth(s)' = PipelineDepth(s)
    BY <1>1, <1>7, ParametersKept
  <2>2. Passed(stage, at, frame, put, s)
    <3>1. Passed(stage, "analyze", Tick, put, s)
      BY <1>1, <1>2, <1>7
    <3>2. QED
      BY <1>2, <3>1, PassedTick
  <2>3. Primed(s)
    BY <1>7, <2>1, <2>2 DEF Flowing
  <2>4. ~ asked
    BY <1>1, <1>7
  <2>5. ~ Pos[s] < Pos["analyze"]
    <3>1. Pos[s] >= 1 /\ Pos["analyze"] = 1 /\ Pos[s] \in Int
      BY PosFacts
    <3>2. QED
      BY <3>1
  <2>6. QED
    BY <1>1, <2>1, <2>3, <2>4, <2>5 DEF Primed
<1>8. QED
  BY <1>1, <1>2, <1>3, <1>5, <1>6, <1>7 DEF Flowing

(* At most two frames have gone from the chain. *)
Loses == \E x, y : ChainOf(stage, frame) \ ChainOf(stage, frame)' \subseteq {x, y}

(* A call fails, and what is left in the chain is in order. *)
LEMMA FailStep ==
  ASSUME Counted, Control, Conveyed, CallFails, given' = given \/ given' = given + 1,
         Ordered(stage', "idle", Tick), ChainOf(stage', Tick) \subseteq ChainOf(stage, frame)
  PROVE  /\ Control' /\ Conveyed' /\ Flowing'
         /\ ChainOf(stage, frame)' \subseteq ChainOf(stage, frame)
<1>1. fails' = fails + 1 /\ at' = "idle" /\ frame' = Tick
  BY DEF CallFails
<1>2. fails' # 0
  BY <1>1, ChainAssumption DEF Counted
<1>3. ChainOf(stage, frame)' \subseteq 0 .. given' - 1
  <2>1. given \in Int
    BY Parameters DEF Counted
  <2>2. QED
    BY <1>1, <2>1 DEF Conveyed
<1>4. QED
  BY <1>1, <1>2, <1>3, ControlFails DEF Conveyed, Flowing

(* The frame under way is lost. *)
LEMMA FrameLost ==
  ASSUME Counted, Control, Conveyed, CallFails, given' = given \/ given' = given + 1,
         \A s \in Line : stage'[s] = stage[s]
  PROVE  /\ Control' /\ Conveyed' /\ Flowing'
         /\ ChainOf(stage, frame)' \subseteq ChainOf(stage, frame) /\ Loses
<1>1. frame' = Tick
  BY DEF CallFails
<1>2. PICK st2 : st2 = stage' /\ \A s \in Line : st2[s] = stage[s]
  OBVIOUS
<1>3. Ordered(st2, "idle", Tick) /\ ChainOf(st2, Tick) = ChainOf(stage, Tick)
  <2>1. Ordered(stage, "idle", Tick)
    BY OrderDropped DEF Conveyed
  <2>2. QED
    BY <1>2, <2>1, LineAlone
<1>4. \A e : e \in ChainOf(stage, Tick) \/ e = frame <=> e \in ChainOf(stage, frame) \/ e = frame
  BY ChainMember DEF Under
<1>5. ChainOf(stage, Tick) \subseteq ChainOf(stage, frame)
  BY ChainMember DEF Under
<1>6. /\ Control' /\ Conveyed' /\ Flowing'
      /\ ChainOf(stage, frame)' \subseteq ChainOf(stage, frame)
  BY <1>2, <1>3, <1>5, FailStep
<1>7. ChainOf(stage, frame) \ ChainOf(stage, frame)' \subseteq {frame, frame}
  BY <1>1, <1>2, <1>3, <1>4
<1>8. QED
  BY <1>6, <1>7 DEF Loses

(* push() fails to keep the reference. *)
LEMMA KeepFailsStep ==
  ASSUME StagesOK, Counted, Control, Conveyed, KeepFails
  PROVE  /\ StagesOK' /\ Control' /\ Conveyed' /\ Flowing'
         /\ ChainOf(stage, frame)' \subseteq ChainOf(stage, frame) /\ Loses
<1>1. setting' = setting /\ stage' = stage /\ given' = given + 1 /\ CallFails
  BY DEF KeepFails
<1>2. QED
  BY <1>1, StagesSame, FrameLost

(* A repair, the retouch or the sink fails. *)
LEMMA StepFailsStep ==
  ASSUME StagesOK, Counted, Control, Conveyed, StepFails
  PROVE  /\ StagesOK' /\ Control' /\ Conveyed' /\ Flowing'
         /\ ChainOf(stage, frame)' \subseteq ChainOf(stage, frame) /\ Loses
<1>1. setting' = setting /\ stage' = stage /\ given' = given /\ CallFails
  BY DEF StepFails
<1>2. QED
  BY <1>1, StagesSame, FrameLost

(* The ring of a compensating pass does not take what comes out. *)
LEMMA KeepCompFailsStep ==
  ASSUME StagesOK, Counted, Control, Conveyed, KeepCompFails
  PROVE  /\ StagesOK' /\ Control' /\ Conveyed' /\ Flowing'
         /\ ChainOf(stage, frame)' \subseteq ChainOf(stage, frame) /\ Loses
<1>1. /\ at \in Comps /\ Enabled(at) /\ at \in Filters /\ at \notin Line
      /\ setting' = setting /\ given' = given /\ CallFails /\ setting \in Settings
  BY PosFacts DEF KeepCompFails, Counted
<1>2. PICK a : a = Answer(at)
  OBVIOUS
<1>3. PICK x \in Holding(Frames) :
        /\ x = [hold |-> a.hold, pending |-> a.pending]
        /\ Len(x.hold) <= Delay(at) /\ Len(x.pending) <= PipelineDepth(at)
  BY <1>1, <1>2, AnswerTyped DEF Control
<1>4. stage' = [stage EXCEPT ![at] = x]
  BY <1>2, <1>3 DEF KeepCompFails, Left
<1>5. StagesOK' /\ OnlyOne(stage, stage', at)
  BY <1>1, <1>3, <1>4, StagesKept
<1>6. \A s \in Line : stage'[s] = stage[s]
  BY <1>1, <1>5 DEF OnlyOne
<1>7. QED
  BY <1>1, <1>5, <1>6, FrameLost

(* A stage that holds frames back fails. *)
LEMMA FilterFailsStep ==
  ASSUME StagesOK, Counted, Control, Conveyed, FilterFails
  PROVE  /\ StagesOK' /\ Control' /\ Conveyed' /\ Flowing'
         /\ ChainOf(stage, frame)' \subseteq ChainOf(stage, frame) /\ Loses
<1>1. /\ at \in Filters /\ Enabled(at)
      /\ setting' = setting /\ given' = given /\ CallFails /\ setting \in Settings
      /\ frame \in Frames \cup {Tick}
  BY DEF FilterFails, Counted, Control
<1>2. PICK x \in StageAfterFailure(stage[at], Answer(at)) : stage' = [stage EXCEPT ![at] = x]
  BY DEF FilterFails
<1>3. x \in Holding(Frames) /\ Len(x.hold) <= Delay(at) /\ Len(x.pending) <= PipelineDepth(at)
  BY <1>1, FailureTyped
<1>4. StagesOK' /\ stage'[at] = x /\ OnlyOne(stage, stage', at)
  BY <1>1, <1>2, <1>3, StagesKept
<1>5. CASE at \in Comps
  <2>1. \A s \in Line : stage'[s] = stage[s]
    BY <1>4, <1>5, PosFacts DEF OnlyOne
  <2>2. QED
    BY <1>1, <1>4, <2>1, FrameLost
<1>6. CASE at \in Line
  <2>1. InOrder(x) /\ Leaves(InStage(stage[at]) \cup Under(frame), x)
    BY <1>1, <1>6, FailureOrdered
  <2>2. PICK y, z : /\ InStage(x) \subseteq InStage(stage[at]) \cup Under(frame)
                    /\ (InStage(stage[at]) \cup Under(frame)) \ InStage(x) \subseteq {y, z}
    BY <2>1 DEF Leaves
  <2>3. PICK st, st2, s, f : st = stage /\ st2 = stage' /\ s = at /\ f = frame
    OBVIOUS
  <2>4. /\ s \in Line /\ Ordered(st, s, f) /\ InOrder(x) /\ InStage(x) \subseteq InStage(st[s]) \cup Under(f)
        /\ st2[s] = x /\ OnlyOne(st, st2, s)
    BY <1>4, <1>6, <2>1, <2>2, <2>3 DEF Conveyed
  <2>5. Ordered(st2, "idle", Tick)
    BY <1>3, <2>4, OrderLeft
  <2>6. /\ ChainOf(st2, Tick) \subseteq ChainOf(st, f)
        /\ ChainOf(st, f) \ ChainOf(st2, Tick)
             \subseteq (InStage(st[s]) \cup Under(f)) \ (InStage(x) \cup Under(Tick))
    <3>1. Under(Tick) \subseteq InStage(st[s]) \cup Under(f)
      BY DEF Under
    <3>2. QED
      BY <2>4, <3>1, ChainLeft
  <2>7. /\ Control' /\ Conveyed' /\ Flowing'
        /\ ChainOf(stage, frame)' \subseteq ChainOf(stage, frame)
    BY <1>1, <2>3, <2>5, <2>6, FailStep
  <2>8. frame' = Tick
    BY <1>1 DEF CallFails
  <2>9. ChainOf(stage, frame) \ ChainOf(stage, frame)' \subseteq {y, z}
    <3>1. ChainOf(st, f) \ ChainOf(st2, Tick) \subseteq {y, z}
      BY <2>2, <2>3, <2>6
    <3>2. QED
      BY <2>3, <2>8, <3>1
  <2>10. QED
    BY <1>4, <2>7, <2>9 DEF Loses
<1>7. QED
  BY <1>1, <1>5, <1>6, PosFacts

-----------------------------------------------------------------------------
(* The reference ring                                                      *)

(* There is a bound on the frames in one of two sets.                      *)
LEMMA CountOneMore ==
  ASSUME NEW A, IsFiniteSet(A), NEW B, NEW x, B \subseteq A \cup {x}
  PROVE  /\ IsFiniteSet(B) /\ Cardinality(A) \in Nat /\ Cardinality(B) \in Nat
         /\ Cardinality(B) <= Cardinality(A) + 1
<1>1. IsFiniteSet(A \cup {x}) /\ (Cardinality(A \cup {x}) = Cardinality(A) \/ Cardinality(A \cup {x}) = Cardinality(A) + 1)
  BY FS_AddElement
<1>2. IsFiniteSet(B) /\ Cardinality(B) <= Cardinality(A \cup {x})
  BY <1>1, FS_Subset
<1>3. Cardinality(A) \in Nat /\ Cardinality(B) \in Nat
  BY <1>2, FS_CardinalityType
<1>4. QED
  BY <1>1, <1>2, <1>3

(* Two more, at most.                                                      *)
LEMMA CountTwoMore ==
  ASSUME NEW A, IsFiniteSet(A), NEW B, NEW x, NEW y, B \subseteq A \cup {x, y}
  PROVE  /\ IsFiniteSet(B) /\ Cardinality(A) \in Nat /\ Cardinality(B) \in Nat
         /\ Cardinality(B) <= Cardinality(A) + 2
<1>1. PICK C : C = A \cup {x}
  OBVIOUS
<1>2. IsFiniteSet(C) /\ Cardinality(A) \in Nat /\ Cardinality(C) \in Nat /\ Cardinality(C) <= Cardinality(A) + 1
  BY <1>1, CountOneMore
<1>3. B \subseteq C \cup {y}
  BY <1>1
<1>4. IsFiniteSet(B) /\ Cardinality(B) \in Nat /\ Cardinality(B) <= Cardinality(C) + 1
  BY <1>2, <1>3, CountOneMore
<1>5. QED
  BY <1>2, <1>4

(* A step fails: up to two frames leave the chain, and the ring, if it is  *)
(* full, makes room.                                                       *)
LEMMA RetainsLess ==
  ASSUME NEW q, NEW C, NEW n \in Nat, NEW room, Retains(q, C, n, room),
         NEW r \in Seq(Frames), Len(r) <= Len(q), Sorted(r), Elems(r) \subseteq Elems(q), room => r = q,
         NEW D, D \subseteq C, NEW x, NEW y, C \ D \subseteq {x, y}
  PROVE  Retains(r, D, n + 1, room)
<1>1. q \in Seq(Frames) /\ Len(q) <= RefPool /\ Cardinality(Elems(q) \ C) <= 2 * n
  BY DEF Retains
<1>2. IsFiniteSet(Elems(q)) /\ Len(q) \in Nat /\ Len(r) \in Nat
  BY <1>1, ElemsCount, LenProperties
<1>3. IsFiniteSet(Elems(q) \ C)
  BY <1>2, FS_Difference
<1>4. PICK A, B : A = Elems(q) \ C /\ B = Elems(r) \ D
  OBVIOUS
<1>5. /\ Cardinality(A) \in Nat /\ Cardinality(B) \in Nat
      /\ Cardinality(B) <= Cardinality(A) + 2
  <2>1. IsFiniteSet(A) /\ B \subseteq A \cup {x, y}
    BY <1>3, <1>4
  <2>2. QED
    BY <2>1, CountTwoMore
<1>6. Cardinality(Elems(r) \ D) <= 2 * (n + 1)
  BY <1>1, <1>4, <1>5
<1>7. Len(r) <= RefPool
  BY <1>1, <1>2, ChainAssumption
<1>8. room => D \subseteq Elems(r)
  BY DEF Retains
<1>9. QED
  BY <1>6, <1>7, <1>8 DEF Retains

(* A frame comes in.                                                       *)
LEMMA RetainsMore ==
  ASSUME NEW q, NEW C, NEW n \in Nat, NEW room, Retains(q, C, n, room),
         NEW f \in Frames, Before(Elems(q), {f}), room => Len(q) < RefPool,
         NEW r, r = Retained(q, RefPool, f)
  PROVE  Retains(r, C \cup {f}, n, room)
<1>1. q \in Seq(Frames) /\ Len(q) <= RefPool /\ Sorted(q) /\ Cardinality(Elems(q) \ C) <= 2 * n
  BY DEF Retains
<1>2. /\ r \in Seq(Frames) /\ Len(r) <= RefPool /\ Sorted(r)
      /\ Elems(r) \subseteq Elems(q) \cup {f}
      /\ Len(q) < RefPool => Elems(r) = Elems(q) \cup {f}
  BY <1>1, RetainedFacts, FramesFacts, ChainAssumption
<1>3. IsFiniteSet(Elems(q) \ C)
  BY <1>1, ElemsCount, FS_Difference
<1>4. Elems(r) \ (C \cup {f}) \subseteq Elems(q) \ C
  BY <1>2
<1>5. /\ Cardinality(Elems(r) \ (C \cup {f})) <= Cardinality(Elems(q) \ C)
      /\ Cardinality(Elems(r) \ (C \cup {f})) \in Nat /\ Cardinality(Elems(q) \ C) \in Nat
  BY <1>3, <1>4, FS_Subset, FS_CardinalityType
<1>6. Cardinality(Elems(r) \ (C \cup {f})) <= 2 * n
  BY <1>1, <1>5
<1>7. room => C \cup {f} \subseteq Elems(r)
  BY <1>2 DEF Retains
<1>8. QED
  BY <1>2, <1>6, <1>7 DEF Retains

(* The oldest frame leaves the chain.                                      *)
LEMMA RetainsPruned ==
  ASSUME NEW q, NEW C, NEW f \in Frames, NEW n \in Nat, NEW room,
         Retains(q, C \cup {f}, n, room), Before({f}, C), NEW r, r = PrunedUpTo(q, f)
  PROVE  Retains(r, C, n, room)
<1>1. /\ q \in Seq(Frames) /\ Len(q) <= RefPool /\ Sorted(q)
      /\ Cardinality(Elems(q) \ (C \cup {f})) <= 2 * n
  BY DEF Retains
<1>2. /\ r \in Seq(Frames) /\ Len(r) <= Len(q) /\ Sorted(r)
      /\ Elems(r) = {x \in Elems(q) : f < x}
  BY <1>1, PrunedFacts, FramesFacts
<1>3. Len(r) <= RefPool
  BY <1>1, <1>2, LenProperties, ChainAssumption
<1>4. IsFiniteSet(Elems(q) \ (C \cup {f}))
  BY <1>1, ElemsCount, FS_Difference
<1>5. Elems(r) \ C \subseteq Elems(q) \ (C \cup {f})
  BY <1>2, FramesFacts
<1>6. /\ Cardinality(Elems(r) \ C) <= Cardinality(Elems(q) \ (C \cup {f}))
      /\ Cardinality(Elems(r) \ C) \in Nat /\ Cardinality(Elems(q) \ (C \cup {f})) \in Nat
  BY <1>4, <1>5, FS_Subset, FS_CardinalityType
<1>7. Cardinality(Elems(r) \ C) <= 2 * n
  BY <1>1, <1>6
<1>8. room => C \subseteq Elems(r)
  BY <1>2 DEF Retains, Before
<1>9. QED
  BY <1>2, <1>3, <1>7, <1>8 DEF Retains

(* Between two calls the ring has no more frames than the stages may hold  *)
(* back and the failed steps have left there.                              *)
LEMMA RingCount ==
  ASSUME StagesOK, setting \in Settings, fails \in Nat, NEW q, NEW room,
         Retains(q, ChainOf(stage, Tick), fails, room)
  PROVE  Len(q) \in Nat /\ Len(q) <= Backlog + 2 * fails
<1>1. PICK C : C = ChainOf(stage, Tick)
  OBVIOUS
<1>2. q \in Seq(Frames) /\ Sorted(q) /\ Cardinality(Elems(q) \ C) <= 2 * fails
  BY <1>1 DEF Retains
<1>3. IsFiniteSet(C) /\ Cardinality(C) \in Nat /\ Cardinality(C) <= Backlog
  BY <1>1, ChainCount
<1>4. IsFiniteSet(Elems(q)) /\ Cardinality(Elems(q)) = Len(q) /\ Len(q) \in Nat
  BY <1>2, FramesFacts, SortedCount, ElemsCount, LenProperties
<1>5. IsFiniteSet(Elems(q) \ C) /\ Cardinality(Elems(q) \ C) \in Nat
  BY <1>4, FS_Difference, FS_CardinalityType
<1>6. IsFiniteSet(Elems(q) \cap C) /\ Cardinality(Elems(q) \cap C) <= Cardinality(C)
      /\ Cardinality(Elems(q) \cap C) \in Nat
  BY <1>3, FS_Subset, FS_CardinalityType
<1>7. Cardinality(Elems(q) \ C) = Cardinality(Elems(q)) - Cardinality(Elems(q) \cap C)
  BY <1>4, FS_Difference
<1>8. Backlog \in Nat
  BY Parameters
<1>9. QED
  BY <1>2, <1>3, <1>4, <1>5, <1>6, <1>7, <1>8

(* There is room after fewer failures when there is after more.            *)
LEMMA TwoForEach ==
  ASSUME NEW p \in Int, NEW b \in Nat, NEW n \in Nat, NEW m \in Nat, n <= m, 2 * m <= p - (b + 1)
  PROVE  2 * n <= p - (b + 1)
OBVIOUS

(* There is no more room after a step than before.                         *)
LEMMA RoomLess ==
  ASSUME Counted, setting' = setting, fails' = fails \/ fails' = fails + 1
  PROVE  /\ RefRoom' => RefRoom
         /\ fails \in Nat /\ fails' \in Nat /\ Backlog \in Nat /\ Backlog' = Backlog
<1>1. fails \in Nat /\ fails' \in Nat /\ fails <= fails'
  BY ChainAssumption DEF Counted
<1>2. Backlog \in Nat /\ Backlog' = Backlog
  BY Parameters, ParametersKept DEF Counted
<1>3. RefRoom' => RefRoom
  <2>1. RefPool \in Int
    BY ChainAssumption
  <2>2. QED
    BY <1>1, <1>2, <2>1, TwoForEach DEF RefRoom
<1>4. QED
  BY <1>1, <1>2, <1>3

(* The reference ring and the frames in the chain stay as they are.        *)
LEMMA RefsKept ==
  ASSUME References, setting' = setting, given' = given, refRing' = refRing, refPeak' = refPeak,
         fails' = fails, ChainOf(stage, frame)' = ChainOf(stage, frame)
  PROVE  References'
<1>1. NeedRef' = NeedRef /\ Backlog' = Backlog
  BY ParametersKept
<1>2. RefRoom' = RefRoom
  BY <1>1 DEF RefRoom
<1>3. QED
  BY <1>1, <1>2 DEF References

(* No repair has gone without its reference in this step.                  *)
LEMMA RepairedKept ==
  ASSUME Counted, Repaired, setting' = setting, fails' = fails \/ fails' = fails + 1,
         unrepaired' = unrepaired
  PROVE  Repaired'
BY RoomLess DEF Repaired

(* A call fails.                                                           *)
LEMMA RefsFailed ==
  ASSUME StagesOK, Counted, References, setting' = setting, given' = given \/ given' = given + 1,
         fails' = fails + 1, refPeak' = refPeak,
         refRing' = refRing \/ (frame = Tick /\ NeedRef /\ refRing' = Room(refRing, RefPool)),
         ChainOf(stage, frame)' \subseteq ChainOf(stage, frame), Loses
  PROVE  References'
<1>1. NeedRef' = NeedRef /\ given \in Int /\ setting \in Settings
  BY ParametersKept, Parameters DEF Counted
<1>2. /\ RefRoom' => RefRoom
      /\ fails \in Nat /\ fails' \in Nat /\ Backlog \in Nat /\ Backlog' = Backlog
  BY RoomLess
<1>3. PICK q, r, C, D : /\ q = refRing /\ r = refRing'
                        /\ C = ChainOf(stage, frame) /\ D = ChainOf(stage, frame)'
  OBVIOUS
<1>4. PICK x, y : C \ D \subseteq {x, y}
  BY <1>3 DEF Loses
<1>5. refPeak' \in 0 .. RefPool /\ refPeak' <= Backlog' + 1 + 2 * fails'
  BY <1>2, ChainAssumption DEF References
<1>6. CASE NeedRef
  <2>1. Retains(q, C, fails, RefRoom) /\ q \in Seq(Frames) /\ Len(q) <= RefPool /\ Sorted(q)
    BY <1>3, <1>6 DEF References, Retains
  <2>2. /\ r \in Seq(Frames) /\ Len(r) <= Len(q) /\ Sorted(r) /\ Elems(r) \subseteq Elems(q)
        /\ RefRoom => r = q
    <3>1. CASE r = q
      BY <2>1, <3>1, LenProperties
    <3>2. CASE frame = Tick /\ r = Room(q, RefPool)
      <4>1. /\ r \in Seq(Frames) /\ Len(r) <= Len(q) /\ Sorted(r) /\ Elems(r) \subseteq Elems(q)
            /\ Len(q) < RefPool => r = q
        BY <2>1, <3>2, RoomFacts, FramesFacts, ChainAssumption
      <4>2. Len(q) \in Nat /\ Len(q) <= Backlog + 2 * fails
        BY <1>1, <1>2, <1>3, <2>1, <3>2, RingCount
      <4>3. RefRoom => Len(q) < RefPool
        BY <1>2, <4>2, ChainAssumption DEF RefRoom
      <4>4. QED
        BY <4>1, <4>3
    <3>3. QED
      BY <1>3, <3>1, <3>2
  <2>3. Retains(r, D, fails + 1, RefRoom')
    <3>1. RefRoom' => RefRoom
      BY <1>2
    <3>2. D \subseteq C
      BY <1>3
    <3>3. Retains(r, D, fails + 1, RefRoom)
      BY <1>2, <1>4, <2>1, <2>2, <3>2, RetainsLess
    <3>4. QED
      BY <3>1, <3>3 DEF Retains
  <2>4. Elems(r) \subseteq 0 .. given' - 1
    <3>1. Elems(q) \subseteq 0 .. given - 1
      BY <1>3 DEF References
    <3>2. QED
      BY <1>1, <2>2, <3>1
  <2>5. QED
    BY <1>1, <1>2, <1>3, <1>5, <1>6, <2>3, <2>4 DEF References
<1>7. CASE ~ NeedRef
  <2>1. refRing = << >> /\ refRing' = << >>
    BY <1>7 DEF References
  <2>2. Elems(refRing') \subseteq 0 .. given' - 1
    BY <2>1 DEF Elems
  <2>3. QED
    BY <1>1, <1>5, <1>7, <2>1, <2>2 DEF References
<1>8. QED
  BY <1>6, <1>7

(* A frame comes in and is kept.                                           *)
LEMMA RefsPushed ==
  ASSUME StagesOK, Counted, References, Conveyed, setting' = setting, given' = given + 1, fails' = fails,
         Keep(given), given \in Frames, frame = Tick,
         ChainOf(stage, frame)' = ChainOf(stage, frame) \cup {given}
  PROVE  References'
<1>1. NeedRef' = NeedRef /\ setting \in Settings /\ given \in Nat
  BY ParametersKept, FramesFacts DEF Counted
<1>2. /\ RefRoom' = RefRoom
      /\ fails \in Nat /\ Backlog \in Nat /\ Backlog' = Backlog
  <2>1. RefRoom' = RefRoom
    BY ParametersKept DEF RefRoom
  <2>2. QED
    BY <2>1, RoomLess
<1>3. PICK q, r, C, f : q = refRing /\ r = refRing' /\ C = ChainOf(stage, frame) /\ f = given
  OBVIOUS
<1>4. Elems(q) \subseteq 0 .. f - 1
  BY <1>3 DEF References
<1>5. CASE NeedRef
  <2>1. /\ Retains(q, C, fails, RefRoom)
        /\ q \in Seq(Frames) /\ Len(q) <= RefPool /\ Sorted(q)
    BY <1>3, <1>5 DEF References, Retains
  <2>2. Len(q) \in Nat /\ Len(q) <= Backlog + 2 * fails
    BY <1>1, <1>2, <1>3, <2>1, RingCount
  <2>3. r = Retained(q, RefPool, f) /\ refPeak' = Most(refPeak, Len(r))
    BY <1>3, <1>5 DEF Keep
  <2>4. Before(Elems(q), {f})
    BY <1>1, <1>3, <1>4 DEF Before
  <2>5. RefRoom => Len(q) < RefPool
    BY <1>2, <2>2, ChainAssumption DEF RefRoom
  <2>6. Retains(r, C \cup {f}, fails, RefRoom)
    BY <1>2, <1>3, <2>1, <2>3, <2>4, <2>5, RetainsMore
  <2>7. /\ r \in Seq(Frames) /\ Len(r) <= Len(q) + 1 /\ Len(r) <= RefPool
        /\ Elems(r) \subseteq Elems(q) \cup {f}
    <3>1. f \in Frames
      BY <1>3
    <3>2. PICK S : S = Frames /\ S \in SUBSET Int
      BY FramesFacts
    <3>3. RefPool \in Nat \ {0}
      BY ChainAssumption
    <3>4. q \in Seq(S) /\ f \in S /\ Len(q) <= RefPool
      BY <2>1, <3>1, <3>2
    <3>5. /\ r \in Seq(S) /\ Len(r) <= Len(q) + 1 /\ Len(r) <= RefPool
          /\ Elems(r) \subseteq Elems(q) \cup {f}
      BY <2>3, <3>2, <3>3, <3>4, RetainedFacts
    <3>6. QED
      BY <3>2, <3>5
  <2>8. Elems(r) \subseteq 0 .. given' - 1
    BY <1>1, <1>3, <1>4, <2>7
  <2>9. refPeak' \in 0 .. RefPool /\ refPeak' <= Backlog' + 1 + 2 * fails'
    <3>1. Len(r) \in Nat
      BY <2>7, LenProperties
    <3>2. Len(r) <= Backlog + 1 + 2 * fails
      BY <1>2, <2>2, <2>7, <3>1
    <3>3. refPeak \in 0 .. RefPool /\ refPeak <= Backlog + 1 + 2 * fails
      BY DEF References
    <3>4. QED
      BY <1>2, <2>3, <2>7, <3>1, <3>2, <3>3, ChainAssumption DEF Most
  <2>10. QED
    BY <1>1, <1>2, <1>3, <1>5, <2>6, <2>8, <2>9 DEF References
<1>6. CASE ~ NeedRef
  <2>1. refRing = << >> /\ refRing' = << >> /\ refPeak' = refPeak
    BY <1>6 DEF References, Keep
  <2>2. Elems(refRing') \subseteq 0 .. given' - 1
    BY <2>1 DEF Elems
  <2>3. QED
    BY <1>1, <1>2, <1>6, <2>1, <2>2 DEF References
<1>7. QED
  BY <1>5, <1>6

(* A frame leaves, and with it its reference.                              *)
LEMMA RefsSpent ==
  ASSUME Counted, References, setting' = setting, given' = given, fails' = fails, refPeak' = refPeak,
         refRing' = PrunedUpTo(refRing, frame), frame \in Frames,
         ChainOf(stage, frame) = ChainOf(stage, frame)' \cup {frame},
         Before({frame}, ChainOf(stage, frame)')
  PROVE  References'
<1>1. NeedRef' = NeedRef /\ Backlog' = Backlog
  BY ParametersKept
<1>2. RefRoom' = RefRoom /\ fails \in Nat
  <2>1. RefRoom' = RefRoom
    BY <1>1 DEF RefRoom
  <2>2. QED
    BY <2>1, RoomLess
<1>3. PICK q, r, C, f : q = refRing /\ r = refRing' /\ C = ChainOf(stage, frame)' /\ f = frame
  OBVIOUS
<1>4. r = PrunedUpTo(q, f) /\ f \in Frames /\ Before({f}, C)
  BY <1>3
<1>5. CASE NeedRef
  <2>1. Retains(q, C \cup {f}, fails, RefRoom) /\ q \in Seq(Frames)
    BY <1>3, <1>5 DEF References, Retains
  <2>2. Retains(r, C, fails, RefRoom)
    BY <1>2, <1>4, <2>1, RetainsPruned
  <2>3. Elems(r) \subseteq Elems(q)
    BY <1>4, <2>1, PrunedFacts, FramesFacts
  <2>4. QED
    BY <1>1, <1>2, <1>3, <1>5, <2>2, <2>3 DEF References
<1>6. CASE ~ NeedRef
  <2>1. q = << >> /\ q \in Seq(Frames) /\ Len(q) = 0
    BY <1>3, <1>6 DEF References
  <2>2. r \in Seq(Frames) /\ Len(r) <= 0 /\ Elems(r) \subseteq Elems(q)
    BY <1>4, <2>1, PrunedFacts, FramesFacts
  <2>3. r = << >>
    BY <2>2, LenProperties, EmptySeq
  <2>4. QED
    BY <1>1, <1>2, <1>3, <1>6, <2>2, <2>3 DEF References
<1>7. QED
  BY <1>5, <1>6

-----------------------------------------------------------------------------
(* The rings of the compensating passes                                    *)

CompRing(q) == q \in Seq(Frames) /\ Len(q) <= CompPool

(* What is done to a ring leaves it within its pool.                       *)
LEMMA CompRingKept ==
  ASSUME NEW q, CompRing(q)
  PROVE  /\ \A f \in Frames : CompRing(Retained(q, CompPool, f))
         /\ CompRing(Room(q, CompPool))
         /\ \A f \in Frames : CompRing(PrunedUpTo(q, f))
<1>1. /\ q \in Seq(Frames) /\ Len(q) <= CompPool /\ Len(q) \in Nat
      /\ CompPool \in Nat \ {0} /\ Frames \in SUBSET Int
  BY FramesFacts, LenProperties, ChainAssumption DEF CompRing
<1>2. ASSUME NEW f \in Frames PROVE CompRing(Retained(q, CompPool, f))
  <2>1. PICK r : r = Retained(q, CompPool, f)
    OBVIOUS
  <2>2. r \in Seq(Frames) /\ Len(r) <= CompPool
    BY <1>1, <2>1, RetainedFacts
  <2>3. QED
    BY <2>1, <2>2 DEF CompRing
<1>3. CompRing(Room(q, CompPool))
  <2>1. PICK r : r = Room(q, CompPool)
    OBVIOUS
  <2>2. r \in Seq(Frames) /\ Len(r) <= Len(q)
    BY <1>1, <2>1, RoomFacts
  <2>3. Len(r) \in Nat
    BY <2>2, LenProperties
  <2>4. QED
    BY <1>1, <2>1, <2>2, <2>3 DEF CompRing
<1>4. ASSUME NEW f \in Frames PROVE CompRing(PrunedUpTo(q, f))
  <2>1. PICK r : r = PrunedUpTo(q, f) /\ f \in Int
    BY FramesFacts
  <2>2. r \in Seq(Frames) /\ Len(r) <= Len(q)
    BY <1>1, <2>1, PrunedFacts
  <2>3. Len(r) \in Nat
    BY <2>2, LenProperties
  <2>4. QED
    BY <1>1, <2>1, <2>2, <2>3 DEF CompRing
<1>5. QED
  BY <1>2, <1>3, <1>4

(* The two rings of the compensating passes, each by itself.               *)
LEMMA CompsAre == CompsOK <=> CompRing(backRing) /\ CompRing(forwRing)
BY DEF CompsOK, CompRing

(* The same of the next state.                                             *)
LEMMA CompsAreNext == CompsOK' <=> CompRing(backRing') /\ CompRing(forwRing')
BY DEF CompsOK, CompRing

-----------------------------------------------------------------------------
(* What every step keeps                                                   *)

(* A step that changes neither the frames in the chain nor the reference   *)
(* ring nor the count of failures.                                         *)
LEMMA Undisturbed ==
  ASSUME ChainInv, StagesOK', Control', Conveyed', Flowing', CompsOK',
         ChainOf(stage, frame)' = ChainOf(stage, frame),
         setting' = setting, given' = given, refRing' = refRing, refPeak' = refPeak, fails' = fails,
         put' = put, unrepaired' = unrepaired, unlimited' \in SUBSET Frames
  PROVE  ChainInv'
<1>1. References'
  BY RefsKept DEF ChainInv
<1>2. Repaired'
  BY RepairedKept DEF ChainInv
<1>3. Counted'
  BY DEF Counted, ChainInv
<1>4. QED
  BY <1>1, <1>2, <1>3 DEF ChainInv

(* A stage that is off passes the frame on.                                *)
LEMMA PassThroughInv ==
  ASSUME ChainInv, PassThrough
  PROVE  ChainInv'
<1>1. /\ StagesOK' /\ Control' /\ Conveyed' /\ Flowing'
      /\ ChainOf(stage, frame)' = ChainOf(stage, frame)
  BY PassThroughStep DEF ChainInv
<1>2. CompsOK' /\ unlimited' \in SUBSET Frames
  BY DEF PassThrough, rings, missed, CompsOK, Counted, ChainInv
<1>3. QED
  BY <1>1, <1>2, Undisturbed DEF PassThrough, rings, missed

(* The analysis, TR1 or TR2 runs.                                          *)
LEMMA TemporalInv ==
  ASSUME ChainInv, RunTemporal
  PROVE  ChainInv'
<1>1. /\ StagesOK' /\ Control' /\ Conveyed' /\ Flowing'
      /\ ChainOf(stage, frame)' = ChainOf(stage, frame)
  BY TemporalStep, TemporalFlow DEF ChainInv
<1>2. CompsOK' /\ unlimited' \in SUBSET Frames
  BY DEF RunTemporal, rings, missed, CompsOK, Counted, ChainInv
<1>3. QED
  BY <1>1, <1>2, Undisturbed DEF RunTemporal, rings, missed

(* A compensating pass runs.                                               *)
LEMMA CompInv ==
  ASSUME ChainInv, RunComp
  PROVE  ChainInv'
<1>1. /\ StagesOK' /\ Control' /\ Conveyed' /\ Flowing'
      /\ ChainOf(stage, frame)' = ChainOf(stage, frame)
  BY CompStep DEF ChainInv
<1>2. CompRing(backRing) /\ CompRing(forwRing)
  BY CompsAre DEF ChainInv
<1>3. Answer(at).out \in SUBSET Frames
  <2>1. PICK s, a : s = at /\ a = Answer(at)
    OBVIOUS
  <2>2. s \in Filters
    BY <2>1, PosFacts DEF RunComp
  <2>3. a.out \in SUBSET Frames
    BY <2>1, <2>2, AnswerTyped DEF ChainInv, Counted, Control
  <2>4. QED
    BY <2>1, <2>3
<1>4. CompRing(backRing') /\ CompRing(forwRing')
  <2>1. CASE \E f \in Answer(at).out : KeepComp(at, f)
    <3>1. PICK f \in Frames : KeepComp(at, f)
      BY <1>3, <2>1
    <3>2. QED
      BY <1>2, <3>1, CompRingKept DEF KeepComp
  <2>2. CASE UNCHANGED << backRing, forwRing >>
    BY <1>2, <2>2
  <2>3. QED
    BY <2>1, <2>2 DEF RunComp
<1>5. CompsOK'
  BY <1>4, CompsAreNext
<1>6. unlimited' \in SUBSET Frames
  BY DEF RunComp, missed, Counted, ChainInv
<1>7. QED
  BY <1>1, <1>5, <1>6, Undisturbed DEF RunComp, missed

(* The retouch runs.                                                       *)
LEMMA RetouchInv ==
  ASSUME ChainInv, RunRetouch
  PROVE  ChainInv'
<1>1. /\ StagesOK' /\ Control' /\ Conveyed' /\ Flowing'
      /\ ChainOf(stage, frame)' = ChainOf(stage, frame)
  BY RetouchStep DEF ChainInv
<1>2. CompRing(backRing) /\ CompRing(forwRing)
  BY CompsAre DEF ChainInv
<1>3. frame # Tick => frame \in Frames
  BY DEF ChainInv, Control
<1>4. CompRing(backRing') /\ CompRing(forwRing')
  BY <1>2, <1>3, CompRingKept DEF RunRetouch
<1>5. CompsOK'
  BY <1>4, CompsAreNext
<1>6. unlimited' \in SUBSET Frames
  BY <1>3 DEF RunRetouch, ApplyLimit, Counted, ChainInv
<1>7. QED
  BY <1>1, <1>5, <1>6, Undisturbed DEF RunRetouch

(* A repair finds the reference of its frame: the frame is in the chain.   *)
LEMMA RepairInv ==
  ASSUME ChainInv, RunRepair
  PROVE  ChainInv'
<1>1. /\ StagesOK' /\ Control' /\ Conveyed' /\ Flowing'
      /\ ChainOf(stage, frame)' = ChainOf(stage, frame)
  BY RepairStep DEF ChainInv
<1>2. /\ setting' = setting /\ given' = given /\ refRing' = refRing /\ backRing' = backRing
      /\ forwRing' = forwRing /\ refPeak' = refPeak /\ fails' = fails /\ put' = put
      /\ unlimited' = unlimited
  BY DEF RunRepair, rings
<1>3. CompsOK' /\ Counted'
  BY <1>2 DEF CompsOK, Counted, ChainInv
<1>4. References'
  BY <1>1, <1>2, RefsKept DEF ChainInv
<1>5. CASE frame = Tick
  <2>1. unrepaired' = unrepaired
    BY <1>5 DEF RunRepair
  <2>2. Repaired'
    BY <1>2, <2>1, RepairedKept DEF ChainInv
  <2>3. QED
    BY <1>1, <1>3, <1>4, <2>2 DEF ChainInv
<1>6. CASE frame # Tick
  <2>1. unrepaired' = IF Has(refRing, frame) THEN unrepaired ELSE unrepaired \cup {frame}
    BY <1>6 DEF RunRepair
  <2>2. frame \in Frames
    BY <1>6 DEF ChainInv, Control
  <2>3. unrepaired' \in SUBSET Frames
    BY <2>1, <2>2 DEF ChainInv, Repaired
  <2>4. RefRoom' => RefRoom
    BY <1>2, RoomLess DEF ChainInv
  <2>5. NeedRef
    <3>1. at \in {"rep1", "rep2"} /\ Enabled(at)
      BY DEF RunRepair, Repairs
    <3>2. setting.rep1 \in BOOLEAN /\ setting.rep2 \in BOOLEAN
      BY ChainAssumption DEF ChainInv, Counted, Setting
    <3>3. CASE at = "rep1"
      BY <3>1, <3>2, <3>3 DEF Enabled, Comps, NeedRef
    <3>4. CASE at = "rep2"
      BY <3>1, <3>2, <3>4 DEF Enabled, Comps, NeedRef
    <3>5. QED
      BY <3>1, <3>3, <3>4
  <2>6. frame \in ChainOf(stage, frame)
    BY <1>6, ChainMember DEF Under
  <2>7. RefRoom => Has(refRing, frame)
    BY <2>5, <2>6, HasFacts DEF ChainInv, References, Retains
  <2>8. RefRoom => unrepaired = {}
    BY DEF ChainInv, Repaired
  <2>9. Repaired'
    BY <2>1, <2>3, <2>4, <2>7, <2>8 DEF Repaired
  <2>10. QED
    BY <1>1, <1>3, <1>4, <2>9 DEF ChainInv
<1>7. QED
  BY <1>5, <1>6

(* The frame leaves.                                                       *)
LEMMA SinkInv ==
  ASSUME ChainInv, Sink
  PROVE  ChainInv'
<1>1. /\ StagesOK' /\ Control' /\ Conveyed' /\ Flowing'
      /\ frame \in Frames /\ ChainOf(stage, frame) = ChainOf(stage, frame)' \cup {frame}
      /\ Before({frame}, ChainOf(stage, frame)')
  BY SinkStep DEF ChainInv
<1>2. /\ setting' = setting /\ given' = given /\ backRing' = backRing /\ forwRing' = forwRing
      /\ refPeak' = refPeak /\ fails' = fails /\ put' = Append(put, frame)
      /\ refRing' = PrunedUpTo(refRing, frame)
      /\ unlimited' = unlimited /\ unrepaired' = unrepaired
  BY DEF Sink, missed
<1>3. put' \in Seq(Frames)
  BY <1>1, <1>2, AppendProperties DEF ChainInv, Counted
<1>4. CompsOK' /\ Counted'
  BY <1>2, <1>3 DEF CompsOK, Counted, ChainInv
<1>5. References'
  BY <1>1, <1>2, RefsSpent DEF ChainInv
<1>6. Repaired'
  BY <1>2, RepairedKept DEF ChainInv
<1>7. QED
  BY <1>1, <1>4, <1>5, <1>6 DEF ChainInv

(* A frame is pushed.                                                      *)
LEMMA PushInv ==
  ASSUME ChainInv, PushFrame
  PROVE  ChainInv'
<1>1. /\ StagesOK' /\ Control' /\ Conveyed' /\ Flowing'
      /\ given \in Frames /\ frame = Tick
      /\ ChainOf(stage, frame)' = ChainOf(stage, frame) \cup {given}
  BY PushStep DEF ChainInv
<1>2. /\ setting' = setting /\ given < setting.frames /\ given' = given + 1 /\ Keep(given)
      /\ backRing' = backRing /\ forwRing' = forwRing /\ fails' = fails /\ put' = put
      /\ unlimited' = unlimited /\ unrepaired' = unrepaired
  BY DEF PushFrame, missed
<1>3. CompsOK'
  BY <1>2 DEF CompsOK, ChainInv
<1>4. given' \in 0 .. setting'.frames
  BY <1>2, Parameters DEF Counted, ChainInv
<1>5. Counted'
  BY <1>2, <1>4 DEF Counted, ChainInv
<1>6. References'
  BY <1>1, <1>2, RefsPushed DEF ChainInv
<1>7. Repaired'
  BY <1>2, RepairedKept DEF ChainInv
<1>8. QED
  BY <1>1, <1>3, <1>5, <1>6, <1>7 DEF ChainInv

(* drain() is called.                                                      *)
LEMMA AskInv ==
  ASSUME ChainInv, Ask
  PROVE  ChainInv'
<1>1. /\ StagesOK' /\ Control' /\ Conveyed' /\ Flowing'
      /\ ChainOf(stage, frame)' = ChainOf(stage, frame)
  BY AskStep DEF ChainInv
<1>2. CompsOK' /\ unlimited' \in SUBSET Frames
  BY DEF Ask, rings, missed, CompsOK, Counted, ChainInv
<1>3. QED
  BY <1>1, <1>2, Undisturbed DEF Ask, rings, missed

(* A step that fails.                                                      *)
LEMMA Failed ==
  ASSUME ChainInv, StagesOK', Control', Conveyed', Flowing', CompsOK',
         ChainOf(stage, frame)' \subseteq ChainOf(stage, frame), Loses,
         setting' = setting, given' = given \/ (given < setting.frames /\ given' = given + 1),
         MayFail, CallFails, refPeak' = refPeak,
         refRing' = refRing \/ (frame = Tick /\ NeedRef /\ refRing' = Room(refRing, RefPool)),
         put' = put, unrepaired' = unrepaired, unlimited' \in SUBSET Frames
  PROVE  ChainInv'
<1>1. fails' = fails + 1 /\ fails < MaxFails
  BY DEF CallFails, MayFail
<1>2. References'
  BY <1>1, RefsFailed DEF ChainInv
<1>3. Repaired'
  BY <1>1, RepairedKept DEF ChainInv
<1>4. fails' \in 0 .. MaxFails
  BY <1>1, ChainAssumption DEF Counted, ChainInv
<1>5. given' \in 0 .. setting'.frames
  BY Parameters DEF Counted, ChainInv
<1>6. Counted'
  BY <1>4, <1>5 DEF Counted, ChainInv
<1>7. QED
  BY <1>2, <1>3, <1>6 DEF ChainInv

(* push() fails to keep the reference.                                     *)
LEMMA KeepFailsInv ==
  ASSUME ChainInv, KeepFails
  PROVE  ChainInv'
<1>1. /\ StagesOK' /\ Control' /\ Conveyed' /\ Flowing'
      /\ ChainOf(stage, frame)' \subseteq ChainOf(stage, frame) /\ Loses
  BY KeepFailsStep DEF ChainInv
<1>2. CompsOK' /\ unlimited' \in SUBSET Frames
  BY DEF KeepFails, missed, CompsOK, Counted, ChainInv
<1>3. frame = Tick
  BY DEF KeepFails, ChainInv, Control
<1>4. /\ setting' = setting /\ given < setting.frames /\ given' = given + 1
      /\ MayFail /\ CallFails /\ refPeak' = refPeak
      /\ NeedRef /\ refRing' = Room(refRing, RefPool)
      /\ put' = put /\ unrepaired' = unrepaired
  BY DEF KeepFails, missed
<1>5. QED
  BY <1>1, <1>2, <1>3, <1>4, Failed

(* A stage that holds frames back fails.                                   *)
LEMMA FilterFailsInv ==
  ASSUME ChainInv, FilterFails
  PROVE  ChainInv'
<1>1. /\ StagesOK' /\ Control' /\ Conveyed' /\ Flowing'
      /\ ChainOf(stage, frame)' \subseteq ChainOf(stage, frame) /\ Loses
  BY FilterFailsStep DEF ChainInv
<1>2. CompsOK' /\ unlimited' \in SUBSET Frames
  BY DEF FilterFails, rings, missed, CompsOK, Counted, ChainInv
<1>3. /\ setting' = setting /\ given' = given /\ MayFail /\ CallFails /\ refPeak' = refPeak
      /\ refRing' = refRing /\ put' = put /\ unrepaired' = unrepaired
  BY DEF FilterFails, rings, missed
<1>4. QED
  BY <1>1, <1>2, <1>3, Failed

(* The ring of a compensating pass fails to take its frame.                *)
LEMMA KeepCompFailsInv ==
  ASSUME ChainInv, KeepCompFails
  PROVE  ChainInv'
<1>1. /\ StagesOK' /\ Control' /\ Conveyed' /\ Flowing'
      /\ ChainOf(stage, frame)' \subseteq ChainOf(stage, frame) /\ Loses
  BY KeepCompFailsStep DEF ChainInv
<1>2. CompRing(backRing) /\ CompRing(forwRing)
  BY CompsAre DEF ChainInv
<1>3. CompRing(backRing') /\ CompRing(forwRing')
  BY <1>2, CompRingKept DEF KeepCompFails
<1>4. CompsOK' /\ unlimited' \in SUBSET Frames
  BY <1>3, CompsAreNext DEF KeepCompFails, missed, Counted, ChainInv
<1>5. /\ setting' = setting /\ given' = given /\ MayFail /\ CallFails /\ refPeak' = refPeak
      /\ refRing' = refRing /\ put' = put /\ unrepaired' = unrepaired
  BY DEF KeepCompFails, missed
<1>6. QED
  BY <1>1, <1>4, <1>5, Failed

(* A repair, the retouch or the sink fails.                                *)
LEMMA StepFailsInv ==
  ASSUME ChainInv, StepFails
  PROVE  ChainInv'
<1>1. /\ StagesOK' /\ Control' /\ Conveyed' /\ Flowing'
      /\ ChainOf(stage, frame)' \subseteq ChainOf(stage, frame) /\ Loses
  BY StepFailsStep DEF ChainInv
<1>2. frame \in Frames
  BY DEF StepFails, ChainInv, Control
<1>3. CompsOK' /\ unlimited' \in SUBSET Frames
  BY <1>2 DEF StepFails, ApplyLimit, rings, CompsOK, Counted, ChainInv
<1>4. /\ setting' = setting /\ given' = given /\ MayFail /\ CallFails /\ refPeak' = refPeak
      /\ refRing' = refRing /\ put' = put /\ unrepaired' = unrepaired
  BY DEF StepFails, rings
<1>5. QED
  BY <1>1, <1>3, <1>4, Failed

-----------------------------------------------------------------------------
(* The invariant                                                           *)

(* It holds before the first call.                                         *)
LEMMA ChainInitInv == ChainInit => ChainInv
<1> SUFFICES ASSUME ChainInit PROVE ChainInv
  OBVIOUS
<1>1. /\ setting \in Settings /\ given = 0 /\ stage = [s \in Filters |-> EmptyStage]
      /\ refRing = << >> /\ backRing = << >> /\ forwRing = << >>
      /\ at = "idle" /\ frame = Tick /\ drainAt = "idle" /\ asked = FALSE /\ ended = FALSE
      /\ put = << >> /\ unrepaired = {} /\ unlimited = {} /\ refPeak = 0 /\ fails = 0
  BY DEF ChainInit
<1>2. /\ << >> \in Seq(Frames) /\ Len(<< >>) = 0 /\ Elems(<< >>) = {} /\ Sorted(<< >>)
  BY DEF Elems, Sorted
<1>3. /\ EmptyStage \in Holding(Frames) /\ Len(EmptyStage.hold) = 0 /\ Len(EmptyStage.pending) = 0
      /\ InOrder(EmptyStage) /\ InStage(EmptyStage) = {}
  BY <1>2 DEF EmptyStage, Holding, InOrder, Before, InStage, Elems
<1>4. \A s \in Filters : Delay(s) \in Nat /\ PipelineDepth(s) \in Nat
  BY <1>1, Parameters
<1>5. StagesOK
  BY <1>1, <1>3, <1>4 DEF StagesOK
<1>6. CompsOK /\ Counted
  BY <1>1, <1>2, Parameters, ChainAssumption DEF CompsOK, Counted
<1>7. Control
  BY <1>1, PosFacts DEF Control
<1>8. \A s \in Line : stage[s] = EmptyStage
  BY <1>1, PosFacts
<1>9. ChainOf(stage, frame) = {}
  BY <1>1, <1>3, <1>8 DEF ChainOf, Under
<1>10. Conveyed
  BY <1>1, <1>3, <1>8, <1>9 DEF Conveyed, Ordered, Before
<1>11. Flowing
  <2>1. \A s \in Line : ~ Passed(stage, at, frame, put, s)
    BY <1>1, <1>3, <1>8 DEF Passed
  <2>2. QED
    BY <2>1 DEF Flowing
<1>12. Backlog \in Nat
  BY <1>1, Parameters
<1>13. References
  <2>1. Cardinality(Elems(refRing) \ ChainOf(stage, frame)) = 0
    <3>1. Elems(refRing) \ ChainOf(stage, frame) = {}
      BY <1>1, <1>2
    <3>2. QED
      BY <3>1, FS_EmptySet
  <2>2. Retains(refRing, ChainOf(stage, frame), fails, RefRoom)
    BY <1>1, <1>2, <1>9, <2>1, ChainAssumption DEF Retains
  <2>3. QED
    BY <1>1, <1>2, <1>12, <2>2, ChainAssumption DEF References
<1>14. Repaired
  BY <1>1 DEF Repaired
<1>15. QED
  BY <1>5, <1>6, <1>7, <1>10, <1>11, <1>13, <1>14 DEF ChainInv

(* Every step keeps it.                                                    *)
LEMMA ChainNextInv ==
  ASSUME ChainInv, [ChainNext]_chainVars
  PROVE  ChainInv'
<1>1. CASE UNCHANGED chainVars
  <2>1. /\ setting' = setting /\ given' = given /\ stage' = stage
        /\ refRing' = refRing /\ backRing' = backRing /\ forwRing' = forwRing
        /\ at' = at /\ frame' = frame /\ drainAt' = drainAt /\ asked' = asked /\ ended' = ended
        /\ put' = put /\ unrepaired' = unrepaired /\ unlimited' = unlimited
        /\ refPeak' = refPeak /\ fails' = fails
    BY <1>1 DEF chainVars, rings, control, missed
  <2>2. \A s : Delay(s)' = Delay(s) /\ PipelineDepth(s)' = PipelineDepth(s) /\ Enabled(s)' = Enabled(s)
    BY <2>1, ParametersKept
  <2>3. StagesOK' /\ CompsOK' /\ Counted' /\ Control'
    BY <2>1, StagesSame DEF CompsOK, Counted, Control, ChainInv
  <2>4. Conveyed'
    BY <2>1 DEF Conveyed, ChainInv
  <2>5. Flowing'
    BY <2>1, <2>2 DEF Flowing, Primed, ChainInv
  <2>6. References' /\ Repaired'
    BY <2>1, RefsKept, RepairedKept DEF ChainInv
  <2>7. QED
    BY <2>3, <2>4, <2>5, <2>6 DEF ChainInv
<1>2. CASE RunStage
  BY <1>2, PassThroughInv, TemporalInv, CompInv, RepairInv, RetouchInv, SinkInv DEF RunStage
<1>3. QED
  BY <1>1, <1>2, PushInv, AskInv, KeepFailsInv, FilterFailsInv, KeepCompFailsInv, StepFailsInv
     DEF ChainNext

-----------------------------------------------------------------------------
(* The theorems                                                            *)

(* The frames in the chain are in order along its stages, the stage drain()*)
(* is at is the one that is ticked, without a failure every stage that has *)
(* put a frame out is full until it is drained, and the reference ring has *)
(* the frames in the chain.                                                *)
THEOREM ChainInvariant == ChainSpec => []ChainInv
<1>1. ChainInit => ChainInv
  BY ChainInitInv
<1>2. ChainInv /\ [ChainNext]_chainVars => ChainInv'
  BY ChainNextInv
<1>3. QED
  BY <1>1, <1>2, PTL DEF ChainSpec

(* Every variable of the clean chain has its type; no ring outgrows its    *)
(* pool, no stage holds back more than its delay, and drain() is never at  *)
(* a stage that is not in the chain.                                       *)
THEOREM ChainTypeCorrect == ChainSpec => []ChainTypeOK
<1>1. ChainInv => refRing \in Seq(Frames) /\ Len(refRing) <= RefPool
  <2>1. << >> \in Seq(Frames) /\ Len(<< >>) = 0
    OBVIOUS
  <2>2. ChainInv /\ NeedRef => refRing \in Seq(Frames) /\ Len(refRing) <= RefPool
    BY DEF ChainInv, References, Retains
  <2>3. ChainInv /\ ~ NeedRef => refRing \in Seq(Frames) /\ Len(refRing) <= RefPool
    BY <2>1, ChainAssumption DEF ChainInv, References
  <2>4. QED
    BY <2>2, <2>3
<1>2. ChainInv => ChainTypeOK
  BY <1>1 DEF ChainInv, ChainTypeOK, StagesOK, Holding, CompsOK, Counted, Control, References, Repaired
<1>3. QED
  BY <1>2, ChainInvariant, PTL

(* A shimmer repair finds the reference of its frame with any parameters   *)
(* init() accepts, as long as the failed steps leave room for it.          *)
THEOREM ReferenceCorrect == ChainSpec => []ReferenceAtHand
<1>1. ChainInv => ReferenceAtHand
  BY DEF ChainInv, Repaired, ReferenceAtHand
<1>2. QED
  BY <1>1, ChainInvariant, PTL

(* The peak of the reference ring in the run log is never more than the    *)
(* stages hold back, the frame that comes in, and two for every failure.   *)
THEOREM ChainPeakCorrect == ChainSpec => []PeakIsBacklog
<1>1. ChainInv => PeakIsBacklog
  BY DEF ChainInv, References, PeakIsBacklog
<1>2. QED
  BY <1>1, ChainInvariant, PTL

-----------------------------------------------------------------------------
(* The pass the chain is                                                   *)

(* What RtgmDif's pass sees of a step.                                     *)
AsPassStep == [AsPass!Next]_(AsPass!vars)

(* The oldest of a set of frames is the least.                             *)
LEMMA OldestIsLeast ==
  ASSUME NEW S, S \subseteq Int, NEW k \in S, \A j \in S : k <= j
  PROVE  AsPass!Oldest(S) = k
<1>1. \A m \in S : (\A j \in S : m <= j) => m = k
  OBVIOUS
<1>2. QED
  BY <1>1 DEF AsPass!Oldest

(* The frames in the chain.                                                *)
LEMMA InChainIs ==
  /\ InChain = ChainOf(stage, frame)
  /\ InChain' = ChainOf(stage, frame)'
BY DEF InChain, ChainOf, Under, Line

(* While push() runs its frame does not count yet, though it is there.     *)
HeldAs ==
  LET C == ChainOf(stage, frame) IN
  /\ given \in Nat /\ given <= MaxIn /\ C \subseteq Int
  /\ asked \/ at = "idle" => Given = given /\ Held = C
  /\ ~ asked /\ at # "idle" =>
       /\ Given = given - 1 /\ Given \in Nat /\ Given < MaxIn /\ Given \in C
       /\ Held \cup {Given} = C

(* That is what the pass sees of the chain.                                *)
LEMMA HeldIs == ChainInv => HeldAs
<1> DEFINE C == ChainOf(stage, frame)
<1> SUFFICES ASSUME ChainInv PROVE HeldAs
  OBVIOUS
<1>1. given \in Nat /\ given <= MaxIn
  BY Parameters, ChainAssumption DEF ChainInv, Counted
<1>2. C \subseteq 0 .. given - 1 /\ Held = C \cap (0 .. Given - 1)
  BY InChainIs DEF ChainInv, Conveyed, Held
<1> HIDE DEF C
<1>3. ASSUME asked \/ at = "idle"
      PROVE  Given = given /\ Held = C
  BY <1>1, <1>2, <1>3 DEF Given
<1>4. ASSUME ~ asked, at # "idle"
      PROVE  /\ Given = given - 1 /\ Given \in Nat /\ Given < MaxIn /\ Given \in C
             /\ Held \cup {Given} = C
  <2>1. given > 0 /\ given - 1 \in C /\ Given = given - 1
    BY <1>4 DEF ChainInv, Control, Given, C
  <2>2. Given \in Nat /\ Given < MaxIn
    BY <1>1, <2>1, ChainAssumption
  <2>3. ASSUME NEW x PROVE x \in C <=> x \in Held \cup {Given}
    <3>1. x \in 0 .. given - 1 <=> x \in 0 .. Given - 1 \/ x = Given
      BY <1>1, <2>1
    <3>2. QED
      BY <1>2, <2>1, <3>1
  <2>4. Held \cup {Given} = C
    BY <2>3
  <2>5. QED
    BY <2>1, <2>2, <2>4
<1>5. C \subseteq Int
  BY <1>1, <1>2
<1>6. QED
  BY <1>1, <1>3, <1>4, <1>5 DEF HeldAs, C

(* The same of the next state.                                             *)
LEMMA HeldIsNext == ChainInv' => HeldAs'
BY HeldIs, PTL

(* A step of which the pass sees nothing.                                  *)
LEMMA UnchangedSeen ==
  ASSUME Given' = Given, Held' = Held, put' = put, asked' = asked, ended' = ended,
         (fails > 0)' = (fails > 0)
  PROVE  AsPassStep
BY DEF AsPassStep, AsPass!vars

(* A step from one stage to the next.                                      *)
LEMMA WithinCall ==
  ASSUME ChainInv, ChainInv', ChainOf(stage, frame)' = ChainOf(stage, frame),
         given' = given, put' = put, asked' = asked, ended' = ended, fails' = fails,
         asked \/ (at # "idle" /\ at' # "idle")
  PROVE  AsPassStep
<1>1. Given' = Given
  BY DEF Given
<1>2. Held' = Held
  BY <1>1, InChainIs DEF Held
<1>3. QED
  BY <1>1, <1>2, UnchangedSeen

(* A push comes to its end and nothing comes out.                          *)
LEMMA PushHolds ==
  ASSUME ChainInv, ChainInv', ChainOf(stage, frame)' = ChainOf(stage, frame),
         given' = given, put' = put, asked' = asked, ended' = ended, fails' = fails,
         ~ asked, at # "idle", at' = "idle"
  PROVE  AsPassStep
<1>1. /\ Given = given - 1 /\ Given < MaxIn
      /\ Held \cup {Given} = ChainOf(stage, frame)
  BY HeldIs DEF HeldAs
<1>2. given \in Nat /\ Given' = given /\ Held' = ChainOf(stage, frame)
  BY HeldIs, HeldIsNext DEF HeldAs
<1>3. Given' = Given + 1
  BY <1>1, <1>2
<1>4. AsPass!Retain(Held \cup {Given})
  BY <1>1, <1>2 DEF AsPass!Retain
<1>5. AsPass!Feed
  BY <1>1, <1>3, <1>4 DEF AsPass!Feed
<1>6. QED
  BY <1>5 DEF AsPassStep, AsPass!Next

(* What comes out of a stage goes on, or the call ends with nothing.       *)
LEMMA GoesOn ==
  ASSUME ChainInv, ChainInv', ChainOf(stage, frame)' = ChainOf(stage, frame),
         given' = given, put' = put, fails' = fails, at \in DOMAIN After,
         (\E f : Goes(After[at], f)) \/ CascadeEnds
  PROVE  AsPassStep
<1>1. at # "idle" /\ After[at] # "idle"
  BY PosFacts
<1>2. asked' = asked /\ ended' = ended
  BY DEF Goes, CascadeEnds
<1>3. CASE asked
  BY <1>1, <1>2, <1>3, WithinCall
<1>4. CASE ~ asked /\ \E f : Goes(After[at], f)
  <2>1. at' # "idle"
    BY <1>1, <1>4 DEF Goes
  <2>2. QED
    BY <1>1, <1>2, <2>1, WithinCall
<1>5. CASE ~ asked /\ CascadeEnds
  <2>1. at' = "idle"
    BY <1>5 DEF CascadeEnds
  <2>2. QED
    BY <1>1, <1>2, <1>5, <2>1, PushHolds
<1>6. QED
  BY <1>3, <1>4, <1>5

(* The drain has come to the sink, and nothing is left, unless nothing has *)
(* ever come out.                                                          *)
LEMMA AllDrained ==
  ASSUME ChainInv, frame = Tick, asked, drainAt = "rep2"
  PROVE  ChainOf(stage, frame) = {} \/ fails > 0 \/ put = << >>
<1> SUFFICES ASSUME ~ fails > 0, put # << >> PROVE ChainOf(stage, frame) = {}
  OBVIOUS
<1>1. fails = 0
  BY ChainAssumption DEF ChainInv, Counted
<1>2. ASSUME NEW s \in Line PROVE InStage(stage[s]) = {}
  <2>1. CASE Enabled(s)
    <3>1. Passed(stage, at, frame, put, s)
      BY DEF Passed
    <3>2. Primed(s)
      BY <1>1, <2>1, <3>1 DEF ChainInv, Flowing
    <3>3. Pos[s] < Pos["rep2"]
      BY DEF Line, Pos
    <3>4. QED
      BY <3>2, <3>3 DEF Primed
  <2>2. CASE ~ Enabled(s)
    <3>1. stage[s] = EmptyStage
      BY <2>2, PosFacts DEF ChainInv, StagesOK
    <3>2. InStage(EmptyStage) = {}
      BY DEF EmptyStage, InStage
    <3>3. QED
      BY <3>1, <3>2
  <2>3. QED
    BY <2>1, <2>2
<1>3. QED
  BY <1>2 DEF ChainOf, Under

(* drain() goes on to the next stage.                                      *)
LEMMA DrainsOn ==
  ASSUME ChainInv, ChainInv', ChainOf(stage, frame)' = ChainOf(stage, frame),
         given' = given, put' = put, fails' = fails, at \in DOMAIN After, frame = Tick, StageDrained
  PROVE  AsPassStep
<1>1. asked /\ ~ ended /\ drainAt = at /\ ended \in BOOLEAN
  BY ControlDrained DEF ChainInv, Control
<1>2. asked' = asked /\ ended' = (After[at] = "sink")
  BY <1>1 DEF StageDrained
<1>3. CASE After[at] # "sink"
  <2>1. ended' = ended
    BY <1>1, <1>2, <1>3
  <2>2. QED
    BY <1>1, <1>2, <2>1, WithinCall
<1>4. CASE After[at] = "sink"
  <2>1. at = "rep2"
    BY <1>4 DEF After
  <2>2. ChainOf(stage, frame) = {} \/ fails > 0 \/ put = << >>
    BY <1>1, <2>1, AllDrained
  <2>3. Given' = given /\ Given = given /\ Held' = Held /\ Held = ChainOf(stage, frame)
    BY <1>1, <1>2, HeldIs, HeldIsNext DEF HeldAs
  <2>4. AsPass!DrainEnds
    BY <1>1, <1>2, <1>4, <2>2, <2>3 DEF AsPass!DrainEnds
  <2>5. QED
    BY <2>4 DEF AsPassStep, AsPass!Next
<1>5. QED
  BY <1>3, <1>4

(* The oldest frame leaves.                                                *)
LEMMA SinkReleases ==
  ASSUME ChainInv, ChainInv', Sink
  PROVE  AsPassStep
<1>1. PICK f, C, D : f = frame /\ C = ChainOf(stage, frame) /\ D = ChainOf(stage, frame)'
  OBVIOUS
<1>2. f \in Frames /\ C = D \cup {f} /\ Before({f}, D)
  BY <1>1, SinkStep DEF ChainInv
<1>3. /\ put' = Append(put, f) /\ given' = given /\ fails' = fails /\ CascadeEnds /\ at = "sink"
  BY <1>1 DEF Sink
<1>4. asked' = asked /\ ended' = ended /\ at' = IF asked THEN drainAt ELSE "idle"
  BY <1>3 DEF CascadeEnds
<1>5. C \subseteq Int /\ D \subseteq Int
  BY <1>1, HeldIs, HeldIsNext DEF HeldAs
<1>6. C # {} /\ AsPass!Oldest(C) = f /\ C \ {f} = D
  <2>1. \A j \in C : f <= j
    BY <1>2, <1>5 DEF Before
  <2>2. AsPass!Oldest(C) = f
    BY <1>2, <1>5, <2>1, OldestIsLeast
  <2>3. f \notin D
    BY <1>2, <1>5 DEF Before
  <2>4. QED
    BY <1>2, <2>2, <2>3
<1>7. Given' = given /\ Held' = D
  BY <1>1, <1>3, <1>4, HeldIsNext DEF HeldAs
<1>8. AsPass!Release(C)
  BY <1>3, <1>6, <1>7 DEF AsPass!Release
<1>9. CASE asked
  <2>1. ~ ended
    BY <1>3, <1>9 DEF ChainInv, Control
  <2>2. Given = given /\ Held = C
    BY <1>1, <1>9, HeldIs DEF HeldAs
  <2>3. AsPass!Drain
    BY <1>3, <1>4, <1>7, <1>8, <1>9, <2>1, <2>2 DEF AsPass!Drain
  <2>4. QED
    BY <2>3 DEF AsPassStep, AsPass!Next
<1>10. CASE ~ asked
  <2>1. at # "idle"
    BY <1>3
  <2>2. /\ Given = given - 1 /\ Given < MaxIn /\ given \in Nat
        /\ Held \cup {Given} = C
    BY <1>1, <1>10, <2>1, HeldIs DEF HeldAs
  <2>3. Given' = Given + 1
    BY <1>7, <2>2
  <2>4. AsPass!Feed
    BY <1>3, <1>4, <1>8, <1>10, <2>2, <2>3 DEF AsPass!Feed
  <2>5. QED
    BY <2>4 DEF AsPassStep, AsPass!Next
<1>11. QED
  BY <1>9, <1>10

(* A call fails, and frames may be lost.                                   *)
LEMMA FailPasses ==
  ASSUME ChainInv, ChainInv', CallFails, put' = put,
         ChainOf(stage, frame)' \subseteq ChainOf(stage, frame),
         \/ given' = given
         \/ ~ asked /\ at = "idle" /\ given < MaxIn /\ given' = given + 1
  PROVE  AsPassStep
<1>1. /\ at' = "idle" /\ asked' = asked /\ ended' = ended /\ fails' = fails + 1
  BY DEF CallFails
<1>2. (fails > 0)' = TRUE
  BY <1>1, ChainAssumption DEF ChainInv, Counted
<1>3. PICK C, D : C = ChainOf(stage, frame) /\ D = ChainOf(stage, frame)' /\ D \subseteq C
  OBVIOUS
<1>4. given \in Nat /\ Given' = given' /\ Held' = D
  BY <1>1, <1>3, HeldIs, HeldIsNext DEF HeldAs
<1>5. CASE asked \/ at = "idle"
  <2>1. Given = given /\ Held = C
    BY <1>3, <1>5, HeldIs DEF HeldAs
  <2>2. AsPass!Fail
    BY <1>1, <1>2, <1>3, <1>4, <2>1 DEF AsPass!Fail
  <2>3. QED
    BY <2>2 DEF AsPassStep, AsPass!Next
<1>6. CASE ~ asked /\ at # "idle"
  <2>1. Given = given - 1 /\ Given < MaxIn /\ Held \cup {Given} = C /\ Given \in Nat
    BY <1>3, <1>6, HeldIs DEF HeldAs
  <2>2. Given' = Given + 1 /\ Given .. Given' - 1 = {Given}
    BY <1>4, <1>6, <2>1
  <2>3. Held' \subseteq Held \cup (Given .. Given' - 1)
    BY <1>3, <1>4, <2>1, <2>2
  <2>4. AsPass!Fail
    BY <1>1, <1>2, <1>6, <2>1, <2>2, <2>3 DEF AsPass!Fail
  <2>5. QED
    BY <2>4 DEF AsPassStep, AsPass!Next
<1>7. QED
  BY <1>5, <1>6

(* Every step of the chain is one of the pass, or leaves that as it is.    *)
LEMMA PassesAlong ==
  ASSUME ChainInv, ChainInv', PassThrough \/ RunTemporal \/ RunComp \/ RunRepair \/ RunRetouch
  PROVE  AsPassStep
<1>1. at \in DOMAIN After
  BY PosFacts DEF PassThrough, RunTemporal, RunComp, RunRepair, RunRetouch
<1>2. ChainOf(stage, frame)' = ChainOf(stage, frame)
  BY PassThroughStep, TemporalStep, CompStep, RepairStep, RetouchStep DEF ChainInv
<1>3. given' = given /\ put' = put /\ fails' = fails
  BY DEF PassThrough, RunTemporal, RunComp, RunRepair, RunRetouch
<1>4. \/ \E f : Goes(After[at], f)
      \/ CascadeEnds
      \/ frame = Tick /\ StageDrained
  BY DEF PassThrough, RunTemporal, RunComp, RunRepair, RunRetouch
<1>5. QED
  BY <1>1, <1>2, <1>3, <1>4, GoesOn, DrainsOn

(* A push, and the call of drain().                                        *)
LEMMA CallsPass ==
  ASSUME ChainInv, ChainInv', PushFrame \/ Ask
  PROVE  AsPassStep
<1>1. CASE PushFrame
  <2>1. /\ at = "idle" /\ ~ asked /\ given' = given + 1 /\ at' = "analyze" /\ at' # "idle"
        /\ put' = put /\ fails' = fails /\ asked' = asked /\ ended' = ended
    BY <1>1 DEF PushFrame, Goes
  <2>2. ChainOf(stage, frame)' = ChainOf(stage, frame) \cup {given}
    BY <1>1, PushStep DEF ChainInv
  <2>3. given \in Nat /\ Given = given /\ Held = ChainOf(stage, frame)
    BY <2>1, HeldIs DEF HeldAs
  <2>4. Given' = given
    BY <2>1, <2>3 DEF Given
  <2>5. ChainOf(stage, frame) \subseteq 0 .. given - 1
    BY DEF ChainInv, Conveyed
  <2>6. Held' = ChainOf(stage, frame)' \cap (0 .. given - 1)
    BY <2>4, InChainIs DEF Held
  <2>7. Held' = Held
    BY <2>2, <2>3, <2>5, <2>6
  <2>8. QED
    BY <2>1, <2>3, <2>4, <2>7, UnchangedSeen
<1>2. CASE Ask
  <2>1. /\ at = "idle" /\ (~ asked \/ fails > 0) /\ asked' = TRUE /\ ended' = FALSE
        /\ given' = given /\ put' = put /\ fails' = fails
    BY <1>2 DEF Ask
  <2>2. ChainOf(stage, frame)' = ChainOf(stage, frame)
    BY <1>2, AskStep DEF ChainInv
  <2>3. Given' = Given /\ Held' = Held
    BY <2>1, <2>2, HeldIs, HeldIsNext DEF HeldAs
  <2>4. AsPass!Ask
    BY <2>1, <2>3 DEF AsPass!Ask
  <2>5. QED
    BY <2>4 DEF AsPassStep, AsPass!Next
<1>3. QED
  BY <1>1, <1>2

(* A step that fails.                                                      *)
LEMMA FailuresPass ==
  ASSUME ChainInv, ChainInv', KeepFails \/ FilterFails \/ KeepCompFails \/ StepFails
  PROVE  AsPassStep
<1>1. ChainOf(stage, frame)' \subseteq ChainOf(stage, frame)
  BY KeepFailsStep, FilterFailsStep, KeepCompFailsStep, StepFailsStep DEF ChainInv
<1>2. CallFails /\ put' = put
  BY DEF KeepFails, FilterFails, KeepCompFails, StepFails
<1>3. \/ given' = given
      \/ ~ asked /\ at = "idle" /\ given < setting.frames /\ given' = given + 1
  BY DEF KeepFails, FilterFails, KeepCompFails, StepFails
<1>4. given < setting.frames => given < MaxIn
  BY Parameters, ChainAssumption DEF ChainInv, Counted
<1>5. QED
  BY <1>1, <1>2, <1>3, <1>4, FailPasses

(* Every step of the chain is a step of the pass, or none.                 *)
LEMMA ChainStepPasses ==
  ASSUME ChainInv, ChainInv', [ChainNext]_chainVars
  PROVE  AsPassStep
<1>1. CASE UNCHANGED chainVars
  <2>1. /\ given' = given /\ stage' = stage /\ at' = at /\ frame' = frame /\ asked' = asked
        /\ ended' = ended /\ put' = put /\ fails' = fails
    BY <1>1 DEF chainVars, control
  <2>2. Given' = Given /\ Held' = Held
    BY <2>1 DEF Given, Held, InChain
  <2>3. QED
    BY <2>1, <2>2, UnchangedSeen
<1>2. QED
  BY <1>1, PassesAlong, SinkReleases, CallsPass, FailuresPass DEF ChainNext, RunStage

(* What the chain does is what a pass does: the safety half of             *)
(* ImplementsPass.                                                         *)
ChainStepsOfPass == AsPass!Init /\ [][AsPass!Next]_(AsPass!vars)

(* Every step of the chain is a step of the pass RtgmDif takes it to be,   *)
(* or leaves that one as it is: a push puts one frame out at most, every   *)
(* frame leaves once and in order, only a call that fails loses one, and   *)
(* without a failure a drain that has ended has brought out all there was, *)
(* if anything had come out at all (CleanChain::push(), drain()).          *)
THEOREM ChainStepsCorrect == ChainSpec => ChainStepsOfPass
<1>1. ChainInit => AsPass!Init
  <2> SUFFICES ASSUME ChainInit PROVE AsPass!Init
    OBVIOUS
  <2>1. /\ given = 0 /\ at = "idle" /\ asked = FALSE /\ ended = FALSE /\ put = << >> /\ fails = 0
    BY DEF ChainInit
  <2>2. Given = 0 /\ Held = {}
    <3>1. Given = 0
      BY <2>1 DEF Given
    <3>2. 0 .. Given - 1 = {}
      BY <3>1
    <3>3. QED
      BY <3>1, <3>2 DEF Held
  <2>3. QED
    BY <2>1, <2>2 DEF AsPass!Init
<1>2. ChainInv /\ ChainInv' /\ [ChainNext]_chainVars => [AsPass!Next]_(AsPass!vars)
  BY ChainStepPasses DEF AsPassStep
<1>3. QED
  BY <1>1, <1>2, ChainInvariant, PTL DEF ChainSpec, ChainStepsOfPass

-----------------------------------------------------------------------------
(* The envelope of the sharpness limit                                     *)

RingOf(c) == IF c = "compb" THEN backRing ELSE forwRing

(* The envelopes pass c has made or will make.                             *)
Kept(c) == Elems(RingOf(c)) \cup InStage(stage[c])

(* The frames whose envelope is to be spent yet: those of TR1, and the one *)
(* under way between pass c and the retouch.                               *)
Alive(c) ==
  InStage(stage["tr1"])
    \cup (IF Pos[c] < Pos[at] /\ Pos[at] <= Pos["retouch"] THEN Under(frame) ELSE {})

(* Of what is kept in K, what no frame of V needs, and yet is later than   *)
(* the first of them.                                                      *)
Inner(K, V) == {y \in K \ V : \E v \in V : v < y}

(* Pass c, with the frames H, gets frame f at p after all of its envelopes *)
(* K, it has frame f once it has been given it, and it has done with what  *)
(* has come out of TR1.                                                    *)
Fits(p, f, K, H, c) ==
  /\ f # Tick /\ Pos[p] <= Pos[c] => Before(K, {f})
  /\ f # Tick /\ Pos[c] < Pos[p] /\ Pos[p] <= Pos["tr1"] => H = {f}
  /\ f # Tick /\ Pos["tr1"] < Pos[p] /\ Pos[p] <= Pos["retouch"] => Before({f}, H)

(* drain() leaves it empty.                                                *)
Emptied(c) == asked /\ Pos[c] < Pos[drainAt] => InStage(stage[c]) = {}

Behind(c) ==
  /\ Sorted(RingOf(c)) /\ Before(Elems(RingOf(c)), InStage(stage[c]))
  /\ Before(Kept(c), InStage(stage["analyze"]))
  /\ Kept(c) \subseteq 0 .. given - 1
  /\ Fits(at, frame, Kept(c), InStage(stage[c]), c)
  /\ Emptied(c)

(* The frames that did or will lack their envelope.                        *)
Bare == unlimited \cup UNION {Alive(c) \ Kept(c) : c \in Comps}

EnvRoom == NeedRef /\ RefRoom /\ fails <= CompPool - Lag("tr1")

(* The passes are there, and TR1 holds a frame back at least. *)
Limiting == setting.limit /\ setting.tr1 > 0

Bounded == \A c \in Comps : Cardinality(Inner(Kept(c), Alive(c))) <= fails

Enveloped ==
  /\ ~ setting.limit => unlimited = {}
  /\ Limiting => /\ \A c \in Comps : Behind(c)
                 /\ Bounded
                 /\ EnvRoom => Cardinality(Bare) <= fails

(* Where the stages stand that make and spend an envelope.                 *)
LEMMA EnvPos ==
  /\ Pos["analyze"] = 1 /\ Pos["compb"] = 2 /\ Pos["compf"] = 3 /\ Pos["tr1"] = 4
  /\ Pos["rep1"] = 5 /\ Pos["retouch"] = 6 /\ Pos["tr2"] = 7 /\ Pos["rep2"] = 8
  /\ Comps = {"compb", "compf"} /\ Comps \subseteq Filters
BY DEF Pos, Comps, Filters

(* Nothing of K is needed by V that was not before, and no more.           *)
LEMMA InnerKept ==
  ASSUME NEW K, K \subseteq Int, NEW V, V \subseteq Int, IsFiniteSet(K), NEW K2, NEW V2, NEW U, U \subseteq Int,
         K2 \subseteq K \cup U, V2 \subseteq V \cup U, U \subseteq V2, Before(K, U),
         \A v \in V \ V2 : Before({v}, V2), NEW n \in Nat, Cardinality(Inner(K, V)) <= n
  PROVE  Cardinality(Inner(K2, V2)) <= n
<1>1. ASSUME NEW z \in Inner(K2, V2) PROVE z \in Inner(K, V)
  <2>1. PICK v \in V2 : z \in K2 /\ z \notin V2 /\ v < z
    BY <1>1 DEF Inner
  <2>2. z \in K /\ v \in V
    BY <2>1 DEF Before
  <2>3. z \notin V
    BY <2>1, <2>2 DEF Before
  <2>4. QED
    BY <2>1, <2>2, <2>3 DEF Inner
<1>2. Inner(K, V) \subseteq K /\ IsFiniteSet(Inner(K, V))
  <2>1. Inner(K, V) \in SUBSET K
    BY DEF Inner
  <2>2. QED
    BY <2>1, FS_Subset
<1>3. /\ Cardinality(Inner(K2, V2)) <= Cardinality(Inner(K, V))
      /\ Cardinality(Inner(K2, V2)) \in Nat /\ Cardinality(Inner(K, V)) \in Nat
  <2>1. Inner(K2, V2) \in SUBSET Inner(K, V)
    BY <1>1
  <2>2. QED
    BY <1>2, <2>1, FS_Subset, FS_CardinalityType
<1>4. QED
  BY <1>3

(* One frame more has become useless, besides the first ones of V.         *)
LEMMA InnerMore ==
  ASSUME NEW K, K \subseteq Int, NEW V, V \subseteq Int, IsFiniteSet(K), NEW K2, K2 \subseteq Int, NEW V2, NEW y,
         K2 \subseteq K \cup {y}, V2 \subseteq V, \A v \in V \ V2 : v = y \/ Before({v}, V2),
         NEW n \in Nat, Cardinality(Inner(K, V)) <= n
  PROVE  Cardinality(Inner(K2, V2)) <= n + 1
<1>1. ASSUME NEW z \in Inner(K2, V2), z # y PROVE z \in Inner(K, V)
  <2>1. PICK v \in V2 : z \in K2 /\ z \notin V2 /\ v < z
    BY <1>1 DEF Inner
  <2>2. z \in K /\ v \in V
    BY <1>1, <2>1
  <2>3. z \notin V
    BY <1>1, <2>1, <2>2 DEF Before
  <2>4. QED
    BY <2>1, <2>2, <2>3 DEF Inner
<1>2. Inner(K, V) \subseteq K /\ IsFiniteSet(Inner(K, V))
  <2>1. Inner(K, V) \in SUBSET K
    BY DEF Inner
  <2>2. QED
    BY <2>1, FS_Subset
<1>3. PICK A, B : A = Inner(K, V) /\ B = Inner(K2, V2)
  OBVIOUS
<1>4. IsFiniteSet(A) /\ B \subseteq A \cup {y}
  BY <1>1, <1>2, <1>3
<1>5. Cardinality(A) \in Nat /\ Cardinality(B) \in Nat /\ Cardinality(B) <= Cardinality(A) + 1
  BY <1>4, CountOneMore
<1>6. QED
  BY <1>3, <1>5

(* A ring that is full does without its first entry.                       *)
LEMMA RoomDrops ==
  ASSUME NEW q \in Seq(Frames), Len(q) = CompPool, Sorted(q), NEW r, r = Room(q, CompPool)
  PROVE  /\ q[1] \in Elems(q) /\ \A x \in Elems(q) : x = q[1] \/ (q[1] < x /\ x \in Elems(r))
<1>1. CompPool \in Nat \ {0} /\ Frames \in SUBSET Int
  BY FramesFacts, ChainAssumption
<1>2. PICK n \in Nat : n = 1
  OBVIOUS
<1>3. n \in 0 .. Len(q) /\ n + 1 = Len(q) - CompPool + 2 /\ n \in 1 .. Len(q)
  BY <1>1, <1>2
<1>4. r = SubSeq(q, n + 1, Len(q))
  BY <1>1, <1>3 DEF Room
<1>5. Elems(r) = {q[j] : j \in n + 1 .. Len(q)}
  <2>1. n \in 0 .. Len(q)
    BY <1>3
  <2>2. /\ r \in Seq(Frames) /\ Len(r) = Len(q) - n
        /\ Elems(r) = {q[j] : j \in n + 1 .. Len(q)} /\ Elems(r) \subseteq Elems(q)
    BY <1>1, <1>4, <2>1, SuffixFacts
  <2>3. QED
    BY <2>2
<1>6. q[n] \in Elems(q)
  BY <1>3 DEF Elems
<1>7. ASSUME NEW x \in Elems(q), x # q[n] PROVE q[n] < x /\ x \in Elems(r)
  <2>1. PICK j \in 1 .. Len(q) : x = q[j]
    BY DEF Elems
  <2>2. n < j /\ j \in n + 1 .. Len(q)
    BY <1>1, <1>2, <1>7, <2>1
  <2>3. QED
    BY <1>3, <1>5, <2>1, <2>2 DEF Sorted
<1>8. QED
  BY <1>2, <1>6, <1>7

(* A ring with no more to spare than has become useless does not lose an   *)
(* entry that is needed.                                                   *)
LEMMA NotEvicted ==
  ASSUME NEW q \in Seq(Frames), Len(q) <= CompPool, Sorted(q), NEW V, IsFiniteSet(V), V \subseteq Int,
         NEW L \in Nat, Cardinality(V) <= L, NEW n \in Nat, n <= CompPool - L,
         NEW h \in Frames, Before(Elems(q), {h}), Cardinality(Inner(Elems(q) \cup {h}, V)) <= n,
         NEW r, r = Room(q, CompPool)
  PROVE  Elems(q) \cap V \subseteq Elems(r)
<1>1. /\ CompPool \in Nat \ {0} /\ Frames \in SUBSET Int /\ Len(q) \in Nat
      /\ IsFiniteSet(Elems(q)) /\ Cardinality(Elems(q)) = Len(q) /\ Elems(q) \subseteq Frames
  BY FramesFacts, ElemsCount, SortedCount, LenProperties, ChainAssumption
<1>2. CASE Len(q) < CompPool
  BY <1>1, <1>2, RoomFacts
<1>3. CASE Len(q) = CompPool
  <2>1. q[1] \in Elems(q) /\ \A x \in Elems(q) : x = q[1] \/ (q[1] < x /\ x \in Elems(r))
    BY <1>3, RoomDrops
  <2>2. ASSUME q[1] \in V PROVE FALSE
    <3>1. PICK K, I : K = Elems(q) \cup {h} /\ I = Inner(Elems(q) \cup {h}, V)
      OBVIOUS
    <3>2. h \notin Elems(q)
      BY <1>1 DEF Before
    <3>3. IsFiniteSet(K) /\ Cardinality(K) = CompPool + 1
      BY <1>1, <1>3, <3>1, <3>2, FS_AddElement
    <3>4. I \in SUBSET K
      BY <3>1 DEF Inner
    <3>5. IsFiniteSet(I) /\ Cardinality(I) \in Nat /\ Cardinality(V) \in Nat
      BY <3>3, <3>4, FS_Subset, FS_CardinalityType
    <3>6. K \in SUBSET (V \cup I)
      <4>1. q[1] < h
        BY <2>1 DEF Before
      <4>2. \A x \in K : x = q[1] \/ q[1] < x
        BY <2>1, <3>1, <4>1
      <4>3. \A x \in K \ V : x \in I
        BY <2>2, <3>1, <4>2 DEF Inner
      <4>4. QED
        BY <4>3
    <3>7. IsFiniteSet(V \cap I) /\ Cardinality(V \cap I) \in Nat
      BY <3>5, FS_Intersection, FS_CardinalityType
    <3>8. /\ IsFiniteSet(V \cup I)
          /\ Cardinality(V \cup I) = Cardinality(V) + Cardinality(I) - Cardinality(V \cap I)
      BY <3>5, FS_Union
    <3>9. Cardinality(K) <= Cardinality(V \cup I)
      BY <3>6, <3>8, FS_Subset
    <3>10. Cardinality(I) <= n
      BY <3>1
    <3>11. QED
      BY <1>1, <3>3, <3>5, <3>7, <3>8, <3>9, <3>10
  <2>3. QED
    BY <2>1, <2>2
<1>4. QED
  BY <1>1, <1>2, <1>3

(* A compensating pass that is there.                                      *)
LEMMA CompStage ==
  ASSUME ChainInv, setting.limit, NEW c \in Comps
  PROVE  /\ Enabled(c) /\ Delay(c) = 1 /\ PipelineDepth(c) = 0
         /\ stage[c] \in Holding(Frames) /\ Len(stage[c].hold) <= 1 /\ Len(stage[c].pending) <= 0
         /\ c \in Filters /\ c # "analyze" /\ c # "tr1" /\ c # "tr2" /\ c \in DOMAIN After
<1>1. c \in Filters /\ c # "analyze" /\ c # "tr1" /\ c # "tr2" /\ c # "rep1" /\ c # "rep2" /\ c \in DOMAIN After
  BY PosFacts DEF Comps
<1>2. Enabled(c) /\ Delay(c) = 1 /\ PipelineDepth(c) = 0
  BY <1>1 DEF Enabled, Delay, PipelineDepth
<1>3. stage[c] \in Holding(Frames) /\ Len(stage[c].hold) <= Delay(c) /\ Len(stage[c].pending) <= PipelineDepth(c)
  BY <1>1 DEF ChainInv, StagesOK
<1>4. QED
  BY <1>1, <1>2, <1>3

(* What counts is made of frames, and is finite.                           *)
LEMMA EnvTyped ==
  ASSUME ChainInv, NEW c \in Comps
  PROVE  /\ CompRing(RingOf(c)) /\ RingOf(c) \in Seq(Frames) /\ Len(RingOf(c)) <= CompPool
         /\ Kept(c) \subseteq Frames /\ Alive(c) \subseteq Frames /\ InStage(stage["tr1"]) \subseteq Frames
         /\ IsFiniteSet(Kept(c)) /\ IsFiniteSet(Alive(c)) /\ IsFiniteSet(InStage(stage["tr1"]))
         /\ Cardinality(InStage(stage["tr1"])) <= Lag("tr1") /\ Lag("tr1") \in Nat
<1>1. IsFiniteSet(Frames)
  BY FS_Interval, ChainAssumption DEF Frames
<1>2. CompRing(RingOf(c))
  BY CompsAre DEF ChainInv, RingOf
<1>3. RingOf(c) \in Seq(Frames) /\ Len(RingOf(c)) <= CompPool
  BY <1>2 DEF CompRing
<1>4. Elems(RingOf(c)) \subseteq Frames
  BY <1>3, ElemsCount
<1>5. "tr1" \in Filters /\ c \in Filters
  BY PosFacts, EnvPos
<1>6. /\ InStage(stage["tr1"]) \subseteq Frames /\ IsFiniteSet(InStage(stage["tr1"]))
      /\ Cardinality(InStage(stage["tr1"])) <= Lag("tr1") /\ Lag("tr1") \in Nat
  BY <1>5, StageCount, Parameters DEF ChainInv, Counted
<1>7. InStage(stage[c]) \subseteq Frames
  BY <1>5, StageCount DEF ChainInv, Counted
<1>8. Kept(c) \subseteq Frames
  BY <1>4, <1>7 DEF Kept
<1>9. Alive(c) \subseteq Frames
  <2>1. Under(frame) \subseteq Frames
    BY DEF ChainInv, Control, Under
  <2>2. QED
    BY <1>6, <2>1 DEF Alive
<1>10. IsFiniteSet(Kept(c)) /\ IsFiniteSet(Alive(c))
  BY <1>1, <1>8, <1>9, FS_Subset
<1>11. QED
  BY <1>2, <1>3, <1>6, <1>8, <1>9, <1>10

(* The frames that lack their envelope are finitely many.                  *)
LEMMA BareTyped ==
  ASSUME ChainInv
  PROVE  Bare \subseteq Frames /\ IsFiniteSet(Bare) /\ Cardinality(Bare) \in Nat
<1>1. Bare \subseteq Frames
  <2>1. \A c \in Comps : Alive(c) \subseteq Frames
    BY EnvTyped
  <2>2. QED
    BY <2>1 DEF Bare, ChainInv, Counted
<1>2. IsFiniteSet(Frames)
  BY FS_Interval, ChainAssumption DEF Frames
<1>3. QED
  BY <1>1, <1>2, FS_Subset, FS_CardinalityType

(* Which frames lack their envelope.                                       *)
LEMMA BareMember ==
  \A x : x \in Bare <=> x \in unlimited \/ \E c \in Comps : x \in Alive(c) /\ x \notin Kept(c)
BY DEF Bare

(* The same of the next state.                                             *)
LEMMA BareMemberNext ==
  \A x : x \in Bare' <=> x \in unlimited' \/ \E c \in Comps : x \in Alive(c)' /\ x \notin Kept(c)'
BY DEF Bare

(* A step that makes no frame more go without its envelope, and one that   *)
(* makes one frame more.                                                   *)
LEMMA BareKept ==
  ASSUME ChainInv, Bare' \subseteq Bare
  PROVE  Cardinality(Bare') <= Cardinality(Bare) /\ Cardinality(Bare') \in Nat
<1>1. IsFiniteSet(Bare) /\ Bare' \in SUBSET Bare
  BY BareTyped
<1>2. QED
  BY <1>1, FS_Subset, FS_CardinalityType

(* A step that makes one frame more go without its envelope.               *)
LEMMA BareMore ==
  ASSUME ChainInv, NEW h, Bare' \subseteq Bare \cup {h}
  PROVE  Cardinality(Bare') <= Cardinality(Bare) + 1 /\ Cardinality(Bare') \in Nat
<1>1. PICK A, B : A = Bare /\ B = Bare'
  OBVIOUS
<1>2. IsFiniteSet(A) /\ B \subseteq A \cup {h}
  BY <1>1, BareTyped
<1>3. QED
  BY <1>1, <1>2, CountOneMore

(* A failure leaves less room.                                             *)
LEMMA EnvRoomLess ==
  ASSUME ChainInv, setting' = setting, fails' = fails \/ fails' = fails + 1
  PROVE  /\ EnvRoom' => EnvRoom
         /\ Limiting' <=> Limiting
<1>1. NeedRef' = NeedRef /\ Lag("tr1")' = Lag("tr1")
  BY ParametersKept DEF Lag
<1>2. RefRoom' => RefRoom
  BY RoomLess DEF ChainInv
<1>3. fails \in Nat /\ fails' \in Nat /\ fails <= fails'
  BY RoomLess DEF ChainInv
<1>4. Lag("tr1") \in Nat /\ CompPool \in Nat
  BY PosFacts, Parameters, ChainAssumption DEF ChainInv, Counted
<1>5. PICK l \in Nat, n \in Nat, m \in Nat : l = Lag("tr1") /\ n = fails /\ m = fails' /\ n <= m
  BY <1>3, <1>4
<1>6. m <= CompPool - l => n <= CompPool - l
  BY <1>4, <1>5
<1>7. EnvRoom' => EnvRoom
  BY <1>1, <1>2, <1>5, <1>6 DEF EnvRoom
<1>8. QED
  BY <1>7 DEF Limiting

(* What has to be seen of a step.                                          *)
LEMMA EnvelopedNext ==
  ASSUME ChainInv, Enveloped, setting' = setting, fails' = fails \/ fails' = fails + 1,
         setting.limit \/ unlimited' = unlimited,
         Limiting => \A c \in Comps : Behind(c)' /\ Cardinality(Inner(Kept(c)', Alive(c)')) <= fails',
         Limiting /\ EnvRoom =>
           \/ Bare' \subseteq Bare
           \/ fails' = fails + 1 /\ \E h : Bare' \subseteq Bare \cup {h}
  PROVE  Enveloped'
<1>1. (EnvRoom' => EnvRoom) /\ (Limiting' <=> Limiting)
  BY EnvRoomLess
<1>2. fails \in Nat
  BY RoomLess DEF ChainInv
<1>3. Limiting => Bounded'
  BY DEF Bounded
<1>4. Limiting /\ EnvRoom' => Cardinality(Bare') <= fails'
  <2> SUFFICES ASSUME Limiting, EnvRoom PROVE Cardinality(Bare') <= fails'
    BY <1>1
  <2>1. Cardinality(Bare) <= fails /\ Cardinality(Bare) \in Nat
    BY BareTyped DEF Enveloped
  <2>2. CASE Bare' \subseteq Bare
    BY <1>2, <2>1, <2>2, BareKept
  <2>3. CASE fails' = fails + 1 /\ \E h : Bare' \subseteq Bare \cup {h}
    <3>1. Cardinality(Bare') <= Cardinality(Bare) + 1 /\ Cardinality(Bare') \in Nat
      BY <2>3, BareMore
    <3>2. QED
      BY <1>2, <2>1, <2>3, <3>1
  <2>4. QED
    BY <2>2, <2>3
<1>5. ~ setting'.limit => unlimited' = {}
  BY DEF Enveloped
<1>6. QED
  BY <1>1, <1>3, <1>4, <1>5 DEF Enveloped

(* A step that leaves the envelopes as they are.                           *)
LEMMA EnvelopedAside ==
  ASSUME ChainInv, Enveloped, setting' = setting, fails' = fails \/ fails' = fails + 1,
         unlimited' = unlimited,
         Limiting => \A c \in Comps : Behind(c)' /\ Kept(c)' = Kept(c) /\ Alive(c)' = Alive(c)
  PROVE  Enveloped'
<1>1. fails \in Nat
  BY RoomLess DEF ChainInv
<1>2. ASSUME Limiting, NEW c \in Comps PROVE Behind(c)' /\ Cardinality(Inner(Kept(c)', Alive(c)')) <= fails'
  <2>1. PICK I : I = Inner(Kept(c), Alive(c))
    OBVIOUS
  <2>2. Inner(Kept(c)', Alive(c)') = I
    BY <1>2, <2>1
  <2>3. Cardinality(I) <= fails
    BY <1>2, <2>1 DEF Enveloped, Bounded
  <2>4. Cardinality(I) \in Nat
    <3>1. IsFiniteSet(Kept(c)) /\ I \in SUBSET Kept(c)
      BY <2>1, EnvTyped DEF Inner
    <3>2. QED
      BY <3>1, FS_Subset, FS_CardinalityType
  <2>5. QED
    BY <1>1, <1>2, <2>2, <2>3, <2>4
<1>3. Limiting => Bare' \subseteq Bare
  BY BareMember, BareMemberNext
<1>4. QED
  BY <1>2, <1>3, EnvelopedNext

(* The frame at p is on its way from pass c to the retouch.                *)
Between(p, f, c) == f # Tick /\ Pos[c] < Pos[p] /\ Pos[p] <= Pos["retouch"]

(* The frames whose envelope is to be spent yet, one by one.               *)
LEMMA AliveMember ==
  ASSUME NEW c, NEW x
  PROVE  x \in Alive(c) <=> x \in InStage(stage["tr1"]) \/ (x = frame /\ Between(at, frame, c))
BY DEF Alive, Between, Under

(* The same of the next state.                                             *)
LEMMA AliveMemberNext ==
  ASSUME NEW c, NEW x
  PROVE  x \in Alive(c)' <=> x \in InStage(stage'["tr1"]) \/ (x = frame' /\ Between(at', frame', c))
BY DEF Alive, Between, Under

(* TR1 has the frames it had, and the same frame is on its way, or none.   *)
LEMMA AliveKept ==
  ASSUME NEW c, InStage(stage'["tr1"]) = InStage(stage["tr1"]),
         \/ ~ Between(at, frame, c) /\ ~ Between(at', frame', c)
         \/ frame' = frame /\ (Between(at', frame', c) <=> Between(at, frame, c))
  PROVE  Alive(c)' = Alive(c)
<1>1. \A x : x \in Alive(c)' <=> x \in Alive(c)
  BY AliveMember, AliveMemberNext
<1>2. QED
  BY <1>1

(* The frame at p goes on to the next stage.                               *)
LEMMA FitsOn ==
  ASSUME NEW c \in Comps, NEW p \in DOMAIN After, p # c, p # "tr1", NEW f, NEW K, NEW H, Fits(p, f, K, H, c)
  PROVE  /\ Fits(After[p], f, K, H, c)
         /\ p # "retouch" => (Between(After[p], f, c) <=> Between(p, f, c))
<1>1. p \in {"analyze", "compb", "compf", "rep1", "retouch", "tr2", "rep2"} /\ c \in {"compb", "compf"}
  BY DEF After, Comps
<1>2. QED
  BY <1>1, EnvPos DEF Fits, Between, After, Pos

(* A drain tick is no frame.                                               *)
LEMMA FitsTick ==
  ASSUME NEW c, NEW p, NEW K, NEW H
  PROVE  Fits(p, Tick, K, H, c) /\ ~ Between(p, Tick, c)
BY DEF Fits, Between

(* drain() has not gone past pass c in this step.                          *)
LEMMA EmptiedKept ==
  ASSUME NEW c \in Comps, Emptied(c), stage'[c] = stage[c],
         \/ asked' = asked /\ drainAt' = drainAt
         \/ drainAt' = "analyze"
         \/ asked /\ drainAt \in DOMAIN After /\ drainAt # c /\ drainAt' = After[drainAt]
  PROVE  Emptied(c)'
<1>1. CASE asked' = asked /\ drainAt' = drainAt
  BY <1>1 DEF Emptied
<1>2. CASE drainAt' = "analyze"
  <2>1. ~ (Pos[c] < Pos[drainAt'])
    BY <1>2, EnvPos
  <2>2. QED
    BY <2>1 DEF Emptied
<1>3. CASE asked /\ drainAt \in DOMAIN After /\ drainAt # c /\ drainAt' = After[drainAt]
  <2>1. Pos[drainAt] # Pos[c] /\ Pos[drainAt'] = Pos[drainAt] + 1 /\ Pos[drainAt] \in 0 .. 9 /\ Pos[c] \in 0 .. 9
    BY <1>3, PosFacts, EnvPos
  <2>2. Pos[c] < Pos[drainAt'] => Pos[c] < Pos[drainAt]
    BY <2>1
  <2>3. QED
    BY <1>3, <2>2 DEF Emptied
<1>4. QED
  BY <1>1, <1>2, <1>3

(* Pass c and its ring are left alone.                                     *)
LEMMA BehindKept ==
  ASSUME ChainInv, NEW c \in Comps, Behind(c), RingOf(c)' = RingOf(c), stage'[c] = stage[c],
         Before(Kept(c), InStage(stage'["analyze"])), given' = given \/ given' = given + 1,
         Fits(at', frame', Kept(c), InStage(stage[c]), c), Emptied(c)'
  PROVE  Behind(c)' /\ Kept(c)' = Kept(c)
<1>1. Kept(c)' = Kept(c)
  BY DEF Kept
<1>2. Kept(c)' \subseteq 0 .. given' - 1
  <2>1. given \in Nat
    BY Parameters, ChainAssumption DEF ChainInv, Counted
  <2>2. Kept(c) \subseteq 0 .. given - 1
    BY DEF Behind
  <2>3. QED
    BY <1>1, <2>1, <2>2
<1>3. QED
  BY <1>1, <1>2 DEF Behind

(* A step that has to do with neither pass, nor with their rings.          *)
LEMMA Aside ==
  ASSUME ChainInv, Enveloped, setting' = setting, fails' = fails \/ fails' = fails + 1,
         given' = given \/ given' = given + 1,
         unlimited' = unlimited, backRing' = backRing, forwRing' = forwRing,
         \A c \in Comps : stage'[c] = stage[c],
         Limiting => \A c \in Comps :
           /\ Before(Kept(c), InStage(stage'["analyze"]))
           /\ Fits(at', frame', Kept(c), InStage(stage[c]), c)
           /\ Emptied(c)'
           /\ Alive(c)' = Alive(c)
  PROVE  Enveloped'
<1>1. ASSUME Limiting, NEW c \in Comps
      PROVE  Behind(c)' /\ Kept(c)' = Kept(c) /\ Alive(c)' = Alive(c)
  <2>1. Behind(c)
    BY <1>1 DEF Enveloped
  <2>2. RingOf(c)' = RingOf(c)
    BY DEF RingOf
  <2>3. QED
    BY <1>1, <2>1, <2>2, BehindKept
<1>2. QED
  BY <1>1, EnvelopedAside

-----------------------------------------------------------------------------
(* What the steps make of the envelopes                                    *)

(* A frame, or a tick, goes on past the stages that do not matter.         *)
LEMMA MovedEnv ==
  ASSUME ChainInv, Enveloped, setting' = setting, fails' = fails, given' = given, unlimited' = unlimited,
         backRing' = backRing, forwRing' = forwRing, stage' = stage, at \in DOMAIN After,
         Limiting => at \notin Comps /\ at # "tr1",
         \/ frame # Tick /\ at # "retouch" /\ Goes(After[at], frame)
         \/ frame = Tick /\ StageDrained
  PROVE  Enveloped'
<1>1. ASSUME Limiting, NEW c \in Comps
      PROVE  /\ Before(Kept(c), InStage(stage'["analyze"]))
             /\ Fits(at', frame', Kept(c), InStage(stage[c]), c)
             /\ Emptied(c)'
             /\ Alive(c)' = Alive(c)
  <2>1. /\ Before(Kept(c), InStage(stage["analyze"])) /\ Emptied(c)
        /\ Fits(at, frame, Kept(c), InStage(stage[c]), c)
        /\ at # c /\ at # "tr1"
    BY <1>1 DEF Enveloped, Behind
  <2>2. CASE frame # Tick /\ at # "retouch" /\ Goes(After[at], frame)
    <3>1. at' = After[at] /\ frame' = frame /\ asked' = asked /\ drainAt' = drainAt
      BY <2>2 DEF Goes
    <3>2. /\ Fits(at', frame', Kept(c), InStage(stage[c]), c)
          /\ Between(at', frame', c) <=> Between(at, frame, c)
      BY <2>1, <2>2, <3>1, FitsOn
    <3>3. Alive(c)' = Alive(c)
      BY <3>1, <3>2, AliveKept
    <3>4. Emptied(c)'
      BY <2>1, <3>1, EmptiedKept
    <3>5. QED
      BY <2>1, <3>2, <3>3, <3>4
  <2>3. CASE frame = Tick /\ StageDrained
    <3>1. frame' = Tick /\ drainAt' = After[drainAt] /\ asked' = asked
      BY <2>3 DEF StageDrained
    <3>2. asked /\ drainAt = at
      BY <2>3, ControlDrained DEF ChainInv
    <3>3. Fits(at', frame', Kept(c), InStage(stage[c]), c) /\ Alive(c)' = Alive(c)
      BY <2>3, <3>1, FitsTick, AliveKept
    <3>4. Emptied(c)'
      BY <2>1, <3>1, <3>2, EmptiedKept
    <3>5. QED
      BY <2>1, <3>3, <3>4
  <2>4. QED
    BY <2>2, <2>3
<1>2. QED
  BY <1>1, Aside

(* A stage that is off has no envelopes.                                   *)
LEMMA PassThroughEnv ==
  ASSUME ChainInv, Enveloped, PassThrough
  PROVE  Enveloped'
<1>1. Limiting => at \notin Comps /\ at # "tr1" /\ at # "retouch"
  BY DEF Limiting, PassThrough, Enabled, Comps
<1>2. at # "retouch"
  BY DEF PassThrough, Enabled, Comps
<1>3. QED
  BY <1>1, <1>2, MovedEnv DEF PassThrough, rings, missed

(* A shimmer repair has nothing to do with them.                           *)
LEMMA RepairEnv ==
  ASSUME ChainInv, Enveloped, RunRepair
  PROVE  Enveloped'
<1>1. at \in DOMAIN After /\ at \notin Comps /\ at # "tr1" /\ at # "retouch"
  BY DEF RunRepair, Repairs, After, Comps
<1>2. QED
  BY <1>1, MovedEnv DEF RunRepair, rings

(* There is nothing under way once a call has ended.                       *)
LEMMA IdleEnv ==
  ASSUME ChainInv, Enveloped, setting' = setting, fails' = fails \/ fails' = fails + 1,
         given' = given \/ given' = given + 1, unlimited' = unlimited,
         backRing' = backRing, forwRing' = forwRing, stage' = stage,
         frame' = Tick, (asked' = asked /\ drainAt' = drainAt) \/ drainAt' = "analyze",
         \A c \in Comps : ~ Between(at, frame, c)
  PROVE  Enveloped'
<1>1. ASSUME Limiting, NEW c \in Comps
      PROVE  /\ Before(Kept(c), InStage(stage'["analyze"]))
             /\ Fits(at', frame', Kept(c), InStage(stage[c]), c)
             /\ Emptied(c)'
             /\ Alive(c)' = Alive(c)
  <2>1. Before(Kept(c), InStage(stage["analyze"])) /\ Emptied(c)
    BY <1>1 DEF Enveloped, Behind
  <2>2. Fits(at', frame', Kept(c), InStage(stage[c]), c) /\ Alive(c)' = Alive(c)
    BY FitsTick, AliveKept
  <2>3. Emptied(c)'
    BY <2>1, EmptiedKept
  <2>4. QED
    BY <2>1, <2>2, <2>3
<1>2. QED
  BY <1>1, Aside

(* The frame leaves.                                                       *)
LEMMA SinkEnv ==
  ASSUME ChainInv, Enveloped, Sink
  PROVE  Enveloped'
<1>1. \A c \in Comps : ~ Between(at, frame, c)
  BY EnvPos, PosFacts DEF Sink, Between
<1>2. frame' = Tick /\ asked' = asked /\ drainAt' = drainAt
  BY DEF Sink, CascadeEnds
<1>3. QED
  BY <1>1, <1>2, IdleEnv DEF Sink, missed

(* drain() is called.                                                      *)
LEMMA AskEnv ==
  ASSUME ChainInv, Enveloped, Ask
  PROVE  Enveloped'
<1>1. frame = Tick /\ frame' = Tick
  BY DEF Ask, ChainInv, Control
<1>2. QED
  BY <1>1, FitsTick, IdleEnv DEF Ask, rings, missed

(* push() fails to keep the reference.                                     *)
LEMMA KeepFailsEnv ==
  ASSUME ChainInv, Enveloped, KeepFails
  PROVE  Enveloped'
<1>1. frame = Tick
  BY DEF KeepFails, ChainInv, Control
<1>2. frame' = Tick /\ asked' = asked /\ drainAt' = drainAt /\ fails' = fails + 1
  BY DEF KeepFails, CallFails
<1>3. QED
  BY <1>1, <1>2, FitsTick, IdleEnv DEF KeepFails, missed

(* A frame is pushed, later than all there are.                            *)
LEMMA PushEnv ==
  ASSUME ChainInv, Enveloped, PushFrame
  PROVE  Enveloped'
<1>1. /\ setting' = setting /\ fails' = fails /\ given' = given + 1 /\ stage' = stage
      /\ unlimited' = unlimited /\ backRing' = backRing /\ forwRing' = forwRing
      /\ at' = "analyze" /\ frame' = given /\ asked' = asked /\ drainAt' = drainAt
  BY DEF PushFrame, missed, Goes
<1>2. frame = Tick
  BY DEF PushFrame, ChainInv, Control
<1>3. ASSUME Limiting, NEW c \in Comps
      PROVE  /\ Before(Kept(c), InStage(stage'["analyze"]))
             /\ Fits(at', frame', Kept(c), InStage(stage[c]), c)
             /\ Emptied(c)'
             /\ Alive(c)' = Alive(c)
  <2>1. Before(Kept(c), InStage(stage["analyze"])) /\ Emptied(c) /\ Kept(c) \subseteq 0 .. given - 1
    BY <1>3 DEF Enveloped, Behind
  <2>2. Before(Kept(c), {given})
    <3>1. given \in Nat
      BY Parameters, ChainAssumption DEF ChainInv, Counted
    <3>2. QED
      BY <2>1, <3>1 DEF Before
  <2>3. Pos[c] \in {2, 3} /\ Pos["analyze"] = 1 /\ Pos["tr1"] = 4
    BY EnvPos
  <2>4. Fits(at', frame', Kept(c), InStage(stage[c]), c) /\ ~ Between(at', frame', c)
    BY <1>1, <2>2, <2>3 DEF Fits, Between
  <2>5. Alive(c)' = Alive(c)
    BY <1>1, <1>2, <2>4, FitsTick, AliveKept
  <2>6. Emptied(c)'
    BY <1>1, <2>1, EmptiedKept
  <2>7. QED
    BY <1>1, <2>1, <2>4, <2>5, <2>6
<1>4. QED
  BY <1>1, <1>3, Aside

(* What the analysis, TR1 or TR2 makes of a frame or a tick.               *)
TemporalAs(a, x) ==
  /\ at \in Line /\ at \in Filters /\ at \in DOMAIN After /\ Enabled(at) /\ a = Answer(at)
  /\ x \in Holding(Frames) /\ InStage(x) = InStage(a)
  /\ stage'[at] = x /\ OnlyOne(stage, stage', at)
  /\ \A c \in Comps : stage'[c] = stage[c]
  /\ InOrder(a) /\ Answers(InStage(stage[at]) \cup Under(frame), a) /\ a.out \in SUBSET Frames

TemporalGoes(a) ==
  \/ \E f \in a.out : Goes(After[at], f)
  \/ a.out = {} /\ frame # Tick /\ CascadeEnds
  \/ a.out = {} /\ frame = Tick /\ StageDrained

(* One of them does so whenever it runs.                                   *)
LEMMA TemporalIs ==
  ASSUME ChainInv, RunTemporal
  PROVE  \E a, x : TemporalAs(a, x) /\ TemporalGoes(a)
<1>1. /\ at \in Line /\ Enabled(at) /\ at \in Filters /\ at \in DOMAIN After
      /\ setting' = setting /\ setting \in Settings
  BY PosFacts DEF RunTemporal, Counted, ChainInv
<1>2. PICK a : a = Answer(at)
  OBVIOUS
<1>3. PICK x \in Holding(Frames) :
        /\ x = [hold |-> a.hold, pending |-> a.pending]
        /\ Len(x.hold) <= Delay(at) /\ Len(x.pending) <= PipelineDepth(at)
  BY <1>1, <1>2, AnswerTyped DEF Control, ChainInv
<1>4. stage' = [stage EXCEPT ![at] = x] /\ TemporalGoes(a)
  BY <1>2, <1>3 DEF RunTemporal, Left, TemporalGoes
<1>5. StagesOK' /\ stage'[at] = x /\ OnlyOne(stage, stage', at)
  BY <1>1, <1>3, <1>4, StagesKept DEF ChainInv
<1>6. InOrder(a) /\ Answers(InStage(stage[at]) \cup Under(frame), a) /\ a.out \in SUBSET Frames
  BY <1>1, <1>2, AnswerOrdered, AnswerTyped DEF Control, ChainInv
<1>7. \A c \in Comps : stage'[c] = stage[c]
  <2>1. \A c \in Comps : c \in Filters /\ c # at
    BY <1>1, PosFacts
  <2>2. QED
    BY <1>4, <2>1 DEF ChainInv, StagesOK
<1>8. InStage(x) = InStage(a)
  BY <1>3 DEF InStage
<1>9. QED
  BY <1>1, <1>2, <1>3, <1>4, <1>5, <1>6, <1>7, <1>8 DEF TemporalAs

(* When nothing comes out of it, and when a frame does.                    *)
LEMMA TemporalSilent ==
  ASSUME ChainInv, NEW a, NEW x, TemporalAs(a, x), TemporalGoes(a), a.out = {}
  PROVE  /\ frame' = Tick /\ InStage(stage'[at]) = InStage(stage[at]) \cup Under(frame)
         /\ \/ asked' = asked /\ drainAt' = drainAt
            \/ asked /\ drainAt \in DOMAIN After /\ drainAt = at /\ drainAt' = After[drainAt]
<1>1. frame' = Tick
  BY DEF TemporalGoes, CascadeEnds, StageDrained
<1>2. InStage(stage'[at]) = InStage(stage[at]) \cup Under(frame)
  BY DEF TemporalAs, Answers
<1>3. at \in DOMAIN After
  BY DEF TemporalAs
<1>4. CASE CascadeEnds
  BY <1>1, <1>2, <1>4 DEF CascadeEnds
<1>5. CASE frame = Tick /\ StageDrained
  <2>1. asked /\ drainAt = at
    BY <1>3, <1>5, ControlDrained DEF ChainInv
  <2>2. QED
    BY <1>1, <1>2, <1>3, <1>5, <2>1 DEF StageDrained
<1>6. QED
  BY <1>4, <1>5 DEF TemporalGoes

(* And when a frame comes out.                                             *)
LEMMA TemporalPuts ==
  ASSUME NEW a, NEW x, TemporalAs(a, x), TemporalGoes(a), a.out # {}
  PROVE  \E f \in InStage(stage[at]) \cup Under(frame) :
           /\ f \in Frames /\ a.out = {f}
           /\ at' = After[at] /\ frame' = f /\ asked' = asked /\ drainAt' = drainAt
           /\ InStage(stage'[at]) = (InStage(stage[at]) \cup Under(frame)) \ {f}
           /\ Before({f}, InStage(stage'[at]))
<1>1. PICK f \in InStage(stage[at]) \cup Under(frame) :
        /\ a.out = {f} /\ InStage(a) = (InStage(stage[at]) \cup Under(frame)) \ {f}
        /\ Before({f}, InStage(a))
  BY DEF TemporalAs, Answers
<1>2. f \in Frames /\ InStage(stage'[at]) = InStage(a)
  BY <1>1 DEF TemporalAs
<1>3. Goes(After[at], f)
  BY <1>1 DEF TemporalGoes
<1>4. QED
  BY <1>1, <1>2, <1>3 DEF Goes

(* The analysis: what comes out is later than all the envelopes.           *)
LEMMA AnalyzeEnv ==
  ASSUME ChainInv, Enveloped, RunTemporal, at = "analyze"
  PROVE  Enveloped'
<1>1. PICK a, x : TemporalAs(a, x) /\ TemporalGoes(a)
  BY TemporalIs
<1>2. /\ setting' = setting /\ fails' = fails /\ given' = given /\ unlimited' = unlimited
      /\ backRing' = backRing /\ forwRing' = forwRing
  BY DEF RunTemporal, rings, missed
<1>3. (\A c \in Comps : stage'[c] = stage[c]) /\ stage'["tr1"] = stage["tr1"]
  BY <1>1, PosFacts DEF TemporalAs, OnlyOne
<1>4. ASSUME Limiting, NEW c \in Comps
      PROVE  /\ Before(Kept(c), InStage(stage'["analyze"]))
             /\ Fits(at', frame', Kept(c), InStage(stage[c]), c)
             /\ Emptied(c)'
             /\ Alive(c)' = Alive(c)
  <2>1. Before(Kept(c), InStage(stage["analyze"])) /\ Emptied(c) /\ Fits(at, frame, Kept(c), InStage(stage[c]), c)
    BY <1>4 DEF Enveloped, Behind
  <2>2. Pos[c] \in {2, 3} /\ Pos["analyze"] = 1 /\ Pos["compb"] = 2 /\ Pos["tr1"] = 4 /\ c # "analyze"
    BY EnvPos
  <2>3. Before(Kept(c), InStage(stage[at]) \cup Under(frame))
    BY <2>1, <2>2 DEF Fits, Before, Under
  <2>4. ~ Between(at, frame, c)
    BY <2>2 DEF Between
  <2>5. CASE a.out = {}
    <3>1. /\ frame' = Tick /\ InStage(stage'[at]) = InStage(stage[at]) \cup Under(frame)
          /\ \/ asked' = asked /\ drainAt' = drainAt
             \/ asked /\ drainAt \in DOMAIN After /\ drainAt = at /\ drainAt' = After[drainAt]
      BY <1>1, <2>5, TemporalSilent
    <3>2. Fits(at', frame', Kept(c), InStage(stage[c]), c) /\ ~ Between(at', frame', c)
      BY <3>1, FitsTick
    <3>3. Alive(c)' = Alive(c)
      BY <1>3, <2>4, <3>2, AliveKept
    <3>4. Emptied(c)'
      BY <1>3, <2>1, <2>2, <3>1, EmptiedKept
    <3>5. QED
      BY <2>3, <3>1, <3>2, <3>3, <3>4
  <2>6. CASE a.out # {}
    <3>1. PICK f \in InStage(stage[at]) \cup Under(frame) :
            /\ at' = After[at] /\ frame' = f /\ asked' = asked /\ drainAt' = drainAt
            /\ InStage(stage'[at]) = (InStage(stage[at]) \cup Under(frame)) \ {f}
      BY <1>1, <2>6, TemporalPuts
    <3>2. Before(Kept(c), {f}) /\ Before(Kept(c), InStage(stage'[at]))
      BY <2>3, <3>1 DEF Before
    <3>3. at' = "compb"
      BY <3>1 DEF After
    <3>4. Fits(at', frame', Kept(c), InStage(stage[c]), c) /\ ~ Between(at', frame', c)
      BY <2>2, <3>1, <3>2, <3>3 DEF Fits, Between
    <3>5. Alive(c)' = Alive(c)
      BY <1>3, <2>4, <3>4, AliveKept
    <3>6. Emptied(c)'
      BY <1>3, <2>1, <3>1, EmptiedKept
    <3>7. QED
      BY <3>2, <3>4, <3>5, <3>6
  <2>7. QED
    BY <2>5, <2>6
<1>5. QED
  BY <1>2, <1>3, <1>4, Aside

(* TR2 is behind the retouch.                                              *)
LEMMA LastEnv ==
  ASSUME ChainInv, Enveloped, RunTemporal, at = "tr2"
  PROVE  Enveloped'
<1>1. PICK a, x : TemporalAs(a, x) /\ TemporalGoes(a)
  BY TemporalIs
<1>2. /\ setting' = setting /\ fails' = fails /\ given' = given /\ unlimited' = unlimited
      /\ backRing' = backRing /\ forwRing' = forwRing
  BY DEF RunTemporal, rings, missed
<1>3. /\ \A c \in Comps : stage'[c] = stage[c]
      /\ stage'["tr1"] = stage["tr1"] /\ stage'["analyze"] = stage["analyze"]
  BY <1>1, PosFacts DEF TemporalAs, OnlyOne
<1>4. ASSUME Limiting, NEW c \in Comps
      PROVE  /\ Before(Kept(c), InStage(stage'["analyze"]))
             /\ Fits(at', frame', Kept(c), InStage(stage[c]), c)
             /\ Emptied(c)'
             /\ Alive(c)' = Alive(c)
  <2>1. Before(Kept(c), InStage(stage["analyze"])) /\ Emptied(c)
    BY <1>4 DEF Enveloped, Behind
  <2>2. Pos[c] \in {2, 3} /\ Pos["tr2"] = 7 /\ Pos["rep2"] = 8 /\ Pos["tr1"] = 4 /\ Pos["retouch"] = 6 /\ c # "tr2"
    BY EnvPos
  <2>3. ~ Between(at, frame, c)
    BY <2>2 DEF Between
  <2>4. CASE a.out = {}
    <3>1. /\ frame' = Tick
          /\ \/ asked' = asked /\ drainAt' = drainAt
             \/ asked /\ drainAt \in DOMAIN After /\ drainAt = at /\ drainAt' = After[drainAt]
      BY <1>1, <2>4, TemporalSilent
    <3>2. Fits(at', frame', Kept(c), InStage(stage[c]), c) /\ ~ Between(at', frame', c)
      BY <3>1, FitsTick
    <3>3. Alive(c)' = Alive(c)
      BY <1>3, <2>3, <3>2, AliveKept
    <3>4. Emptied(c)'
      BY <1>3, <2>1, <2>2, <3>1, EmptiedKept
    <3>5. QED
      BY <1>3, <2>1, <3>2, <3>3, <3>4
  <2>5. CASE a.out # {}
    <3>1. at' = "rep2" /\ asked' = asked /\ drainAt' = drainAt
      BY <1>1, <2>5, TemporalPuts DEF After
    <3>2. Fits(at', frame', Kept(c), InStage(stage[c]), c) /\ ~ Between(at', frame', c)
      BY <2>2, <3>1 DEF Fits, Between
    <3>3. Alive(c)' = Alive(c)
      BY <1>3, <2>3, <3>2, AliveKept
    <3>4. Emptied(c)'
      BY <1>3, <2>1, <3>1, EmptiedKept
    <3>5. QED
      BY <1>3, <2>1, <3>2, <3>3, <3>4
  <2>6. QED
    BY <2>4, <2>5
<1>5. QED
  BY <1>2, <1>3, <1>4, Aside

(* TR1 holds a frame back at least, so what comes out is not the last it   *)
(* was given.                                                              *)
LEMMA OutIsEarlier ==
  ASSUME ChainInv, Limiting, at = "tr1", frame # Tick, NEW a, NEW x, TemporalAs(a, x),
         NEW f, a.out = {f}, InStage(stage'[at]) = (InStage(stage[at]) \cup Under(frame)) \ {f},
         f \in InStage(stage[at]) \cup Under(frame), Before({f}, InStage(stage'[at]))
  PROVE  f < frame
<1>1. frame \in Frames /\ "tr1" \in Filters /\ setting \in Settings
  BY PosFacts DEF ChainInv, Control, Counted
<1>2. setting \in Setting /\ setting.tr1 \in Nat \ {0} /\ setting.tr0 \in Nat
  BY <1>1, ChainAssumption DEF Limiting, Setting
<1>3. Delay("tr1") \in Nat /\ Delay("tr1") >= 1
  BY <1>2, EnvPos DEF Delay
<1>4. Full(a, Delay("tr1"), PipelineDepth("tr1"))
  <2>1. PutsOut(a) /\ a = Answer("tr1")
    BY DEF PutsOut, TemporalAs
  <2>2. QED
    BY <1>1, <2>1, AnswerFed DEF ChainInv
<1>5. PICK y : y \in InStage(stage'[at])
  <2>1. a.hold[1] \in InStage(a)
    BY <1>3, <1>4 DEF Full, InStage
  <2>2. InStage(stage'[at]) = InStage(a)
    BY DEF TemporalAs
  <2>3. QED
    BY <2>1, <2>2
<1>6. Before(InStage(stage["tr1"]), {frame}) /\ InStage(stage["tr1"]) \subseteq Int
  <2>1. Ordered(stage, "tr1", frame) /\ "tr1" \in Line /\ Pos["tr1"] = 4
    BY EnvPos, PosFacts DEF ChainInv, Conveyed
  <2>2. Before(InStage(stage["tr1"]), {frame})
    BY <2>1 DEF Ordered
  <2>3. QED
    BY <1>1, <2>2, StageCount, FramesFacts DEF ChainInv
<1>7. f < y /\ y \in (InStage(stage["tr1"]) \cup {frame}) \ {f} /\ f \in InStage(stage["tr1"]) \cup {frame}
  BY <1>5 DEF Before, Under
<1>8. CASE f = frame
  <2>1. y < frame /\ f < y /\ y \in Int /\ frame \in Int
    BY <1>1, <1>6, <1>7, <1>8, FramesFacts DEF Before
  <2>2. QED
    BY <1>8, <2>1
<1>9. QED
  BY <1>6, <1>7, <1>8 DEF Before

(* TR1: what it has, and what comes out of it, is to be limited yet.       *)
LEMMA FirstEnv ==
  ASSUME ChainInv, Enveloped, RunTemporal, at = "tr1"
  PROVE  Enveloped'
<1>1. PICK a, x : TemporalAs(a, x) /\ TemporalGoes(a)
  BY TemporalIs
<1>2. /\ setting' = setting /\ fails' = fails /\ given' = given /\ unlimited' = unlimited
      /\ backRing' = backRing /\ forwRing' = forwRing
  BY DEF RunTemporal, rings, missed
<1>3. (\A c \in Comps : stage'[c] = stage[c]) /\ stage'["analyze"] = stage["analyze"]
  BY <1>1, PosFacts DEF TemporalAs, OnlyOne
<1>4. ASSUME Limiting, NEW c \in Comps
      PROVE  /\ Before(Kept(c), InStage(stage'["analyze"]))
             /\ Fits(at', frame', Kept(c), InStage(stage[c]), c)
             /\ Emptied(c)'
             /\ Alive(c)' = Alive(c)
  <2>1. Before(Kept(c), InStage(stage["analyze"])) /\ Emptied(c) /\ Fits(at, frame, Kept(c), InStage(stage[c]), c)
    BY <1>4 DEF Enveloped, Behind
  <2>2. Pos[c] \in {2, 3} /\ Pos["tr1"] = 4 /\ Pos["rep1"] = 5 /\ Pos["retouch"] = 6 /\ c # "tr1"
    BY EnvPos
  <2>3. Alive(c) = InStage(stage[at]) \cup Under(frame)
    BY <2>2 DEF Alive, Under
  <2>4. CASE a.out = {}
    <3>1. /\ frame' = Tick /\ InStage(stage'[at]) = InStage(stage[at]) \cup Under(frame)
          /\ \/ asked' = asked /\ drainAt' = drainAt
             \/ asked /\ drainAt \in DOMAIN After /\ drainAt = at /\ drainAt' = After[drainAt]
      BY <1>1, <2>4, TemporalSilent
    <3>2. Fits(at', frame', Kept(c), InStage(stage[c]), c)
      BY <3>1, FitsTick
    <3>3. Alive(c)' = Alive(c)
      BY <2>3, <3>1 DEF Alive, Under
    <3>4. Emptied(c)'
      BY <1>3, <2>1, <2>2, <3>1, EmptiedKept
    <3>5. QED
      BY <1>3, <2>1, <3>2, <3>3, <3>4
  <2>5. CASE a.out # {}
    <3>1. PICK f \in InStage(stage[at]) \cup Under(frame) :
            /\ f \in Frames /\ a.out = {f}
            /\ at' = After[at] /\ frame' = f /\ asked' = asked /\ drainAt' = drainAt
            /\ InStage(stage'[at]) = (InStage(stage[at]) \cup Under(frame)) \ {f}
            /\ Before({f}, InStage(stage'[at]))
      BY <1>1, <2>5, TemporalPuts
    <3>2. at' = "rep1" /\ f # Tick
      BY <3>1, FramesFacts DEF After
    <3>3. Before({f}, InStage(stage[c]))
      <4>1. CASE frame = Tick
        <5>1. ~ asked => at = "idle" \/ frame # Tick
          BY DEF ChainInv, Control
        <5>2. asked /\ drainAt = "tr1"
          BY <4>1, <5>1 DEF ChainInv, Control
        <5>3. InStage(stage[c]) = {}
          BY <2>1, <2>2, <5>2 DEF Emptied
        <5>4. QED
          BY <5>3 DEF Before
      <4>2. CASE frame # Tick
        <5>1. f < frame
          BY <1>1, <1>4, <3>1, <4>2, OutIsEarlier
        <5>2. InStage(stage[c]) = {frame}
          BY <2>1, <2>2, <4>2 DEF Fits
        <5>3. QED
          BY <5>1, <5>2 DEF Before
      <4>3. QED
        BY <4>1, <4>2
    <3>4. Fits(at', frame', Kept(c), InStage(stage[c]), c)
      BY <2>2, <3>1, <3>2, <3>3 DEF Fits
    <3>5. Alive(c)' = InStage(stage'[at]) \cup {f}
      BY <2>2, <3>1, <3>2 DEF Alive, Under
    <3>6. Alive(c)' = Alive(c)
      BY <2>3, <3>1, <3>5
    <3>7. Emptied(c)'
      BY <1>3, <2>1, <3>1, EmptiedKept
    <3>8. QED
      BY <1>3, <2>1, <3>4, <3>6, <3>7
  <2>6. QED
    BY <2>4, <2>5
<1>5. QED
  BY <1>2, <1>3, <1>4, Aside

(* Whichever of the three it is.                                           *)
LEMMA TemporalEnv ==
  ASSUME ChainInv, Enveloped, RunTemporal
  PROVE  Enveloped'
<1>1. at \in {"analyze", "tr1", "tr2"}
  BY DEF RunTemporal, Filters, Comps
<1>2. QED
  BY <1>1, AnalyzeEnv, FirstEnv, LastEnv

(* The frame on its way is earlier than those TR1 has, once it is past it. *)
LEMMA PastFirst ==
  ASSUME ChainInv, frame # Tick, Pos["tr1"] < Pos[at]
  PROVE  Before({frame}, InStage(stage["tr1"])) /\ frame \in Frames
<1>1. Ordered(stage, at, frame) /\ "tr1" \in Line
  BY PosFacts DEF ChainInv, Conveyed
<1>2. QED
  BY <1>1 DEF Ordered, ChainInv, Control

(* A frame whose envelope is not whole lacks it already.                   *)
LEMMA LacksOne ==
  ASSUME ChainInv, EnvRoom, frame \in Frames, at = "retouch",
         \A c \in Comps : Before({frame}, InStage(stage[c])), ~ EnvelopeOf(frame)
  PROVE  frame \in Bare
<1>1. frame # Tick
  BY FramesFacts
<1>2. frame \in Elems(refRing)
  <2>1. frame \in ChainOf(stage, frame)
    BY <1>1 DEF ChainOf, Under
  <2>2. Retains(refRing, ChainOf(stage, frame), fails, RefRoom) /\ RefRoom
    BY DEF EnvRoom, ChainInv, References
  <2>3. QED
    BY <2>1, <2>2 DEF Retains
<1>3. \E c \in Comps : frame \notin Elems(RingOf(c))
  <2>1. frame \notin Elems(backRing) \/ frame \notin Elems(forwRing)
    BY <1>2, HasFacts DEF EnvelopeOf
  <2>2. RingOf("compb") = backRing /\ RingOf("compf") = forwRing /\ Comps = {"compb", "compf"}
    BY DEF RingOf, Comps
  <2>3. QED
    BY <2>1, <2>2
<1>4. PICK c \in Comps : frame \notin Elems(RingOf(c))
  BY <1>3
<1>5. frame \notin InStage(stage[c])
  BY <1>1, FramesFacts DEF Before
<1>6. Between(at, frame, c)
  BY <1>1, EnvPos DEF Between
<1>7. frame \in Alive(c) /\ frame \notin Kept(c)
  BY <1>4, <1>5, <1>6, AliveMember DEF Kept
<1>8. QED
  BY <1>7, BareMember

(* The retouch spends the envelope of its frame and drops what is earlier. *)
LEMMA SpentEnv ==
  ASSUME ChainInv, Enveloped, RunRetouch, frame # Tick
  PROVE  Enveloped'
<1>1. /\ setting' = setting /\ fails' = fails /\ given' = given /\ stage' = stage /\ at = "retouch"
      /\ backRing' = PrunedUpTo(backRing, frame) /\ forwRing' = PrunedUpTo(forwRing, frame)
      /\ at' = "tr2" /\ frame' = frame /\ asked' = asked /\ drainAt' = drainAt
      /\ ApplyLimit
  BY DEF RunRetouch, Goes, After
<1>2. Before({frame}, InStage(stage["tr1"])) /\ frame \in Frames /\ frame \in Int
  <2>1. Pos["tr1"] < Pos[at]
    BY <1>1, EnvPos
  <2>2. Before({frame}, InStage(stage["tr1"])) /\ frame \in Frames
    BY <2>1, PastFirst
  <2>3. QED
    BY <2>2, FramesFacts
<1>3. ASSUME Limiting, NEW c \in Comps
      PROVE  /\ Before({frame}, InStage(stage[c]))
             /\ Alive(c) = InStage(stage["tr1"]) \cup {frame} /\ Alive(c)' = InStage(stage["tr1"])
             /\ RingOf(c)' = PrunedUpTo(RingOf(c), frame)
             /\ Sorted(RingOf(c)') /\ Kept(c)' = {y \in Kept(c) : frame < y}
             /\ Elems(RingOf(c)') \subseteq Elems(RingOf(c))
  <2>1. Sorted(RingOf(c)) /\ Fits(at, frame, Kept(c), InStage(stage[c]), c)
    BY <1>3 DEF Enveloped, Behind
  <2>2. Pos[c] \in {2, 3} /\ Pos["tr1"] = 4 /\ Pos["retouch"] = 6 /\ Pos["tr2"] = 7
    BY EnvPos
  <2>3. Before({frame}, InStage(stage[c]))
    BY <1>1, <2>1, <2>2 DEF Fits
  <2>4. Alive(c) = InStage(stage["tr1"]) \cup {frame} /\ Alive(c)' = InStage(stage["tr1"])
    BY <1>1, <2>2 DEF Alive, Under
  <2>5. RingOf(c)' = PrunedUpTo(RingOf(c), frame)
    BY <1>1 DEF RingOf
  <2>6. RingOf(c) \in Seq(Frames) /\ Frames \in SUBSET Int
    BY EnvTyped, FramesFacts
  <2>7. PICK q, r, f : q = RingOf(c) /\ r = RingOf(c)' /\ f = frame /\ f \in Int
    BY <1>2
  <2>8. q \in Seq(Frames) /\ r = PrunedUpTo(q, f) /\ Sorted(q) /\ f \in Int
    BY <2>1, <2>5, <2>6, <2>7
  <2>9. /\ r \in Seq(Frames) /\ Len(r) <= Len(q) /\ Elems(r) \subseteq Elems(q)
        /\ Sorted(q) => Sorted(r) /\ Elems(r) = {x \in Elems(q) : f < x}
    BY <2>6, <2>8, PrunedFacts
  <2>10. Sorted(RingOf(c)') /\ Elems(RingOf(c)') = {x \in Elems(RingOf(c)) : frame < x}
    BY <2>7, <2>8, <2>9
  <2>11. Kept(c)' = {y \in Kept(c) : frame < y}
    BY <1>1, <2>3, <2>10 DEF Kept, Before
  <2>12. QED
    BY <2>3, <2>4, <2>5, <2>10, <2>11
<1>4. ASSUME Limiting, NEW c \in Comps PROVE Behind(c)'
  <2>1. /\ Before(Elems(RingOf(c)), InStage(stage[c])) /\ Before(Kept(c), InStage(stage["analyze"]))
        /\ Kept(c) \subseteq 0 .. given - 1 /\ Emptied(c)
    BY <1>4 DEF Enveloped, Behind
  <2>2. Pos[c] \in {2, 3} /\ Pos["tr1"] = 4 /\ Pos["retouch"] = 6 /\ Pos["tr2"] = 7
    BY EnvPos
  <2>3. Fits(at', frame', Kept(c)', InStage(stage'[c]), c)
    BY <1>1, <2>2 DEF Fits
  <2>4. Emptied(c)'
    BY <1>1, <2>1, EmptiedKept
  <2>5. Kept(c)' \subseteq Kept(c) /\ Elems(RingOf(c)') \subseteq Elems(RingOf(c)) /\ Sorted(RingOf(c)')
    BY <1>3, <1>4
  <2>6. Before(Elems(RingOf(c)'), InStage(stage'[c])) /\ Before(Kept(c)', InStage(stage'["analyze"]))
    BY <1>1, <2>1, <2>5 DEF Before
  <2>7. Kept(c)' \subseteq 0 .. given' - 1
    BY <1>1, <2>1, <2>5
  <2>8. QED
    BY <2>3, <2>4, <2>5, <2>6, <2>7 DEF Behind
<1>5. ASSUME Limiting, NEW c \in Comps PROVE Cardinality(Inner(Kept(c)', Alive(c)')) <= fails'
  <2>1. PICK K, V, K2, V2, n, U : /\ K = Kept(c) /\ V = Alive(c) /\ K2 = Kept(c)' /\ V2 = Alive(c)' /\ n = fails
                                  /\ U = {}
    OBVIOUS
  <2>2. K \subseteq Int /\ V \subseteq Int /\ IsFiniteSet(K) /\ n \in Nat
    <3>1. fails \in Nat
      BY <1>1, RoomLess DEF ChainInv
    <3>2. QED
      BY <2>1, <3>1, EnvTyped, FramesFacts
  <2>3. Cardinality(Inner(K, V)) <= n
    BY <1>5, <2>1 DEF Enveloped, Bounded
  <2>4. K2 \subseteq K \cup U /\ V2 \subseteq V \cup U /\ \A v \in V \ V2 : Before({v}, V2)
    BY <1>2, <1>3, <1>5, <2>1
  <2>5. U \subseteq Int /\ U \subseteq V2 /\ Before(K, U)
    BY <2>1 DEF Before
  <2>6. Cardinality(Inner(K2, V2)) <= n
    BY <2>2, <2>3, <2>4, <2>5, InnerKept
  <2>7. QED
    BY <1>1, <2>1, <2>6
<1>6. ASSUME Limiting, EnvRoom PROVE Bare' \subseteq Bare
  <2>1. ASSUME NEW x \in unlimited' PROVE x \in Bare
    <3>1. CASE x \in unlimited
      BY <3>1, BareMember
    <3>2. CASE x \notin unlimited
      <4>1. x = frame /\ ~ EnvelopeOf(frame)
        BY <1>1, <2>1, <3>2 DEF ApplyLimit
      <4>2. \A c \in Comps : Before({frame}, InStage(stage[c]))
        BY <1>3, <1>6
      <4>3. QED
        BY <1>1, <1>2, <1>6, <4>1, <4>2, LacksOne
    <3>3. QED
      BY <3>1, <3>2
  <2>2. ASSUME NEW c \in Comps, NEW x \in Alive(c)', x \notin Kept(c)' PROVE x \in Bare
    <3>1. x \in InStage(stage["tr1"]) /\ x \in Alive(c) /\ x \notin {y \in Kept(c) : frame < y}
      BY <1>3, <1>6, <2>2
    <3>2. frame < x
      BY <1>2, <3>1 DEF Before
    <3>3. QED
      BY <3>1, <3>2, BareMember
  <2>3. QED
    BY <2>1, <2>2, BareMemberNext
<1>7. setting.limit \/ unlimited' = unlimited
  BY <1>1 DEF ApplyLimit
<1>8. QED
  BY <1>1, <1>4, <1>5, <1>6, <1>7, EnvelopedNext

(* The retouch runs.                                                       *)
LEMMA RetouchEnv ==
  ASSUME ChainInv, Enveloped, RunRetouch
  PROVE  Enveloped'
<1>1. CASE frame # Tick
  BY <1>1, SpentEnv
<1>2. CASE frame = Tick
  <2>1. at = "retouch" /\ at \in DOMAIN After /\ at \notin Comps /\ at # "tr1"
    BY DEF RunRetouch, After, Comps
  <2>2. QED
    BY <1>2, <2>1, MovedEnv DEF RunRetouch
<1>3. QED
  BY <1>1, <1>2

(* A step that fails: of each pass's frames only y has become useless, if  *)
(* it is not the first there was.                                          *)
Spoils(c, y) ==
  /\ Kept(c)' \subseteq Kept(c) \cup {y} /\ Alive(c)' \subseteq Alive(c)
  /\ \A v \in Alive(c) \ Alive(c)' : v = y \/ Before({v}, Alive(c)')

(* Such a step costs one frame its envelope, and one is useless more.      *)
LEMMA BrokenEnv ==
  ASSUME ChainInv, Enveloped, CallFails, setting' = setting, setting.limit \/ unlimited' = unlimited,
         Limiting => \A c \in Comps : Behind(c)' /\ \E y : Spoils(c, y),
         Limiting /\ EnvRoom => \E h : Bare' \subseteq Bare \cup {h}
  PROVE  Enveloped'
<1>1. fails' = fails + 1 /\ fails \in Nat
  BY RoomLess DEF CallFails, ChainInv
<1>2. ASSUME Limiting, NEW c \in Comps PROVE Cardinality(Inner(Kept(c)', Alive(c)')) <= fails'
  <2>1. PICK y : Spoils(c, y)
    BY <1>2
  <2>2. PICK K, V, K2, V2, n : K = Kept(c) /\ V = Alive(c) /\ K2 = Kept(c)' /\ V2 = Alive(c)' /\ n = fails
    OBVIOUS
  <2>3. K \subseteq Int /\ V \subseteq Int /\ IsFiniteSet(K) /\ n \in Nat
    BY <1>1, <2>2, EnvTyped, FramesFacts
  <2>4. Cardinality(Inner(K, V)) <= n
    BY <1>2, <2>2 DEF Enveloped, Bounded
  <2>5. K2 \subseteq Int
    <3>1. Behind(c)'
      BY <1>2
    <3>2. K2 \subseteq 0 .. given' - 1
      BY <2>2, <3>1 DEF Behind
    <3>3. QED
      BY <3>2
  <2>6. K2 \subseteq K \cup {y} /\ V2 \subseteq V /\ \A v \in V \ V2 : v = y \/ Before({v}, V2)
    BY <2>1, <2>2 DEF Spoils
  <2>7. Cardinality(Inner(K2, V2)) <= n + 1
    BY <2>3, <2>4, <2>5, <2>6, InnerMore
  <2>8. QED
    BY <1>1, <2>2, <2>7
<1>3. QED
  BY <1>1, <1>2, EnvelopedNext

(* A repair, the retouch or the sink fails, and its frame is gone.         *)
LEMMA StepFailsEnv ==
  ASSUME ChainInv, Enveloped, StepFails
  PROVE  Enveloped'
<1>1. /\ setting' = setting /\ given' = given /\ stage' = stage /\ CallFails /\ ApplyLimit
      /\ backRing' = backRing /\ forwRing' = forwRing /\ frame # Tick
      /\ frame' = Tick /\ asked' = asked /\ drainAt' = drainAt
  BY DEF StepFails, rings, CallFails
<1>2. Before({frame}, InStage(stage["tr1"]))
  <2>1. Pos["tr1"] < Pos[at]
    BY EnvPos, PosFacts DEF StepFails, Repairs
  <2>2. QED
    BY <1>1, <2>1, PastFirst
<1>3. ASSUME Limiting, NEW c \in Comps
      PROVE  Behind(c)' /\ Kept(c)' = Kept(c) /\ Spoils(c, frame) /\ Alive(c)' \subseteq Alive(c)
  <2>1. Behind(c) /\ Before(Kept(c), InStage(stage'["analyze"])) /\ Emptied(c)
    BY <1>1, <1>3 DEF Enveloped, Behind
  <2>2. Fits(at', frame', Kept(c), InStage(stage[c]), c) /\ Emptied(c)'
    BY <1>1, <2>1, FitsTick, EmptiedKept
  <2>3. RingOf(c)' = RingOf(c)
    BY <1>1 DEF RingOf
  <2>4. Behind(c)' /\ Kept(c)' = Kept(c)
    BY <1>1, <2>1, <2>2, <2>3, BehindKept
  <2>5. \A x : x \in Alive(c)' <=> x \in InStage(stage["tr1"])
    BY <1>1, FitsTick, AliveMemberNext
  <2>6. \A x : x \in Alive(c) => x \in InStage(stage["tr1"]) \/ x = frame
    BY AliveMember
  <2>7. \A x : x \in InStage(stage["tr1"]) => x \in Alive(c)
    BY AliveMember
  <2>8. QED
    BY <2>4, <2>5, <2>6, <2>7 DEF Spoils
<1>4. ASSUME Limiting PROVE Bare' \subseteq Bare \cup {frame}
  <2>1. unlimited' \subseteq unlimited \cup {frame}
    BY <1>1 DEF ApplyLimit
  <2>2. \A c \in Comps : Kept(c)' = Kept(c) /\ Alive(c)' \subseteq Alive(c)
    BY <1>3, <1>4
  <2>3. QED
    BY <2>1, <2>2, BareMember, BareMemberNext
<1>5. setting.limit \/ unlimited' = unlimited
  BY <1>1 DEF ApplyLimit
<1>6. QED
  BY <1>1, <1>3, <1>4, <1>5, BrokenEnv

(* The analysis, TR1 or TR2 fails.                                         *)
LEMMA LineFailsEnv ==
  ASSUME ChainInv, Enveloped, FilterFails, at \in Line
  PROVE  Enveloped'
<1>1. /\ setting' = setting /\ given' = given /\ unlimited' = unlimited /\ CallFails
      /\ backRing' = backRing /\ forwRing' = forwRing
      /\ frame' = Tick /\ asked' = asked /\ drainAt' = drainAt /\ fails' = fails + 1
  BY DEF FilterFails, rings, missed, CallFails
<1>2. PICK left : left \in StageAfterFailure(stage[at], Answer(at)) /\ stage' = [stage EXCEPT ![at] = left]
  BY DEF FilterFails
<1>3. Leaves(InStage(stage[at]) \cup Under(frame), left)
  BY <1>2, FailureOrdered DEF ChainInv, Counted, Control
<1>4. /\ stage'[at] = left /\ \A s \in Filters : s # at => stage'[s] = stage[s]
      /\ at \in Filters /\ \A c \in Comps : c \in Filters /\ c # at
  <2>1. at \in Filters /\ \A c \in Comps : c \in Filters /\ c # at
    BY PosFacts
  <2>2. QED
    BY <1>2, <2>1 DEF ChainInv, StagesOK
<1>5. \A c \in Comps : stage'[c] = stage[c]
  BY <1>4
<1>6. PICK x, y : /\ InStage(left) \subseteq InStage(stage[at]) \cup Under(frame)
                  /\ (InStage(stage[at]) \cup Under(frame)) \ InStage(left) \subseteq {x, y}
                  /\ y = x \/ Before({y}, InStage(left))
  BY <1>3 DEF Leaves
<1>7. ASSUME Limiting, NEW c \in Comps
      PROVE  /\ Before(Kept(c), InStage(stage'["analyze"]))
             /\ Fits(at', frame', Kept(c), InStage(stage[c]), c)
             /\ Emptied(c)' /\ Behind(c) /\ RingOf(c)' = RingOf(c)
             /\ \A z : z \in Alive(c)' <=> z \in InStage(stage'["tr1"])
  <2>1. Behind(c) /\ Before(Kept(c), InStage(stage["analyze"])) /\ Emptied(c) /\ Fits(at, frame, Kept(c), InStage(stage[c]), c)
    BY <1>7 DEF Enveloped, Behind
  <2>2. Fits(at', frame', Kept(c), InStage(stage[c]), c) /\ Emptied(c)'
    BY <1>1, <1>5, <2>1, FitsTick, EmptiedKept
  <2>3. Before(Kept(c), InStage(stage'["analyze"]))
    <3>1. CASE at = "analyze"
      <4>1. Pos["analyze"] <= Pos[c]
        BY EnvPos
      <4>2. Before(Kept(c), InStage(stage[at]) \cup Under(frame))
        BY <2>1, <3>1, <4>1 DEF Fits, Before, Under
      <4>3. QED
        BY <1>4, <1>6, <3>1, <4>2 DEF Before
    <3>2. CASE at # "analyze"
      BY <1>4, <2>1, <3>2, PosFacts
    <3>3. QED
      BY <3>1, <3>2
  <2>4. \A z : z \in Alive(c)' <=> z \in InStage(stage'["tr1"])
    BY <1>1, FitsTick, AliveMemberNext
  <2>5. RingOf(c)' = RingOf(c)
    BY <1>1 DEF RingOf
  <2>6. QED
    BY <2>1, <2>2, <2>3, <2>4, <2>5
<1>8. ASSUME Limiting, NEW c \in Comps PROVE Behind(c)' /\ Kept(c)' = Kept(c)
  BY <1>1, <1>5, <1>7, <1>8, BehindKept
<1>9. CASE at = "tr1"
  <2>1. ASSUME Limiting, NEW c \in Comps PROVE Alive(c)' = InStage(left) /\ Alive(c) = InStage(stage[at]) \cup Under(frame)
    <3>1. Alive(c) = InStage(stage[at]) \cup Under(frame)
      <4>1. Pos[c] < Pos[at] /\ Pos[at] <= Pos["retouch"]
        BY <1>9, EnvPos
      <4>2. QED
        BY <1>9, <4>1 DEF Alive, Under
    <3>2. QED
      BY <1>4, <1>7, <1>9, <2>1, <3>1
  <2>2. ASSUME Limiting, NEW c \in Comps PROVE Spoils(c, x)
    BY <1>6, <1>8, <2>1, <2>2 DEF Spoils
  <2>3. ASSUME Limiting PROVE Bare' \subseteq Bare \cup {x}
    <3>1. \A c \in Comps : Kept(c)' = Kept(c) /\ Alive(c)' \subseteq Alive(c)
      BY <1>8, <2>2, <2>3 DEF Spoils
    <3>2. QED
      BY <1>1, <3>1, BareMember, BareMemberNext
  <2>4. QED
    BY <1>1, <1>8, <2>2, <2>3, BrokenEnv
<1>10. CASE at # "tr1"
  <2>1. InStage(stage'["tr1"]) = InStage(stage["tr1"])
    BY <1>4, <1>10, PosFacts
  <2>2. ASSUME Limiting, NEW c \in Comps PROVE Alive(c)' = Alive(c)
    <3>1. ~ Between(at, frame, c)
      <4>1. at = "analyze" \/ at = "tr2"
        BY <1>10 DEF Line
      <4>2. QED
        BY <4>1, EnvPos DEF Between
    <3>2. ~ Between(at', frame', c)
      BY <1>1, FitsTick
    <3>3. QED
      BY <2>1, <3>1, <3>2, AliveKept
  <2>3. QED
    BY <1>1, <1>5, <1>7, <2>2, Aside
<1>11. QED
  BY <1>9, <1>10

(* A compensating pass that is given a frame, or a tick, puts out the one  *)
(* it has, and has the frame then.                                         *)
CompAnswer(c) ==
  /\ Answer(c).out = InStage(stage[c])
  /\ InStage([hold |-> Answer(c).hold, pending |-> Answer(c).pending]) = Under(frame)
  /\ \A x \in StageAfterFailure(stage[c], Answer(c)) :
       InStage(x) = InStage(stage[c]) \/ InStage(x) = Under(frame)
  /\ InStage(stage[c]) = {} \/ \E h \in Frames : InStage(stage[c]) = {h}

(* It does so because it holds one frame back.                             *)
LEMMA CompAnswers ==
  ASSUME ChainInv, setting.limit, NEW c \in Comps
  PROVE  CompAnswer(c)
<1>1. /\ Delay(c) = 1 /\ PipelineDepth(c) = 0
      /\ stage[c] \in Holding(Frames) /\ Len(stage[c].hold) <= 1 /\ Len(stage[c].pending) <= 0
  BY CompStage
<1>2. frame \in Frames \cup {Tick} /\ Frames \in SUBSET Int /\ Tick \notin Frames
  BY FramesFacts DEF ChainInv, Control
<1>3. PICK st : st = stage[c]
  OBVIOUS
<1>4. st \in Holding(Frames) /\ Len(st.hold) <= 1 /\ Len(st.pending) <= 0
  BY <1>1, <1>3
<1>5. /\ \A f \in Frames :
           /\ InStage(StageFed(st, f, 1, 0)) = {f}
           /\ StageFed(st, f, 1, 0).out = InStage(st)
           /\ \A x \in StageAfterFailure(st, StageFed(st, f, 1, 0)) :
                InStage(x) = InStage(st) \/ InStage(x) = {f}
      /\ InStage(StageTicked(st, 0)) = {}
      /\ StageTicked(st, 0).out = InStage(st)
      /\ \A x \in StageAfterFailure(st, StageTicked(st, 0)) :
           InStage(x) = InStage(st) \/ InStage(x) = {}
      /\ InStage(st) = {} \/ \E h \in Frames : InStage(st) = {h}
  BY <1>2, <1>4, HoldsOne
<1>6. PICK a : a = Answer(c)
  OBVIOUS
<1>7. InStage([hold |-> a.hold, pending |-> a.pending]) = InStage(a)
  BY DEF InStage
<1>8. CASE frame = Tick
  <2>1. a = StageTicked(st, 0) /\ Under(frame) = {}
    BY <1>1, <1>3, <1>6, <1>8 DEF Answer, Ticked, Under
  <2>2. QED
    BY <1>3, <1>5, <1>6, <1>7, <2>1 DEF CompAnswer
<1>9. CASE frame \in Frames
  <2>1. a = StageFed(st, frame, 1, 0) /\ Under(frame) = {frame}
    BY <1>1, <1>2, <1>3, <1>6, <1>9 DEF Answer, Fed, Under
  <2>2. QED
    BY <1>3, <1>5, <1>6, <1>7, <1>9, <2>1 DEF CompAnswer
<1>10. QED
  BY <1>2, <1>8, <1>9

(* The frame the pass gets is later than all it has been given, and        *)
(* earlier than what the analysis has.  drain() is not past the pass.      *)
LEMMA CompGets ==
  ASSUME ChainInv, NEW c \in Comps, c = at, Behind(c)
  PROVE  /\ Before(Kept(c), Under(frame)) /\ Before(Under(frame), InStage(stage["analyze"]))
         /\ Under(frame) \subseteq 0 .. given - 1
         /\ ~ (asked /\ Pos[c] < Pos[drainAt])
<1>1. Fits(at, frame, Kept(c), InStage(stage[c]), c) /\ Ordered(stage, at, frame) /\ "analyze" \in Line
  BY PosFacts DEF Behind, ChainInv, Conveyed
<1>2. Pos[at] \in {2, 3} /\ Pos["analyze"] = 1 /\ at # "idle"
  BY EnvPos
<1>3. Before(Kept(c), Under(frame))
  BY <1>1, <1>2 DEF Fits, Under, Before
<1>4. Before(Under(frame), InStage(stage["analyze"]))
  BY <1>1, <1>2 DEF Ordered, Under, Before
<1>5. Under(frame) \subseteq 0 .. given - 1
  BY DEF ChainInv, Conveyed, ChainOf
<1>6. ASSUME asked, Pos[c] < Pos[drainAt] PROVE FALSE
  <2>1. frame = Tick => at = drainAt
    BY <1>2, <1>6 DEF ChainInv, Control
  <2>2. frame # Tick => Pos[drainAt] < Pos[at]
    BY <1>6 DEF ChainInv, Control
  <2>3. drainAt \in Places
    BY DEF ChainInv, Control
  <2>4. Pos[drainAt] \in 0 .. 9
    BY <2>3, PosFacts
  <2>5. QED
    BY <1>2, <1>6, <2>1, <2>2, <2>4
<1>7. QED
  BY <1>3, <1>4, <1>5, <1>6

(* The ring of the pass takes what the pass puts out, if anything.         *)
LEMMA CompBehind ==
  ASSUME ChainInv, NEW c \in Comps, c = at, Behind(c), given' = given,
         stage'["analyze"] = stage["analyze"], Sorted(RingOf(c)'),
         \/ /\ Elems(RingOf(c)') \subseteq Kept(c) /\ InStage(stage'[c]) = Under(frame)
         \/ RingOf(c)' = RingOf(c) /\ InStage(stage'[c]) = InStage(stage[c]),
         \/ frame' = Tick
         \/ frame' = frame /\ at' = After[at] /\ InStage(stage'[c]) = Under(frame),
         Emptied(c)'
  PROVE  Behind(c)' /\ Kept(c)' \subseteq Kept(c) \cup Under(frame)
<1>1. /\ Before(Kept(c), Under(frame)) /\ Before(Under(frame), InStage(stage["analyze"]))
      /\ Under(frame) \subseteq 0 .. given - 1
  BY CompGets
<1>2. /\ Before(Elems(RingOf(c)), InStage(stage[c])) /\ Before(Kept(c), InStage(stage["analyze"]))
      /\ Kept(c) \subseteq 0 .. given - 1
  BY DEF Behind
<1>3. Kept(c)' \subseteq Kept(c) \cup Under(frame)
  BY DEF Kept
<1>4. Before(Elems(RingOf(c)'), InStage(stage'[c]))
  BY <1>1, <1>2 DEF Before
<1>5. Before(Kept(c)', InStage(stage'["analyze"]))
  BY <1>1, <1>2, <1>3 DEF Before
<1>6. Kept(c)' \subseteq 0 .. given' - 1
  BY <1>1, <1>2, <1>3
<1>7. Fits(at', frame', Kept(c)', InStage(stage'[c]), c)
  <2>1. CASE frame' = Tick
    BY <2>1, FitsTick
  <2>2. CASE frame' = frame /\ at' = After[at] /\ InStage(stage'[c]) = Under(frame)
    <3>1. Pos[at'] = Pos[c] + 1 /\ Pos[c] \in {2, 3} /\ Pos["tr1"] = 4
      BY <2>2, EnvPos, PosFacts
    <3>2. QED
      BY <2>2, <3>1 DEF Fits, Under
  <2>3. QED
    BY <2>1, <2>2
<1>8. QED
  BY <1>3, <1>4, <1>5, <1>6, <1>7 DEF Behind

(* The other pass is left alone.                                           *)
LEMMA OtherComp ==
  ASSUME ChainInv, NEW d \in Comps, at \in Comps, d # at, Behind(d), RingOf(d)' = RingOf(d),
         stage'[d] = stage[d], stage'["analyze"] = stage["analyze"], given' = given,
         frame' = Tick \/ (frame' = frame /\ at' = After[at]),
         \/ asked' = asked /\ drainAt' = drainAt
         \/ asked /\ drainAt = at /\ drainAt' = After[drainAt]
  PROVE  /\ Behind(d)' /\ Kept(d)' = Kept(d)
         /\ frame' # Tick => (Between(at', frame', d) <=> Between(at, frame, d))
<1>1. Before(Kept(d), InStage(stage["analyze"])) /\ Emptied(d) /\ Fits(at, frame, Kept(d), InStage(stage[d]), d)
  BY DEF Behind
<1>2. at \in DOMAIN After /\ at # "tr1" /\ at # "retouch"
  BY DEF After, Comps
<1>3. /\ Fits(at', frame', Kept(d), InStage(stage[d]), d)
      /\ frame' # Tick => (Between(at', frame', d) <=> Between(at, frame, d))
  <2>1. CASE frame' = Tick
    BY <2>1, FitsTick
  <2>2. CASE frame' = frame /\ at' = After[at]
    <3>1. /\ Fits(After[at], frame, Kept(d), InStage(stage[d]), d)
          /\ Between(After[at], frame, d) <=> Between(at, frame, d)
      BY <1>1, <1>2, FitsOn
    <3>2. QED
      BY <2>2, <3>1
  <2>3. QED
    BY <2>1, <2>2
<1>4. Emptied(d)'
  BY <1>1, <1>2, EmptiedKept
<1>5. QED
  BY <1>1, <1>3, <1>4, BehindKept

(* Room is made for a frame, and it is taken.                              *)
LEMMA RoomTaken ==
  ASSUME NEW S \in SUBSET Int, NEW q \in Seq(S), NEW size \in Nat \ {0}, Len(q) <= size, NEW h \in S,
         Sorted(q), Before(Elems(q), {h}), NEW m, m = Room(q, size), NEW r, r = Retained(q, size, h)
  PROVE  Sorted(m) /\ Sorted(r) /\ Elems(r) = Elems(m) \cup {h} /\ Elems(m) \subseteq Elems(q)
<1>1. /\ m \in Seq(S) /\ Len(m) <= Len(q) /\ Len(m) < size /\ Elems(m) \subseteq Elems(q)
      /\ Len(q) < size => m = q
      /\ Sorted(q) => Sorted(m)
  BY RoomFacts
<1>2. r = Append(m, h)
  BY DEF Retained
<1>3. m \in Seq(S)
  BY <1>1
<1>4. /\ Append(m, h) \in Seq(S) /\ Len(Append(m, h)) = Len(m) + 1
      /\ Elems(Append(m, h)) = Elems(m) \cup {h}
      /\ Sorted(m) /\ Before(Elems(m), {h}) => Sorted(Append(m, h))
  BY <1>3, AppendElems
<1>5. Before(Elems(m), {h})
  BY <1>1 DEF Before
<1>6. QED
  BY <1>1, <1>2, <1>4, <1>5

(* The ring of a pass that puts h out, as it makes room for it and as it   *)
(* takes it.                                                               *)
LEMMA CompTakes ==
  ASSUME ChainInv, Enveloped, Limiting, NEW c \in Comps, c = at,
         NEW h \in Frames, InStage(stage[c]) = {h},
         NEW q, q = RingOf(c), NEW m, m = Room(q, CompPool), NEW r, r = Retained(q, CompPool, h)
  PROVE  /\ Sorted(m) /\ Elems(m) \subseteq Kept(c)
         /\ Sorted(r) /\ Elems(r) \subseteq Kept(c)
         /\ EnvRoom => \A x \in Kept(c) \cap InStage(stage["tr1"]) : x \in Elems(r) /\ x \in Elems(m) \cup {h}
<1>1. /\ Sorted(q) /\ Before(Elems(q), {h}) /\ Kept(c) = Elems(q) \cup {h}
  BY DEF Enveloped, Behind, Kept
<1>2. q \in Seq(Frames) /\ Len(q) <= CompPool /\ CompPool \in Nat \ {0} /\ Frames \in SUBSET Int
  BY EnvTyped, FramesFacts, ChainAssumption
<1>3. Sorted(m) /\ Sorted(r) /\ Elems(r) = Elems(m) \cup {h} /\ Elems(m) \subseteq Elems(q)
  BY <1>1, <1>2, RoomTaken
<1>4. ASSUME EnvRoom PROVE Elems(q) \cap InStage(stage["tr1"]) \subseteq Elems(m)
  <2>1. PICK V, L, n : V = InStage(stage["tr1"]) /\ L = Lag("tr1") /\ n = fails
    OBVIOUS
  <2>2. IsFiniteSet(V) /\ V \subseteq Int /\ L \in Nat /\ Cardinality(V) <= L
    BY <2>1, EnvTyped, FramesFacts
  <2>3. n \in Nat /\ n <= CompPool - L
    BY <1>4, <2>1, ChainAssumption DEF EnvRoom, ChainInv, Counted
  <2>4. Alive(c) = V
    <3>1. ~ (Pos[c] < Pos[at])
      BY EnvPos
    <3>2. QED
      BY <2>1, <3>1 DEF Alive
  <2>5. Cardinality(Inner(Elems(q) \cup {h}, V)) <= n
    <3>1. Cardinality(Inner(Kept(c), Alive(c))) <= fails
      BY DEF Enveloped, Bounded
    <3>2. QED
      BY <1>1, <2>1, <2>4, <3>1
  <2>6. Elems(q) \cap V \subseteq Elems(m)
    BY <1>1, <1>2, <2>2, <2>3, <2>5, NotEvicted
  <2>7. QED
    BY <2>1, <2>6
<1>5. QED
  BY <1>1, <1>3, <1>4

(* The rings after a step of a compensating pass.                          *)
LEMMA RingsTake ==
  ASSUME NEW c \in Comps, NEW h, KeepComp(c, h)
  PROVE  /\ RingOf(c)' = Retained(RingOf(c), CompPool, h)
         /\ \A d \in Comps : d # c => RingOf(d)' = RingOf(d)
BY DEF KeepComp, RingOf, Comps

(* The ring makes room for a frame and does not take it.                   *)
LEMMA RingsMakeRoom ==
  ASSUME NEW c \in Comps,
         backRing' = (IF c = "compb" THEN Room(backRing, CompPool) ELSE backRing),
         forwRing' = (IF c = "compf" THEN Room(forwRing, CompPool) ELSE forwRing)
  PROVE  /\ RingOf(c)' = Room(RingOf(c), CompPool)
         /\ \A d \in Comps : d # c => RingOf(d)' = RingOf(d)
BY DEF RingOf, Comps

(* What a step of a compensating pass leaves alone.                        *)
LEMMA CompAlone ==
  ASSUME ChainInv, at \in Comps, NEW x, stage' = [stage EXCEPT ![at] = x]
  PROVE  /\ stage'[at] = x /\ stage'["analyze"] = stage["analyze"] /\ stage'["tr1"] = stage["tr1"]
         /\ \A d \in Comps : d # at => stage'[d] = stage[d]
<1>1. /\ at \in Filters /\ "analyze" \in Filters /\ "tr1" \in Filters /\ Comps \subseteq Filters
      /\ at # "analyze" /\ at # "tr1"
  BY EnvPos, PosFacts
<1>2. QED
  BY <1>1 DEF ChainInv, StagesOK

(* How a compensating pass takes a frame, or a tick, to the next stage.    *)
CompGoes ==
  \/ frame # Tick /\ at' = After[at] /\ frame' = frame /\ asked' = asked /\ drainAt' = drainAt
  \/ /\ frame = Tick /\ frame' = Tick
     /\ \/ asked' = asked /\ drainAt' = drainAt
        \/ asked /\ drainAt = at /\ drainAt' = After[drainAt]

(* What the pass makes of its ring.                                        *)
CompLeaves(c) ==
  /\ Sorted(RingOf(c)') /\ Elems(RingOf(c)') \subseteq Kept(c)
  /\ EnvRoom => Kept(c) \cap InStage(stage["tr1"]) \subseteq Elems(RingOf(c)')
  /\ InStage(stage'[c]) = Under(frame)
  /\ \A d \in Comps : d # c => RingOf(d)' = RingOf(d)

(* That is what it does when it runs.                                      *)
LEMMA CompRuns ==
  ASSUME ChainInv, Enveloped, RunComp, Limiting, NEW c \in Comps, c = at
  PROVE  /\ CompGoes /\ CompLeaves(c)
         /\ stage'["analyze"] = stage["analyze"] /\ stage'["tr1"] = stage["tr1"]
         /\ \A d \in Comps : d # at => stage'[d] = stage[d]
<1>1. at \in Comps /\ at \in DOMAIN After /\ setting.limit /\ Behind(c)
  BY PosFacts, EnvPos DEF RunComp, Limiting, Enveloped
<1>2. CompAnswer(at)
  BY <1>1, CompAnswers
<1>3. PICK x : x = [hold |-> Answer(at).hold, pending |-> Answer(at).pending]
  OBVIOUS
<1>4. stage' = [stage EXCEPT ![at] = x]
  BY <1>3 DEF RunComp, Left
<1>5. /\ stage'[at] = x /\ stage'["analyze"] = stage["analyze"] /\ stage'["tr1"] = stage["tr1"]
      /\ \A d \in Comps : d # at => stage'[d] = stage[d]
  BY <1>1, <1>4, CompAlone
<1>6. InStage(stage'[at]) = Under(frame)
  BY <1>2, <1>3, <1>5 DEF CompAnswer
<1>7. CompGoes
  <2>1. CASE frame # Tick
    <3>1. Goes(After[at], frame)
      BY <2>1 DEF RunComp
    <3>2. QED
      BY <2>1, <3>1 DEF Goes, CompGoes
  <2>2. CASE frame = Tick
    <3>1. StageDrained \/ CascadeEnds
      BY <2>2 DEF RunComp
    <3>2. StageDrained => asked /\ drainAt = at
      BY <1>1, <2>2, ControlDrained DEF ChainInv
    <3>3. QED
      BY <2>2, <3>1, <3>2 DEF StageDrained, CascadeEnds, CompGoes
  <2>3. QED
    BY <2>1, <2>2
<1>8. CompLeaves(c)
  <2>1. /\ \/ \E f \in Answer(at).out : KeepComp(at, f)
           \/ Answer(at).out = {} /\ backRing' = backRing /\ forwRing' = forwRing
    BY DEF RunComp
  <2>2. CASE InStage(stage[c]) = {}
    <3>1. \A d \in Comps : RingOf(d)' = RingOf(d)
      BY <1>2, <2>1, <2>2 DEF CompAnswer, RingOf
    <3>2. Kept(c) = Elems(RingOf(c)) /\ Sorted(RingOf(c))
      BY <1>1, <2>2 DEF Kept, Behind
    <3>3. QED
      BY <1>1, <1>6, <3>1, <3>2 DEF CompLeaves
  <2>3. CASE \E h \in Frames : InStage(stage[c]) = {h}
    <3>1. PICK h \in Frames : InStage(stage[c]) = {h}
      BY <2>3
    <3>2. KeepComp(c, h)
      BY <1>2, <2>1, <3>1 DEF CompAnswer
    <3>3. RingOf(c)' = Retained(RingOf(c), CompPool, h) /\ \A d \in Comps : d # c => RingOf(d)' = RingOf(d)
      BY <1>1, <3>2, RingsTake
    <3>4. PICK q, m, r : /\ q = RingOf(c) /\ m = Room(RingOf(c), CompPool)
                         /\ r = Retained(RingOf(c), CompPool, h)
      OBVIOUS
    <3>5. InStage(stage[c]) = {h} /\ q = RingOf(c) /\ m = Room(q, CompPool) /\ r = Retained(q, CompPool, h)
      BY <1>1, <3>1, <3>4
    <3>6. /\ Sorted(m) /\ Elems(m) \subseteq Kept(c)
          /\ Sorted(r) /\ Elems(r) \subseteq Kept(c)
          /\ EnvRoom => \A y \in Kept(c) \cap InStage(stage["tr1"]) : y \in Elems(r) /\ y \in Elems(m) \cup {h}
      BY <3>4, <3>5, CompTakes
    <3>7. QED
      BY <1>6, <3>3, <3>4, <3>6 DEF CompLeaves
  <2>4. QED
    BY <1>2, <2>2, <2>3 DEF CompAnswer
<1>9. QED
  BY <1>1, <1>5, <1>7, <1>8

(* A compensating pass runs.                                               *)
LEMMA CompEnv ==
  ASSUME ChainInv, Enveloped, RunComp
  PROVE  Enveloped'
<1>1. setting' = setting /\ fails' = fails /\ given' = given /\ unlimited' = unlimited
  BY DEF RunComp, missed
<1>2. ASSUME Limiting
      PROVE  /\ CompGoes /\ at \in Comps /\ \A c \in Comps : c = at => CompLeaves(c)
             /\ stage'["analyze"] = stage["analyze"] /\ stage'["tr1"] = stage["tr1"]
             /\ \A d \in Comps : d # at => stage'[d] = stage[d]
  <2>1. PICK c \in Comps : c = at
    BY DEF RunComp
  <2>2. /\ CompGoes /\ CompLeaves(c)
        /\ stage'["analyze"] = stage["analyze"] /\ stage'["tr1"] = stage["tr1"]
        /\ \A d \in Comps : d # at => stage'[d] = stage[d]
    BY <1>2, <2>1, CompRuns
  <2>3. QED
    BY <2>1, <2>2
<1>3. ASSUME Limiting, NEW d \in Comps, d # at
      PROVE  Behind(d)' /\ Kept(d)' = Kept(d) /\ Alive(d)' = Alive(d)
  <2>1. Behind(d) /\ RingOf(d)' = RingOf(d) /\ stage'[d] = stage[d]
    <3>1. PICK c \in Comps : c = at
      BY <1>2, <1>3
    <3>2. CompLeaves(c)
      BY <1>2, <1>3, <3>1
    <3>3. QED
      BY <1>2, <1>3, <3>1, <3>2 DEF Enveloped, CompLeaves
  <2>2. /\ frame' = Tick \/ (frame' = frame /\ at' = After[at])
        /\ \/ asked' = asked /\ drainAt' = drainAt
           \/ asked /\ drainAt = at /\ drainAt' = After[drainAt]
    BY <1>2, <1>3 DEF CompGoes
  <2>3. /\ Behind(d)' /\ Kept(d)' = Kept(d)
        /\ frame' # Tick => (Between(at', frame', d) <=> Between(at, frame, d))
    BY <1>1, <1>2, <1>3, <2>1, <2>2, OtherComp
  <2>4. Alive(d)' = Alive(d)
    <3>1. frame' = frame
      BY <1>2, <1>3 DEF CompGoes
    <3>2. Between(at', frame', d) <=> Between(at, frame, d)
      BY <2>3, <3>1, FitsTick
    <3>3. QED
      BY <1>2, <1>3, <3>1, <3>2, AliveKept
  <2>5. QED
    BY <2>3, <2>4
<1>4. ASSUME Limiting, NEW c \in Comps, c = at
      PROVE  /\ Behind(c)' /\ Kept(c)' \subseteq Kept(c) \cup Under(frame) /\ Before(Kept(c), Under(frame))
             /\ Alive(c) = InStage(stage["tr1"]) /\ Alive(c)' = InStage(stage["tr1"]) \cup Under(frame)
             /\ Kept(c)' = Elems(RingOf(c)') \cup Under(frame)
             /\ EnvRoom => Kept(c) \cap InStage(stage["tr1"]) \subseteq Kept(c)'
  <2>1. Sorted(RingOf(c)') /\ Elems(RingOf(c)') \subseteq Kept(c) /\ InStage(stage'[c]) = Under(frame) /\ Behind(c)
    BY <1>2, <1>4 DEF CompLeaves, Enveloped
  <2>2. Before(Kept(c), Under(frame)) /\ ~ (asked /\ Pos[c] < Pos[drainAt])
    BY <1>4, <2>1, CompGets
  <2>3. frame' = Tick \/ (frame' = frame /\ at' = After[at])
    BY <1>2, <1>4 DEF CompGoes
  <2>4. Emptied(c)'
    <3>1. CASE frame = Tick
      BY <2>1, <3>1 DEF Emptied, Under
    <3>2. CASE frame # Tick
      BY <1>2, <1>4, <2>2, <3>2 DEF Emptied, CompGoes
    <3>3. QED
      BY <3>1, <3>2
  <2>5. Behind(c)' /\ Kept(c)' \subseteq Kept(c) \cup Under(frame)
    BY <1>1, <1>2, <1>4, <2>1, <2>3, <2>4, CompBehind
  <2>6. Kept(c)' = Elems(RingOf(c)') \cup Under(frame)
    BY <2>1 DEF Kept
  <2>7. Pos[c] \in {2, 3} /\ Pos["retouch"] = 6 /\ Pos[After[c]] = Pos[c] + 1
    BY EnvPos, PosFacts
  <2>8. Alive(c) = InStage(stage["tr1"])
    BY <1>4, <2>7 DEF Alive
  <2>9. Alive(c)' = InStage(stage["tr1"]) \cup Under(frame)
    <3>1. CASE frame = Tick
      <4>1. frame' = Tick
        BY <1>2, <1>4, <3>1 DEF CompGoes
      <4>2. QED
        BY <1>2, <1>4, <3>1, <4>1 DEF Alive, Under
    <3>2. CASE frame # Tick
      <4>1. at' = After[c] /\ frame' = frame
        BY <1>2, <1>4, <3>2 DEF CompGoes
      <4>2. Pos[c] < Pos[at'] /\ Pos[at'] <= Pos["retouch"]
        BY <2>7, <4>1
      <4>3. QED
        BY <1>2, <1>4, <4>1, <4>2 DEF Alive
    <3>3. QED
      BY <3>1, <3>2
  <2>10. EnvRoom => Kept(c) \cap InStage(stage["tr1"]) \subseteq Kept(c)'
    BY <1>2, <1>4, <2>6 DEF CompLeaves
  <2>11. QED
    BY <2>2, <2>5, <2>6, <2>8, <2>9, <2>10
<1>5. ASSUME Limiting, NEW c \in Comps PROVE Cardinality(Inner(Kept(c)', Alive(c)')) <= fails'
  <2>1. Cardinality(Inner(Kept(c), Alive(c))) <= fails
    BY <1>5 DEF Enveloped, Bounded
  <2>2. CASE c # at
    BY <1>1, <1>3, <1>5, <2>1, <2>2
  <2>3. CASE c = at
    <3>1. PICK K, V, K2, V2, n, U : /\ K = Kept(c) /\ V = Alive(c) /\ K2 = Kept(c)' /\ V2 = Alive(c)' /\ n = fails
                                    /\ U = Under(frame)
      OBVIOUS
    <3>2. K \subseteq Int /\ V \subseteq Int /\ IsFiniteSet(K) /\ n \in Nat
      <4>1. fails \in Nat
        BY <1>1, RoomLess DEF ChainInv
      <4>2. QED
        BY <3>1, <4>1, EnvTyped, FramesFacts
    <3>3. K2 \subseteq K \cup U /\ V2 = V \cup U /\ Before(K, U)
      BY <1>4, <1>5, <2>3, <3>1
    <3>4. U \subseteq Int
      BY <3>1, FramesFacts DEF Under, ChainInv, Control
    <3>5. Cardinality(Inner(K, V)) <= n
      BY <2>1, <3>1
    <3>6. V2 \subseteq V \cup U /\ U \subseteq V2 /\ \A v \in V \ V2 : Before({v}, V2)
      BY <3>3
    <3>7. Cardinality(Inner(K2, V2)) <= n
      BY <3>2, <3>3, <3>4, <3>5, <3>6, InnerKept
    <3>8. QED
      BY <1>1, <3>1, <3>7
  <2>4. QED
    BY <2>2, <2>3
<1>6. ASSUME Limiting, EnvRoom PROVE Bare' \subseteq Bare
  <2>1. ASSUME NEW c \in Comps, NEW x \in Alive(c)', x \notin Kept(c)' PROVE x \in Bare
    <3>1. CASE c # at
      BY <1>3, <1>6, <2>1, <3>1, BareMember
    <3>2. CASE c = at
      <4>1. x \in Alive(c) /\ x \notin Kept(c)
        BY <1>4, <1>6, <2>1, <3>2
      <4>2. QED
        BY <4>1, BareMember
    <3>3. QED
      BY <3>1, <3>2
  <2>2. QED
    BY <1>1, <2>1, BareMember, BareMemberNext
<1>7. ASSUME Limiting, NEW c \in Comps PROVE Behind(c)'
  BY <1>3, <1>4, <1>7
<1>8. QED
  BY <1>1, <1>5, <1>6, <1>7, EnvelopedNext

(* What a failure at a compensating pass makes of its ring and its frames. *)
CompSpoils(c) ==
  /\ Sorted(RingOf(c)')
  /\ \/ Elems(RingOf(c)') \subseteq Kept(c) /\ InStage(stage'[c]) = Under(frame)
     \/ RingOf(c)' = RingOf(c) /\ InStage(stage'[c]) = InStage(stage[c])
  /\ EnvRoom => \E h : Kept(c) \cap InStage(stage["tr1"]) \subseteq Kept(c)' \cup {h}
  /\ \A d \in Comps : d # c => RingOf(d)' = RingOf(d)

(* The frame the pass had, or was to make room for, is the one it costs.   *)
LEMMA CompSpoilsEnv ==
  ASSUME ChainInv, Enveloped, CallFails, setting' = setting, given' = given, unlimited' = unlimited,
         at \in Comps,
         stage'["analyze"] = stage["analyze"], stage'["tr1"] = stage["tr1"],
         \A d \in Comps : d # at => stage'[d] = stage[d],
         Limiting => \A c \in Comps : c = at => CompSpoils(c)
  PROVE  Enveloped'
<1>1. frame' = Tick /\ asked' = asked /\ drainAt' = drainAt
  BY DEF CallFails
<1>2. ASSUME Limiting, NEW c \in Comps
      PROVE  Alive(c)' = InStage(stage["tr1"]) /\ Alive(c) \subseteq Alive(c)' \cup Under(frame) /\ Alive(c)' \subseteq Alive(c)
  BY <1>1 DEF Alive, Under
<1>3. ASSUME Limiting, NEW d \in Comps, d # at PROVE Behind(d)' /\ Kept(d)' = Kept(d)
  <2>1. PICK c \in Comps : c = at
    OBVIOUS
  <2>2. CompSpoils(c)
    BY <1>3, <2>1
  <2>3. Behind(d) /\ RingOf(d)' = RingOf(d) /\ stage'[d] = stage[d]
    BY <1>3, <2>1, <2>2 DEF Enveloped, CompSpoils
  <2>4. QED
    BY <1>1, <1>3, <2>3, OtherComp
<1>4. ASSUME Limiting, NEW c \in Comps, c = at PROVE Behind(c)' /\ Kept(c)' \subseteq Kept(c) \cup Under(frame)
  <2>1. CompSpoils(c) /\ Behind(c)
    BY <1>4 DEF Enveloped
  <2>2. Emptied(c)'
    <3>1. ~ (asked /\ Pos[c] < Pos[drainAt])
      BY <1>4, <2>1, CompGets
    <3>2. QED
      BY <1>1, <3>1 DEF Emptied
  <2>3. /\ Sorted(RingOf(c)')
        /\ \/ Elems(RingOf(c)') \subseteq Kept(c) /\ InStage(stage'[c]) = Under(frame)
           \/ RingOf(c)' = RingOf(c) /\ InStage(stage'[c]) = InStage(stage[c])
    BY <2>1 DEF CompSpoils
  <2>4. QED
    BY <1>1, <1>4, <2>1, <2>2, <2>3, CompBehind
<1>5. ASSUME Limiting, NEW c \in Comps PROVE Behind(c)' /\ Spoils(c, frame)
  <2>1. Behind(c)' /\ Kept(c)' \subseteq Kept(c) \cup Under(frame)
    BY <1>3, <1>4, <1>5
  <2>2. Kept(c)' \subseteq Kept(c) \cup {frame} /\ Alive(c)' \subseteq Alive(c) /\ \A v \in Alive(c) \ Alive(c)' : v = frame
    BY <1>2, <1>5, <2>1 DEF Under
  <2>3. QED
    BY <2>1, <2>2 DEF Spoils
<1>6. ASSUME Limiting, EnvRoom PROVE \E h : Bare' \subseteq Bare \cup {h}
  <2>1. PICK c \in Comps : c = at
    OBVIOUS
  <2>2. PICK h : Kept(c) \cap InStage(stage["tr1"]) \subseteq Kept(c)' \cup {h}
    BY <1>6, <2>1 DEF CompSpoils
  <2>3. ASSUME NEW d \in Comps, NEW x \in Alive(d)', x \notin Kept(d)' PROVE x \in Bare \cup {h}
    <3>1. x \in Alive(d) /\ x \in InStage(stage["tr1"])
      BY <1>2, <1>6, <2>3
    <3>2. CASE d # at
      <4>1. x \notin Kept(d)
        BY <1>3, <1>6, <2>3, <3>2
      <4>2. QED
        BY <3>1, <4>1, BareMember
    <3>3. CASE d = at
      <4>1. x \notin Kept(d) \/ x = h
        BY <2>1, <2>2, <2>3, <3>1, <3>3
      <4>2. QED
        BY <3>1, <4>1, BareMember
    <3>4. QED
      BY <3>2, <3>3
  <2>4. \A x : x \in Bare' => x \in Bare \cup {h}
    BY <2>3, BareMember, BareMemberNext
  <2>5. QED
    BY <2>4
<1>7. QED
  BY <1>5, <1>6, BrokenEnv

(* It puts a frame out that its ring does not take.                        *)
LEMMA KeepCompFailsEnv ==
  ASSUME ChainInv, Enveloped, KeepCompFails
  PROVE  Enveloped'
<1>1. /\ CallFails /\ setting' = setting /\ given' = given /\ unlimited' = unlimited /\ at \in Comps
      /\ Enabled(at)
  BY DEF KeepCompFails, missed
<1>2. PICK x : x = [hold |-> Answer(at).hold, pending |-> Answer(at).pending]
  OBVIOUS
<1>3. stage' = [stage EXCEPT ![at] = x]
  BY <1>2 DEF KeepCompFails, Left
<1>4. /\ stage'[at] = x /\ stage'["analyze"] = stage["analyze"] /\ stage'["tr1"] = stage["tr1"]
      /\ \A d \in Comps : d # at => stage'[d] = stage[d]
  BY <1>1, <1>3, CompAlone
<1>5. ASSUME Limiting, NEW c \in Comps, c = at PROVE CompSpoils(c)
  <2>1. CompAnswer(c) /\ Answer(c).out # {}
    BY <1>5, CompAnswers DEF Limiting, KeepCompFails
  <2>2. PICK h \in Frames : InStage(stage[c]) = {h}
    BY <2>1 DEF CompAnswer
  <2>3. InStage(stage'[c]) = Under(frame)
    BY <1>2, <1>4, <1>5, <2>1 DEF CompAnswer
  <2>4. RingOf(c)' = Room(RingOf(c), CompPool) /\ \A d \in Comps : d # c => RingOf(d)' = RingOf(d)
    <3>1. /\ backRing' = (IF c = "compb" THEN Room(backRing, CompPool) ELSE backRing)
          /\ forwRing' = (IF c = "compf" THEN Room(forwRing, CompPool) ELSE forwRing)
      BY <1>5 DEF KeepCompFails
    <3>2. QED
      BY <3>1, RingsMakeRoom
  <2>5. PICK q, m, r : q = RingOf(c) /\ m = Room(q, CompPool) /\ r = Retained(q, CompPool, h)
    OBVIOUS
  <2>6. /\ Sorted(m) /\ Elems(m) \subseteq Kept(c)
        /\ Sorted(r) /\ Elems(r) \subseteq Kept(c)
        /\ EnvRoom => \A y \in Kept(c) \cap InStage(stage["tr1"]) : y \in Elems(r) /\ y \in Elems(m) \cup {h}
    BY <1>5, <2>2, <2>5, CompTakes
  <2>7. RingOf(c)' = m
    BY <2>4, <2>5
  <2>8. EnvRoom => \E g : Kept(c) \cap InStage(stage["tr1"]) \subseteq Kept(c)' \cup {g}
    <3>1. EnvRoom => Kept(c) \cap InStage(stage["tr1"]) \subseteq Elems(m) \cup {h}
      BY <2>6
    <3>2. Elems(m) \subseteq Kept(c)'
      BY <2>7 DEF Kept
    <3>3. EnvRoom => Kept(c) \cap InStage(stage["tr1"]) \subseteq Kept(c)' \cup {h}
      BY <3>1, <3>2
    <3>4. QED
      BY <3>3
  <2>9. QED
    BY <2>3, <2>4, <2>6, <2>7, <2>8 DEF CompSpoils
<1>6. QED
  BY <1>1, <1>4, <1>5, CompSpoilsEnv

(* It fails itself.                                                        *)
LEMMA CompFailsEnv ==
  ASSUME ChainInv, Enveloped, FilterFails, at \in Comps
  PROVE  Enveloped'
<1>1. /\ CallFails /\ setting' = setting /\ given' = given /\ unlimited' = unlimited
      /\ backRing' = backRing /\ forwRing' = forwRing
  BY DEF FilterFails, rings, missed
<1>2. PICK x \in StageAfterFailure(stage[at], Answer(at)) : stage' = [stage EXCEPT ![at] = x]
  BY DEF FilterFails
<1>3. /\ stage'[at] = x /\ stage'["analyze"] = stage["analyze"] /\ stage'["tr1"] = stage["tr1"]
      /\ \A d \in Comps : d # at => stage'[d] = stage[d]
  BY <1>2, CompAlone
<1>4. ASSUME Limiting, NEW c \in Comps, c = at PROVE CompSpoils(c)
  <2>1. CompAnswer(c) /\ Behind(c)
    BY <1>4, CompAnswers DEF Limiting, Enveloped
  <2>2. InStage(stage'[c]) = InStage(stage[c]) \/ InStage(stage'[c]) = Under(frame)
    BY <1>2, <1>3, <1>4, <2>1 DEF CompAnswer
  <2>3. \A d \in Comps : RingOf(d)' = RingOf(d)
    BY <1>1 DEF RingOf
  <2>4. \E h : InStage(stage[c]) \subseteq {h}
    BY <2>1 DEF CompAnswer
  <2>5. PICK h : InStage(stage[c]) \subseteq {h}
    BY <2>4
  <2>6. Kept(c) \subseteq Kept(c)' \cup {h}
    BY <2>3, <2>5 DEF Kept
  <2>7. Elems(RingOf(c)') \subseteq Kept(c) /\ Sorted(RingOf(c)')
    BY <2>1, <2>3 DEF Kept, Behind
  <2>8. \E g : Kept(c) \cap InStage(stage["tr1"]) \subseteq Kept(c)' \cup {g}
    BY <2>6
  <2>9. QED
    BY <2>2, <2>3, <2>7, <2>8 DEF CompSpoils
<1>5. QED
  BY <1>1, <1>3, <1>4, CompSpoilsEnv

-----------------------------------------------------------------------------

(* There are no envelopes before the first frame.                          *)
LEMMA EnvInit ==
  ASSUME ChainInit, ChainInv
  PROVE  Enveloped
<1>1. /\ given = 0 /\ stage = [s \in Filters |-> EmptyStage] /\ backRing = << >> /\ forwRing = << >>
      /\ frame = Tick /\ asked = FALSE /\ unlimited = {} /\ fails = 0
  BY DEF ChainInit
<1>2. Elems(<< >>) = {} /\ Sorted(<< >>) /\ InStage(EmptyStage) = {}
  BY DEF Elems, Sorted, EmptyStage, InStage
<1>3. stage["analyze"] = EmptyStage /\ stage["tr1"] = EmptyStage /\ \A c \in Comps : stage[c] = EmptyStage
  BY <1>1 DEF Filters, Comps
<1>4. \A c \in Comps : RingOf(c) = << >> /\ Kept(c) = {} /\ Alive(c) = {}
  BY <1>1, <1>2, <1>3 DEF RingOf, Kept, Alive, Under
<1>5. \A c \in Comps : Behind(c)
  BY <1>1, <1>2, <1>3, <1>4 DEF Behind, Fits, Emptied, Before
<1>6. Bounded
  <2>1. Inner({}, {}) = {}
    BY DEF Inner
  <2>2. Cardinality({}) = 0
    BY FS_EmptySet
  <2>3. \A c \in Comps : Cardinality(Inner(Kept(c), Alive(c))) = 0
    BY <1>4, <2>1, <2>2
  <2>4. QED
    BY <1>1, <2>3 DEF Bounded
<1>7. Bare = {}
  BY <1>1, <1>4 DEF Bare
<1>8. Cardinality(Bare) <= fails
  BY <1>1, <1>7, FS_EmptySet
<1>9. QED
  BY <1>1, <1>5, <1>6, <1>8 DEF Enveloped

(* Nothing happens.                                                        *)
LEMMA EnvStutters ==
  ASSUME ChainInv, Enveloped, UNCHANGED chainVars
  PROVE  Enveloped'
<1>1. /\ setting' = setting /\ given' = given /\ stage' = stage
      /\ backRing' = backRing /\ forwRing' = forwRing
      /\ at' = at /\ frame' = frame /\ drainAt' = drainAt /\ asked' = asked
      /\ unlimited' = unlimited /\ fails' = fails
  BY DEF chainVars, rings, control, missed
<1>2. ASSUME Limiting, NEW c \in Comps
      PROVE  /\ Before(Kept(c), InStage(stage'["analyze"]))
             /\ Fits(at', frame', Kept(c), InStage(stage[c]), c)
             /\ Emptied(c)'
             /\ Alive(c)' = Alive(c)
  <2>1. /\ Before(Kept(c), InStage(stage["analyze"])) /\ Emptied(c)
        /\ Fits(at, frame, Kept(c), InStage(stage[c]), c)
    BY <1>2 DEF Enveloped, Behind
  <2>2. Emptied(c)' /\ Alive(c)' = Alive(c)
    BY <1>1, <2>1, EmptiedKept, AliveKept
  <2>3. QED
    BY <1>1, <2>1, <2>2
<1>3. QED
  BY <1>1, <1>2, Aside

(* Every step keeps the envelopes so.                                      *)
LEMMA EnvNext ==
  ASSUME ChainInv, Enveloped, [ChainNext]_chainVars
  PROVE  Enveloped'
<1>1. CASE UNCHANGED chainVars
  BY <1>1, EnvStutters
<1>2. CASE RunStage
  BY <1>2, PassThroughEnv, TemporalEnv, CompEnv, RepairEnv, RetouchEnv, SinkEnv DEF RunStage
<1>3. CASE FilterFails
  <2>1. at \in Line \/ at \in Comps
    BY <1>3, PosFacts DEF FilterFails
  <2>2. QED
    BY <1>3, <2>1, LineFailsEnv, CompFailsEnv
<1>4. QED
  BY <1>1, <1>2, <1>3, PushEnv, AskEnv, KeepFailsEnv, KeepCompFailsEnv, StepFailsEnv DEF ChainNext

(* Every envelope that is needed has been made and kept, but for one frame *)
(* for each failed step.                                                   *)
THEOREM EnvelopeInvariant == ChainSpec => [](ChainInv /\ Enveloped)
<1>1. ChainInit => ChainInv /\ Enveloped
  BY ChainInitInv, EnvInit
<1>2. ChainInv /\ Enveloped /\ [ChainNext]_chainVars => ChainInv' /\ Enveloped'
  BY ChainNextInv, EnvNext
<1>3. QED
  BY <1>1, <1>2, PTL DEF ChainSpec

(* With any parameters that let TR1 hold frames back, every frame that is  *)
(* limited has a whole envelope as long as no step fails, and a failed     *)
(* step costs one frame its envelope at most while the pools last.         *)
THEOREM EnvelopeCorrect == ChainSpec => []EnvelopeAtHand
<1>1. ChainInv /\ Enveloped => EnvelopeAtHand
  <2> SUFFICES ASSUME ChainInv, Enveloped, NeedRef, setting.tr1 > 0, fails <= CompPool - Lag("tr1"), RefRoom
               PROVE  Cardinality(unlimited) <= fails
    BY DEF EnvelopeAtHand
  <2>1. fails \in Nat
    BY ChainAssumption DEF ChainInv, Counted
  <2>2. CASE ~ setting.limit
    <3>1. unlimited = {}
      BY <2>2 DEF Enveloped
    <3>2. QED
      BY <2>1, <3>1, FS_EmptySet
  <2>3. CASE setting.limit
    <3>1. Limiting /\ EnvRoom
      BY <2>3 DEF Limiting, EnvRoom
    <3>2. Cardinality(Bare) <= fails
      BY <3>1 DEF Enveloped
    <3>3. unlimited \in SUBSET Bare
      BY BareMember
    <3>4. Cardinality(unlimited) <= Cardinality(Bare) /\ Cardinality(unlimited) \in Nat /\ Cardinality(Bare) \in Nat
      <4>1. IsFiniteSet(Bare)
        BY BareTyped
      <4>2. QED
        BY <3>3, <4>1, FS_Subset, FS_CardinalityType
    <3>5. QED
      BY <2>1, <3>2, <3>4
  <2>4. QED
    BY <2>2, <2>3
<1>2. QED
  BY <1>1, EnvelopeInvariant, PTL
-----------------------------------------------------------------------------
(* The ring that a chain keeps its frames in, FrameRing                    *)

(* The entries of a queue q occupy consecutive buffers of a pool of P: the *)
(* distance of two entries in the queue is the distance of their buffers,  *)
(* up to one turn of the pool.                                             *)
Consecutive(q, P) ==
  \A i \in 1 .. Len(q) : \A j \in i + 1 .. Len(q) :
    \/ q[j].poolIndex = q[i].poolIndex + (j - i)
    \/ q[j].poolIndex = q[i].poolIndex + (j - i) - P

(* Every entry of q is in a buffer of a pool of P. *)
InPool(q, P) == \A i \in 1 .. Len(q) : q[i].poolIndex \in 0 .. P - 1

(* Every entry of q is in a buffer that holds its frame. *)
InBuffers(q, buffers) == \A i \in 1 .. Len(q) : buffers[q[i].poolIndex] = q[i].timestamp

(* When the ring has buffers, and when it is empty. *)
RingFits ==
  /\ ready => poolSize >= Count
  /\ ~ ready => entries = << >>

(* What the invariant says of the entries, said of any part q of them. *)
Live(q) ==
  /\ q \in Seq(Entry)
  /\ InPool(q, poolSize)
  /\ Consecutive(q, poolSize)
  /\ InBuffers(q, slot)

RingInv == TypeOK /\ RingFits /\ Live(entries)

(* Cutting entries off the front keeps what the invariant says of a queue. *)
LEMMA SuffixLive ==
  ASSUME RingInv, NEW n \in 0 .. Len(entries)
  PROVE  LET q == SubSeq(entries, n + 1, Len(entries)) IN
           /\ Live(q)
           /\ Len(q) = Len(entries) - n
           /\ \A i \in 1 .. Len(q) : q[i] = entries[i + n]
<1> DEFINE q == SubSeq(entries, n + 1, Len(entries))
<1>1. entries \in Seq(Entry) /\ Len(entries) \in Nat
  BY DEF RingInv, Live
<1>2. /\ q \in Seq(Entry)
      /\ Len(q) = Len(entries) - n
      /\ Len(q) \in Nat
      /\ \A i \in 1 .. Len(q) : q[i] = entries[i + n]
  BY <1>1
<1> HIDE DEF q
<1>3. \A i \in 1 .. Len(q) : i + n \in 1 .. Len(entries)
  BY <1>1, <1>2
<1>4. InPool(q, poolSize)
  BY <1>2, <1>3 DEF RingInv, Live, InPool
<1>5. InBuffers(q, slot)
  BY <1>2, <1>3 DEF RingInv, Live, InBuffers
<1>6. Consecutive(q, poolSize)
  <2>1. SUFFICES ASSUME NEW i \in 1 .. Len(q), NEW j \in i + 1 .. Len(q)
                 PROVE  \/ q[j].poolIndex = q[i].poolIndex + (j - i)
                        \/ q[j].poolIndex = q[i].poolIndex + (j - i) - poolSize
    BY DEF Consecutive
  <2>2. /\ i + n \in 1 .. Len(entries)
        /\ j + n \in (i + n) + 1 .. Len(entries)
        /\ (j + n) - (i + n) = j - i
        /\ j \in 1 .. Len(q)
    BY <1>1, <1>2
  <2>3. q[i] = entries[i + n] /\ q[j] = entries[j + n]
    BY <1>2, <2>2
  <2>4. \/ entries[j + n].poolIndex = entries[i + n].poolIndex + ((j + n) - (i + n))
        \/ entries[j + n].poolIndex = entries[i + n].poolIndex + ((j + n) - (i + n)) - poolSize
    BY <2>2 DEF RingInv, Live, Consecutive
  <2>5. QED BY <2>2, <2>3, <2>4
<1>7. QED BY <1>2, <1>4, <1>5, <1>6 DEF q, Live

(* The room push() makes is a suffix of the queue, shorter than the pool.  *)
LEMMA RoomOK ==
  ASSUME RingInv, ready
  PROVE  \E n \in 0 .. Len(entries) :
           /\ MakeRoom(entries) = SubSeq(entries, n + 1, Len(entries))
           /\ Len(entries) - n < poolSize
<1>0. /\ entries \in Seq(Entry)
      /\ Len(entries) \in Nat
      /\ poolSize \in Nat
      /\ Count \in Nat \ {0}
      /\ Len(entries) <= poolSize
      /\ poolSize >= Count
  BY CountAssumption DEF RingInv, TypeOK, RingFits
<1>1. CASE Len(entries) < poolSize
  <2>1. MakeRoom(entries) = entries
    BY <1>1 DEF MakeRoom
  <2>2. entries = SubSeq(entries, 0 + 1, Len(entries))
    BY <1>0
  <2>3. QED BY <2>1, <2>2, <1>0, <1>1
<1>2. CASE ~ (Len(entries) < poolSize)
  <2>1. /\ Len(entries) = poolSize
        /\ Len(entries) - poolSize + 2 = 2
    BY <1>0, <1>2
  <2>2. MakeRoom(entries) = SubSeq(entries, 1 + 1, Len(entries))
    BY <2>1, <1>2 DEF MakeRoom
  <2>3. 1 \in 0 .. Len(entries) /\ Len(entries) - 1 < poolSize
    BY <2>1, <1>0
  <2>4. QED BY <2>2, <2>3
<1>3. QED BY <1>1, <1>2

(* The ring's index arithmetic: stepping one buffer on, with wrap-around.  *)
LEMMA StepMod ==
  ASSUME NEW n \in Nat \ {0}, NEW a \in 0 .. n - 1
  PROVE  (a + 1) % n = IF a + 1 = n THEN 0 ELSE a + 1
OBVIOUS

(* Appending one more buffer to a run of m live ones, of which `last' is   *)
(* the newest and p the i-th: it is m + 1 - i further than p, and not p.   *)
LEMMA RunStep ==
  ASSUME NEW P \in Nat, NEW m \in Nat, NEW i \in 1 .. m, m < P,
         NEW last \in 0 .. P - 1, NEW p \in 0 .. P - 1, NEW ns \in Int,
         last = p + (m - i) \/ last = p + (m - i) - P,
         (last + 1 = P /\ ns = 0) \/ (last + 1 # P /\ ns = last + 1)
  PROVE  /\ p # ns
         /\ ns = p + (m + 1 - i) \/ ns = p + (m + 1 - i) - P
OBVIOUS

(* "The slot after the newest live entry is always free": if the queue of  *)
(* live entries is shorter than the pool then the buffer push() writes is  *)
(* one of the pool's, holds none of their frames, and continues their run. *)
LEMMA NextSlotFree ==
  ASSUME TypeOK, NEW q, Live(q), Len(q) < poolSize
  PROVE  /\ NextSlot(q) \in 0 .. poolSize - 1
         /\ \A i \in 1 .. Len(q) :
              /\ q[i].poolIndex # NextSlot(q)
              /\ \/ NextSlot(q) = q[i].poolIndex + (Len(q) + 1 - i)
                 \/ NextSlot(q) = q[i].poolIndex + (Len(q) + 1 - i) - poolSize
<1> DEFINE m == Len(q)
<1>1. /\ q \in Seq(Entry)
      /\ InPool(q, poolSize)
      /\ Consecutive(q, poolSize)
  BY DEF Live
<1>2. /\ poolSize \in Nat \ {0}
      /\ m \in Nat
  BY <1>1 DEF TypeOK
<1>3. CASE m = 0
  <2>1. q = << >>
    BY <1>1, <1>3
  <2>2. NextSlot(q) = 0
    BY <2>1 DEF NextSlot
  <2>3. QED BY <2>2, <1>2, <1>3
<1>4. CASE m # 0
  <2> DEFINE last == q[m].poolIndex
  <2>0. m \in 1 .. m
    BY <1>2, <1>4
  <2>1. last \in 0 .. poolSize - 1
    BY <1>1, <2>0 DEF InPool
  <2>2. (last + 1) % poolSize = IF last + 1 = poolSize THEN 0 ELSE last + 1
    <3> HIDE DEF last
    <3>1. QED BY <2>1, <1>2, StepMod
  <2>3. NextSlot(q) = (last + 1) % poolSize
    <3>1. q = << >> => m = 0
      OBVIOUS
    <3>2. QED BY <3>1, <1>4 DEF NextSlot
  <2>4. \/ last + 1 = poolSize /\ NextSlot(q) = 0
        \/ last + 1 # poolSize /\ NextSlot(q) = last + 1
    BY <2>2, <2>3
  <2>5. PICK ns \in Int : ns = NextSlot(q)
    <3> HIDE DEF last
    <3>1. QED BY <2>1, <2>4
  <2>6. ASSUME NEW i \in 1 .. m
        PROVE  /\ q[i].poolIndex # NextSlot(q)
               /\ \/ NextSlot(q) = q[i].poolIndex + (m + 1 - i)
                  \/ NextSlot(q) = q[i].poolIndex + (m + 1 - i) - poolSize
    <3>1. PICK p \in 0 .. poolSize - 1 : p = q[i].poolIndex
      BY <1>1 DEF InPool
    <3>2. last = p + (m - i) \/ last = p + (m - i) - poolSize
      <4>1. CASE i = m
        <5>1. m - i = 0 /\ last = p
          BY <4>1, <1>2, <3>1
        <5> HIDE DEF last
        <5>2. QED BY <5>1, <1>2
      <4>2. CASE i # m
        <5>1. m \in i + 1 .. m
          BY <4>2, <1>2
        <5>2. QED BY <5>1, <1>1, <3>1 DEF Consecutive
      <4>3. QED BY <4>1, <4>2
    <3>3. (last + 1 = poolSize /\ ns = 0) \/ (last + 1 # poolSize /\ ns = last + 1)
      BY <2>4, <2>5
    <3>4. /\ poolSize \in Nat /\ m \in Nat /\ m < poolSize
          /\ i \in 1 .. m
      BY <1>2
    <3> HIDE DEF last, m
    <3>5. p # ns /\ (ns = p + (m + 1 - i) \/ ns = p + (m + 1 - i) - poolSize)
      BY <2>1, <3>2, <3>3, <3>4, RunStep
    <3>6. QED BY <3>1, <3>5, <2>5
  <2>7. NextSlot(q) \in 0 .. poolSize - 1
    <3> HIDE DEF last
    <3>1. QED BY <2>1, <2>4, <1>2
  <2>8. QED BY <2>6, <2>7
<1>5. QED BY <1>3, <1>4

(* The entries of a queue after one more is appended. *)
LEMMA AppendEntries ==
  ASSUME NEW q \in Seq(Entry), NEW e \in Entry
  PROVE  /\ Append(q, e) \in Seq(Entry)
         /\ Len(q) \in Nat
         /\ Len(Append(q, e)) = Len(q) + 1
         /\ \A i \in 1 .. Len(q) : Append(q, e)[i] = q[i]
         /\ Append(q, e)[Len(q) + 1] = e
         /\ \A i \in 1 .. Len(q) + 1 : i \in 1 .. Len(q) \/ i = Len(q) + 1
<1>1. Len(q) \in Nat
  OBVIOUS
<1>2. \A i \in 1 .. Len(q) + 1 : i \in 1 .. Len(q) \/ i = Len(q) + 1
  BY <1>1
<1>3. QED BY <1>1, <1>2, AppendProperties

(* A queue r of k + 1 entries is consecutive when its first k are and the  *)
(* last one continues their run.                                           *)
LEMMA AppendKeepsRun ==
  ASSUME NEW P \in Nat, NEW r, NEW k \in Nat, Len(r) = k + 1,
         \A i \in 1 .. k : \A j \in i + 1 .. k :
           \/ r[j].poolIndex = r[i].poolIndex + (j - i)
           \/ r[j].poolIndex = r[i].poolIndex + (j - i) - P,
         \A i \in 1 .. k :
           \/ r[k + 1].poolIndex = r[i].poolIndex + (k + 1 - i)
           \/ r[k + 1].poolIndex = r[i].poolIndex + (k + 1 - i) - P
  PROVE  Consecutive(r, P)
<1>1. SUFFICES ASSUME NEW i \in 1 .. k + 1, NEW j \in i + 1 .. k + 1
               PROVE  \/ r[j].poolIndex = r[i].poolIndex + (j - i)
                      \/ r[j].poolIndex = r[i].poolIndex + (j - i) - P
  BY DEF Consecutive
<1>2. i \in 1 .. k
  OBVIOUS
<1>3. CASE j = k + 1
  BY <1>2, <1>3
<1>4. CASE j # k + 1
  <2>1. j \in i + 1 .. k
    BY <1>4
  <2>2. QED BY <2>1, <1>2
<1>5. QED BY <1>3, <1>4

(* The queue push() leaves behind. *)
LEMMA PushedLive ==
  ASSUME TypeOK, NEW q, Live(q), Len(q) < poolSize, NEW t \in Timestamps
  PROVE  LET r == Append(q, [poolIndex |-> NextSlot(q), timestamp |-> t]) IN
           /\ r \in Seq(Entry)
           /\ Len(r) = Len(q) + 1 /\ Len(r) <= poolSize
           /\ \A i \in 1 .. Len(q) : r[i] = q[i]
           /\ r[Len(q) + 1].timestamp = t
           /\ InPool(r, poolSize)
           /\ Consecutive(r, poolSize)
           /\ InBuffers(r, [slot EXCEPT ![NextSlot(q)] = t])
<1> DEFINE e == [poolIndex |-> NextSlot(q), timestamp |-> t]
           r == Append(q, e)
           new == [slot EXCEPT ![NextSlot(q)] = t]
<1>1. /\ q \in Seq(Entry)
      /\ InPool(q, poolSize) /\ Consecutive(q, poolSize) /\ InBuffers(q, slot)
  BY DEF Live
<1>2. /\ NextSlot(q) \in 0 .. poolSize - 1
      /\ \A i \in 1 .. Len(q) :
           /\ q[i].poolIndex # NextSlot(q)
           /\ \/ NextSlot(q) = q[i].poolIndex + (Len(q) + 1 - i)
              \/ NextSlot(q) = q[i].poolIndex + (Len(q) + 1 - i) - poolSize
  BY NextSlotFree
<1>3. poolSize \in Nat /\ slot \in [0 .. poolSize - 1 -> Timestamps \cup {None}]
  BY DEF TypeOK
<1>4. e \in Entry
  BY <1>2, <1>3 DEF Entry
<1>5. /\ \A b \in 0 .. poolSize - 1 : b # e.poolIndex => new[b] = slot[b]
      /\ new[e.poolIndex] = e.timestamp
      /\ e.poolIndex = NextSlot(q)
      /\ e.timestamp = t
  BY <1>2, <1>3
<1> HIDE DEF e, new
<1>6. /\ r \in Seq(Entry)
      /\ Len(q) \in Nat
      /\ Len(r) = Len(q) + 1
      /\ \A i \in 1 .. Len(q) : r[i] = q[i]
      /\ r[Len(q) + 1] = e
      /\ \A i \in 1 .. Len(q) + 1 : i \in 1 .. Len(q) \/ i = Len(q) + 1
  BY <1>1, <1>4, AppendEntries
<1> HIDE DEF r
<1>7. \A i \in 1 .. Len(q) :
        /\ r[i].poolIndex \in 0 .. poolSize - 1
        /\ r[i].poolIndex # e.poolIndex
        /\ slot[r[i].poolIndex] = r[i].timestamp
        /\ \/ r[Len(q) + 1].poolIndex = r[i].poolIndex + (Len(q) + 1 - i)
           \/ r[Len(q) + 1].poolIndex = r[i].poolIndex + (Len(q) + 1 - i) - poolSize
  BY <1>1, <1>2, <1>5, <1>6 DEF InPool, InBuffers
<1>8. Consecutive(r, poolSize)
  <2>1. \A i \in 1 .. Len(q) : \A j \in i + 1 .. Len(q) : j \in 1 .. Len(q)
    BY <1>6
  <2>2. \A i \in 1 .. Len(q) : \A j \in i + 1 .. Len(q) :
          \/ r[j].poolIndex = r[i].poolIndex + (j - i)
          \/ r[j].poolIndex = r[i].poolIndex + (j - i) - poolSize
    BY <2>1, <1>1, <1>6 DEF Consecutive
  <2>3. QED BY <1>3, <1>6, <1>7, <2>2, AppendKeepsRun
<1>9. InPool(r, poolSize)
  BY <1>2, <1>5, <1>6, <1>7 DEF InPool
<1>10. InBuffers(r, new)
  BY <1>5, <1>6, <1>7 DEF InBuffers
<1>11. Len(r) <= poolSize /\ r[Len(q) + 1].timestamp = t
  BY <1>3, <1>5, <1>6
<1>12. QED BY <1>6, <1>8, <1>9, <1>10, <1>11 DEF e, new, r

LEMMA InitRing == Init => RingInv
<1> SUFFICES ASSUME Init PROVE RingInv
  OBVIOUS
<1>1. Len(entries) = 0 /\ entries \in Seq(Entry)
  BY DEF Init
<1>2. TypeOK
  <2>1. slot \in [0 .. poolSize - 1 -> Timestamps \cup {None}]
    <3>1. 0 .. poolSize - 1 = {}
      BY DEF Init
    <3>2. slot \in [{} -> Timestamps \cup {None}]
      BY DEF Init
    <3>3. QED BY <3>1, <3>2
  <2>2. poolSize \in 0 .. MaxPool
    BY CountAssumption DEF Init
  <2>3. \A i \in 1 .. Len(entries) : entries[i].poolIndex < poolSize
    BY <1>1
  <2>4. Len(entries) <= poolSize
    BY <1>1 DEF Init
  <2>5. QED BY <1>1, <2>1, <2>2, <2>3, <2>4 DEF Init, TypeOK
<1>3. RingFits
  BY <1>1 DEF Init, RingFits
<1>4. InPool(entries, poolSize) /\ Consecutive(entries, poolSize) /\ InBuffers(entries, slot)
  BY <1>1 DEF InPool, Consecutive, InBuffers
<1>5. QED BY <1>1, <1>2, <1>3, <1>4 DEF RingInv, Live

LEMMA AllocRing == RingInv /\ Alloc => RingInv'
<1> SUFFICES ASSUME RingInv, Alloc PROVE RingInv'
  OBVIOUS
<1>1. PICK n \in 0 .. Count :
        /\ poolSize + n <= MaxPool
        /\ poolSize' = poolSize + n
        /\ slot' = Grown(n)
        /\ ready' = (n = Count)
  BY DEF Alloc
<1>2. /\ entries' = entries /\ entries = << >>
      /\ overflowWarned' = overflowWarned /\ peak' = peak
      /\ retained' = retained /\ spent' = spent
  BY DEF Alloc, RingInv, RingFits
<1>3. entries' \in Seq(Entry) /\ Len(entries') = 0
  BY <1>2
<1>4. /\ poolSize \in Nat /\ Count \in Nat /\ MaxPool \in Nat
      /\ slot \in [0 .. poolSize - 1 -> Timestamps \cup {None}]
  BY CountAssumption DEF RingInv, TypeOK
<1>5. TypeOK'
  <2>1. slot' \in [0 .. poolSize' - 1 -> Timestamps \cup {None}]
    BY <1>1, <1>4 DEF Grown
  <2>2. poolSize' \in 0 .. MaxPool
    BY <1>1, <1>4
  <2>3. \A i \in 1 .. Len(entries') : entries'[i].poolIndex < poolSize'
    BY <1>3
  <2>4. Len(entries') <= poolSize'
    BY <1>1, <1>3, <1>4
  <2>5. QED BY <2>1, <2>2, <2>3, <2>4, <1>1, <1>2, <1>3 DEF RingInv, TypeOK
<1>6. RingFits'
  <2>1. ready' => n = Count
    BY <1>1
  <2>2. ready' => poolSize' >= Count
    BY <2>1, <1>1, <1>4
  <2>3. QED BY <1>2, <2>2 DEF RingFits
<1>7. Live(entries)'
  BY <1>3 DEF Live, InPool, Consecutive, InBuffers
<1>8. QED BY <1>5, <1>6, <1>7 DEF RingInv

LEMMA PushRing == ASSUME NEW t \in Timestamps PROVE RingInv /\ Push(t) => RingInv'
<1> SUFFICES ASSUME RingInv, Push(t) PROVE RingInv'
  OBVIOUS
<1> DEFINE q == MakeRoom(entries)
           r == Append(q, [poolIndex |-> NextSlot(q), timestamp |-> t])
<1>1. /\ ready /\ ready' = ready /\ poolSize' = poolSize /\ spent' = spent
      /\ slot' = [slot EXCEPT ![NextSlot(q)] = t]
      /\ entries' = r
      /\ peak' = PeakAfter(r)
      /\ overflowWarned' = (overflowWarned \/ Len(entries) >= poolSize)
      /\ retained' = retained \cup {t}
  BY DEF Push
<1>2. TypeOK /\ RingFits
  BY DEF RingInv
<1>3. Live(q) /\ Len(q) < poolSize
  BY <1>1, RoomOK, SuffixLive
<1>4. /\ r \in Seq(Entry)
      /\ Len(r) <= poolSize
      /\ InPool(r, poolSize)
      /\ Consecutive(r, poolSize)
      /\ InBuffers(r, [slot EXCEPT ![NextSlot(q)] = t])
  BY <1>2, <1>3, PushedLive
<1> HIDE DEF q, r
<1>5. TypeOK'
  <2>1. \A i \in 1 .. Len(r) : r[i].poolIndex < poolSize
    <3>1. poolSize \in Nat
      BY <1>2 DEF TypeOK
    <3>2. \A i \in 1 .. Len(r) : r[i].poolIndex \in 0 .. poolSize - 1
      BY <1>4 DEF InPool
    <3>3. QED
      BY <3>1, <3>2
  <2>2. peak' \in Nat
    BY <1>1, <1>2, <1>4 DEF PeakAfter, TypeOK
  <2>3. slot' \in [0 .. poolSize' - 1 -> Timestamps \cup {None}]
    BY <1>1, <1>2 DEF TypeOK
  <2>4. QED BY <1>1, <1>2, <1>4, <2>1, <2>2, <2>3 DEF TypeOK
<1>6. RingFits' /\ Live(entries)'
  BY <1>1, <1>2, <1>4 DEF RingFits, Live
<1>7. QED BY <1>5, <1>6 DEF RingInv

LEMMA PushCopyFailsRing == RingInv /\ PushCopyFails => RingInv'
<1> SUFFICES ASSUME RingInv, PushCopyFails PROVE RingInv'
  OBVIOUS
<1> DEFINE q == MakeRoom(entries)
<1>1. /\ ready /\ ready' = ready /\ poolSize' = poolSize /\ spent' = spent
      /\ slot' = [slot EXCEPT ![NextSlot(q)] = None]
      /\ entries' = q
      /\ peak' = peak /\ retained' = retained
      /\ overflowWarned' = (overflowWarned \/ Len(entries) >= poolSize)
  BY DEF PushCopyFails
<1>2. TypeOK /\ RingFits
  BY DEF RingInv
<1>3. Live(q) /\ Len(q) < poolSize
  BY <1>1, RoomOK, SuffixLive
<1>4. /\ NextSlot(q) \in 0 .. poolSize - 1
      /\ \A i \in 1 .. Len(q) : q[i].poolIndex # NextSlot(q)
  BY <1>2, <1>3, NextSlotFree
<1> HIDE DEF q
<1>5. InBuffers(q, slot')
  <2>1. SUFFICES ASSUME NEW i \in 1 .. Len(q) PROVE slot'[q[i].poolIndex] = q[i].timestamp
    BY DEF InBuffers
  <2>2. q[i].poolIndex \in 0 .. poolSize - 1 /\ slot[q[i].poolIndex] = q[i].timestamp
    BY <1>3 DEF Live, InPool, InBuffers
  <2>3. QED BY <2>2, <1>1, <1>2, <1>4 DEF TypeOK
<1>6. TypeOK'
  <2>1. \A i \in 1 .. Len(q) : q[i].poolIndex < poolSize
    BY <1>2, <1>3 DEF Live, InPool, TypeOK
  <2>2. Len(q) \in Nat /\ poolSize \in Nat
    BY <1>2, <1>3 DEF Live, TypeOK
  <2>3. Len(q) <= poolSize
    BY <1>3, <2>2
  <2>4. QED BY <1>1, <1>2, <1>3, <2>1, <2>3 DEF TypeOK, Live
<1>7. RingFits'
  BY <1>1, <1>2 DEF RingFits
<1>8. Live(entries)'
  BY <1>1, <1>3, <1>5 DEF Live
<1>9. QED BY <1>6, <1>7, <1>8 DEF RingInv

LEMMA DropRing == ASSUME NEW t \in Timestamps PROVE RingInv /\ DropUpTo(t) => RingInv'
<1> SUFFICES ASSUME RingInv, DropUpTo(t) PROVE RingInv'
  OBVIOUS
<1>1. PICK n \in 0 .. Len(entries) : entries' = SubSeq(entries, n + 1, Len(entries))
  BY DEF DropUpTo
<1>2. /\ UNCHANGED << ready, poolSize, slot, overflowWarned, peak, retained >>
      /\ spent' = IF t > spent THEN t ELSE spent
  BY DEF DropUpTo
<1> DEFINE q == SubSeq(entries, n + 1, Len(entries))
<1>3. Live(q) /\ Len(q) = Len(entries) - n
  BY SuffixLive
<1>4. entries' = q
  BY <1>1
<1>5. TypeOK /\ RingFits /\ Len(entries) \in Nat
  BY DEF RingInv, TypeOK
<1>6. ~ ready => q = << >>
  <2>1. q \in Seq(Entry)
    BY <1>3 DEF Live
  <2>2. ~ ready => Len(q) = 0
    BY <1>3, <1>5 DEF RingFits
  <2> HIDE DEF q
  <2>3. QED BY <2>1, <2>2
<1> HIDE DEF q
<1>7. TypeOK'
  <2>1. \A i \in 1 .. Len(q) : q[i].poolIndex < poolSize
    BY <1>3, <1>5 DEF Live, InPool, TypeOK
  <2>2. Len(q) <= poolSize
    BY <1>3, <1>5 DEF TypeOK
  <2>3. spent' \in Timestamps \cup {-1}
    BY <1>2, <1>5 DEF TypeOK
  <2>4. entries' \in Seq(Entry)
    BY <1>3, <1>4 DEF Live
  <2>5. /\ \A i \in 1 .. Len(entries') : entries'[i].poolIndex < poolSize'
        /\ Len(entries') <= poolSize'
    BY <1>2, <1>4, <2>1, <2>2
  <2>6. /\ ready' \in BOOLEAN /\ poolSize' \in 0 .. MaxPool
        /\ slot' \in [0 .. poolSize' - 1 -> Timestamps \cup {None}]
        /\ overflowWarned' \in BOOLEAN /\ peak' \in Nat /\ retained' \subseteq Timestamps
    BY <1>2, <1>5 DEF TypeOK
  <2>7. QED BY <2>3, <2>4, <2>5, <2>6 DEF TypeOK
<1>8. RingFits'
  BY <1>2, <1>4, <1>5, <1>6 DEF RingFits
<1>9. Live(entries)'
  BY <1>2, <1>3, <1>4 DEF Live
<1>10. QED BY <1>7, <1>8, <1>9 DEF RingInv

LEMMA ClearRing == RingInv /\ Clear => RingInv'
<1> SUFFICES ASSUME RingInv, Clear PROVE RingInv'
  OBVIOUS
<1>1. /\ ready' = FALSE /\ poolSize' = 0 /\ slot' = << >> /\ entries' = << >>
      /\ retained' = {} /\ spent' = -1 /\ overflowWarned' = overflowWarned /\ peak' = peak
  BY DEF Clear
<1>2. entries' \in Seq(Entry) /\ Len(entries') = 0
  BY <1>1
<1>3. TypeOK'
  <2>1. slot' \in [0 .. poolSize' - 1 -> Timestamps \cup {None}]
    <3>1. 0 .. poolSize' - 1 = {}
      BY <1>1
    <3>2. slot' \in [{} -> Timestamps \cup {None}]
      BY <1>1
    <3>3. QED BY <3>1, <3>2
  <2>2. poolSize' \in 0 .. MaxPool
    BY <1>1, CountAssumption
  <2>3. /\ \A i \in 1 .. Len(entries') : entries'[i].poolIndex < poolSize'
        /\ Len(entries') <= poolSize'
    BY <1>1, <1>2
  <2>4. overflowWarned' \in BOOLEAN /\ peak' \in Nat
    BY <1>1 DEF RingInv, TypeOK
  <2>5. QED BY <1>1, <1>2, <2>1, <2>2, <2>3, <2>4 DEF TypeOK
<1>4. RingFits'
  BY <1>1, <1>2 DEF RingFits
<1>5. Live(entries)'
  BY <1>2 DEF Live, InPool, Consecutive, InBuffers
<1>6. QED BY <1>3, <1>4, <1>5 DEF RingInv

(* Every step keeps the ring invariant. *)
LEMMA NextRing == RingInv /\ [Next]_vars => RingInv'
<1> SUFFICES ASSUME RingInv, [Next]_vars PROVE RingInv'
  OBVIOUS
<1>1. CASE Alloc
  BY <1>1, AllocRing
<1>2. ASSUME NEW t \in Timestamps, Push(t) PROVE RingInv'
  BY <1>2, PushRing
<1>3. CASE PushCopyFails
  BY <1>3, PushCopyFailsRing
<1>4. ASSUME NEW t \in Timestamps, DropUpTo(t) PROVE RingInv'
  BY <1>4, DropRing
<1>5. CASE Clear
  BY <1>5, ClearRing
<1>6. CASE UNCHANGED vars
  BY <1>6 DEF vars, RingInv, TypeOK, RingFits, Live, InPool, Consecutive, InBuffers
<1>7. QED BY <1>1, <1>2, <1>3, <1>4, <1>5, <1>6 DEF Next

(* The ring invariant holds in every reachable state. *)
THEOREM RingInvariant == Spec => []RingInv
<1>1. QED BY InitRing, NextRing, PTL DEF Spec

(* Every variable keeps its type, whatever the calls and their failures.   *)
THEOREM TypeCorrect == Spec => []TypeOK
<1>1. RingInv => TypeOK
  BY DEF RingInv
<1>2. QED BY <1>1, RingInvariant, PTL

(* find() never hands out a buffer that a later push() has written into,   *)
(* for every pool size and every history of overflows and copy failures.   *)
THEOREM FindCorrect == Spec => []FindReturnsTheFrame
<1>1. RingInv => FindReturnsTheFrame
  BY DEF RingInv, Live, InBuffers, FindReturnsTheFrame, Found
<1>2. QED BY <1>1, RingInvariant, PTL

-----------------------------------------------------------------------------

(* An entry of q carries the timestamp t. *)
HasEntry(q, t) == \E i \in 1 .. Len(q) : q[i].timestamp = t

(* What the overflow flag and the peak say of the past; inductive          *)
(* relative to RingInv.                                                    *)
Ledger ==
  /\ Len(entries) <= peak
  /\ overflowWarned => peak >= Count
  /\ ~ overflowWarned => \A t \in retained : t > spent => HasEntry(entries, t)

LEMMA InitLedger == Init => Ledger
<1>1. Init => Len(entries) = 0 /\ peak = 0 /\ retained = {} /\ overflowWarned = FALSE
  BY DEF Init
<1>2. QED BY <1>1 DEF Ledger

LEMMA PushLedger == ASSUME NEW t \in Timestamps PROVE RingInv /\ Ledger /\ Push(t) => Ledger'
<1> SUFFICES ASSUME RingInv, Ledger, Push(t) PROVE Ledger'
  OBVIOUS
<1> DEFINE q == MakeRoom(entries)
           r == Append(q, [poolIndex |-> NextSlot(q), timestamp |-> t])
<1>1. /\ ready /\ spent' = spent
      /\ entries' = r
      /\ peak' = PeakAfter(r)
      /\ overflowWarned' = (overflowWarned \/ Len(entries) >= poolSize)
      /\ retained' = retained \cup {t}
  BY DEF Push
<1>2. /\ TypeOK /\ RingFits
      /\ Len(entries) \in Nat /\ poolSize \in Nat /\ Count \in Nat /\ peak \in Nat
  BY CountAssumption DEF RingInv, TypeOK
<1>3. Live(q) /\ Len(q) < poolSize
  BY <1>1, RoomOK, SuffixLive
<1>4. /\ Len(r) = Len(q) + 1
      /\ Len(q) \in Nat
      /\ \A i \in 1 .. Len(q) : r[i] = q[i]
      /\ r[Len(q) + 1].timestamp = t
  BY <1>2, <1>3, PushedLive DEF Live
<1>5. overflowWarned' => overflowWarned \/ Len(entries) >= poolSize
  BY <1>1
<1>6. ~ overflowWarned' => q = entries /\ ~ overflowWarned
  <2>1. ~ overflowWarned' => ~ (Len(entries) >= poolSize) /\ ~ overflowWarned
    BY <1>1
  <2>2. ~ (Len(entries) >= poolSize) => q = entries
    BY <1>2 DEF MakeRoom
  <2>3. QED BY <2>1, <2>2
<1> HIDE DEF q, r
<1>7. peak' >= Len(r) /\ peak' >= peak /\ peak' \in Nat
  BY <1>1, <1>2, <1>4 DEF PeakAfter
<1>8. overflowWarned' => peak' >= Count
  <2>1. CASE overflowWarned
    BY <2>1, <1>2, <1>7 DEF Ledger
  <2>2. CASE Len(entries) >= poolSize
    <3>1. poolSize >= Count /\ Len(entries) <= peak
      BY <1>1, <1>2 DEF RingFits, Ledger
    <3>2. QED BY <2>2, <3>1, <1>2, <1>7
  <2>3. QED BY <2>1, <2>2, <1>5
<1>9. ~ overflowWarned' => \A u \in retained' : u > spent' => HasEntry(entries', u)
  <2>1. SUFFICES ASSUME ~ overflowWarned', NEW u \in retained', u > spent'
                 PROVE  HasEntry(r, u)
    BY <1>1
  <2>2. CASE u = t
    <3>1. Len(q) + 1 \in 1 .. Len(r)
      BY <1>4
    <3>2. QED BY <2>2, <3>1, <1>4 DEF HasEntry
  <2>3. CASE u # t
    <3>1. HasEntry(q, u)
      BY <2>1, <2>3, <1>1, <1>6 DEF Ledger
    <3>2. \A i \in 1 .. Len(q) : i \in 1 .. Len(r)
      BY <1>4
    <3>3. QED BY <3>1, <3>2, <1>4 DEF HasEntry
  <2>4. QED BY <2>2, <2>3
<1>10. QED BY <1>1, <1>7, <1>8, <1>9 DEF Ledger

LEMMA PushCopyFailsLedger == RingInv /\ Ledger /\ PushCopyFails => Ledger'
<1> SUFFICES ASSUME RingInv, Ledger, PushCopyFails PROVE Ledger'
  OBVIOUS
<1> DEFINE q == MakeRoom(entries)
<1>1. /\ ready /\ spent' = spent /\ entries' = q /\ peak' = peak /\ retained' = retained
      /\ overflowWarned' = (overflowWarned \/ Len(entries) >= poolSize)
  BY DEF PushCopyFails
<1>2. /\ TypeOK /\ RingFits
      /\ Len(entries) \in Nat /\ poolSize \in Nat /\ Count \in Nat /\ peak \in Nat
  BY CountAssumption DEF RingInv, TypeOK
<1>3. PICK n \in 0 .. Len(entries) : Len(q) = Len(entries) - n
  BY <1>1, RoomOK, SuffixLive
<1>4. ~ overflowWarned' => q = entries /\ ~ overflowWarned
  <2>1. ~ overflowWarned' => ~ (Len(entries) >= poolSize) /\ ~ overflowWarned
    BY <1>1
  <2>2. ~ (Len(entries) >= poolSize) => q = entries
    BY <1>2 DEF MakeRoom
  <2>3. QED BY <2>1, <2>2
<1>5. overflowWarned' => overflowWarned \/ Len(entries) >= poolSize
  BY <1>1
<1> HIDE DEF q
<1>6. overflowWarned' => peak' >= Count
  <2>1. CASE overflowWarned
    BY <2>1, <1>1 DEF Ledger
  <2>2. CASE Len(entries) >= poolSize
    BY <2>2, <1>1, <1>2 DEF RingFits, Ledger
  <2>3. QED BY <2>1, <2>2, <1>5
<1>7. Len(entries') <= peak'
  BY <1>1, <1>2, <1>3 DEF Ledger
<1>8. QED BY <1>1, <1>4, <1>6, <1>7 DEF Ledger

LEMMA DropLedger == ASSUME NEW t \in Timestamps PROVE RingInv /\ Ledger /\ DropUpTo(t) => Ledger'
<1> SUFFICES ASSUME RingInv, Ledger, DropUpTo(t) PROVE Ledger'
  OBVIOUS
<1>1. PICK n \in 0 .. Len(entries) :
        /\ \A i \in 1 .. n : IsSpent(entries[i], t)
        /\ entries' = SubSeq(entries, n + 1, Len(entries))
  BY DEF DropUpTo
<1>2. /\ overflowWarned' = overflowWarned /\ peak' = peak /\ retained' = retained
      /\ spent' = IF t > spent THEN t ELSE spent
  BY DEF DropUpTo
<1> DEFINE q == SubSeq(entries, n + 1, Len(entries))
<1>3. Live(q) /\ Len(q) = Len(entries) - n /\ \A i \in 1 .. Len(q) : q[i] = entries[i + n]
  BY SuffixLive
<1>4. entries' = q
  BY <1>1
<1>5. /\ Len(entries) \in Nat /\ n \in Nat /\ peak \in Nat
      /\ t \in Nat /\ spent \in Int
      /\ retained \subseteq Nat
  BY TimestampAssumption DEF RingInv, TypeOK
<1>6. spent' >= t /\ spent' >= spent /\ spent' \in Int
  BY <1>2, <1>5
<1> HIDE DEF q
<1>7. ASSUME ~ overflowWarned', NEW u \in retained', u > spent'
      PROVE  HasEntry(q, u)
  <2>1. u \in Nat /\ u > t /\ u > spent
    BY <1>2, <1>5, <1>6, <1>7
  <2>2. PICK i \in 1 .. Len(entries) : entries[i].timestamp = u
    BY <2>1, <1>2, <1>7 DEF Ledger, HasEntry
  <2>3. ~ (i \in 1 .. n)
    BY <2>1, <2>2, <1>1, <1>5 DEF IsSpent
  <2>4. i - n \in 1 .. Len(q) /\ (i - n) + n = i
    BY <2>3, <1>3, <1>5
  <2>5. QED BY <2>2, <2>4, <1>3 DEF HasEntry
<1>8. QED BY <1>2, <1>3, <1>4, <1>5, <1>7 DEF Ledger

LEMMA NextLedger == RingInv /\ Ledger /\ [Next]_vars => Ledger'
<1> SUFFICES ASSUME RingInv, Ledger, [Next]_vars PROVE Ledger'
  OBVIOUS
<1>1. CASE Alloc
  BY <1>1 DEF Alloc, Ledger
<1>2. ASSUME NEW t \in Timestamps, Push(t) PROVE Ledger'
  BY <1>2, PushLedger
<1>3. CASE PushCopyFails
  BY <1>3, PushCopyFailsLedger
<1>4. ASSUME NEW t \in Timestamps, DropUpTo(t) PROVE Ledger'
  BY <1>4, DropLedger
<1>5. CASE Clear
  <2>1. Len(entries') = 0 /\ retained' = {} /\ peak' = peak /\ overflowWarned' = overflowWarned
    BY <1>5 DEF Clear
  <2>2. peak \in Nat
    BY DEF RingInv, TypeOK
  <2>3. QED BY <2>1, <2>2 DEF Ledger
<1>6. CASE UNCHANGED vars
  BY <1>6 DEF vars, Ledger
<1>7. QED BY <1>1, <1>2, <1>3, <1>4, <1>5, <1>6 DEF Next

(* The ledger holds in every reachable state. *)
THEOREM LedgerInvariant == Spec => []Ledger
<1>1. QED BY InitLedger, NextLedger, RingInvariant, PTL DEF Spec

(* As long as no overflow was reported, every retained frame that is not   *)
(* yet spent can be found, for every pool size and every history.          *)
THEOREM NoEarlyLossCorrect == Spec => []NoEarlyLoss
<1>1. Ledger => NoEarlyLoss
  BY DEF Ledger, HasEntry, NoEarlyLoss, CanFind
<1>2. QED BY <1>1, LedgerInvariant, PTL

(* A frame dropped early always shows in the reported peak. *)
THEOREM PeakCorrect == Spec => []PeakTellsOverflow
<1>1. Ledger => PeakTellsOverflow
  BY DEF Ledger, PeakTellsOverflow
<1>2. QED BY <1>1, LedgerInvariant, PTL
=============================================================================
