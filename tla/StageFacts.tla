----------------------------- MODULE StageFacts -----------------------------
(***************************************************************************)
(* Facts about sequences of frames and about a stage that holds frames     *)
(* back, for the proofs about the chains.                                  *)
(***************************************************************************)
EXTENDS Stages, FiniteSets, SequenceTheorems, FiniteSetTheorems, TLAPS

Elems(q) == {q[i] : i \in 1 .. Len(q)}

Sorted(q) == \A i, j \in 1 .. Len(q) : i < j => q[i] < q[j]

Before(S, T) == \A x \in S : \A y \in T : x < y

Holding(S) == [hold : Seq(S), pending : Seq(S)]

(* The frames a stage has are in order, those worked on first. *)
InOrder(st) ==
  /\ Sorted(st.hold)
  /\ Sorted(st.pending)
  /\ Before(Elems(st.pending), Elems(st.hold))

(* A frame comes out. *)
PutsOut(a) == a.out # {}

(* The frames `had' are all kept, or the first of them comes out. *)
Answers(had, a) ==
  \/ a.out = {} /\ InStage(a) = had
  \/ \E x \in had : a.out = {x} /\ InStage(a) = had \ {x} /\ Before({x}, InStage(a))

-----------------------------------------------------------------------------
(* Sequences of frames                                                     *)

(* A later frame at the end. *)
LEMMA AppendElems ==
  ASSUME NEW S \in SUBSET Int, NEW q \in Seq(S), NEW f \in S
  PROVE  /\ Append(q, f) \in Seq(S) /\ Len(Append(q, f)) = Len(q) + 1
         /\ Elems(Append(q, f)) = Elems(q) \cup {f}
         /\ Sorted(q) /\ Before(Elems(q), {f}) => Sorted(Append(q, f))
<1>1. /\ Append(q, f) \in Seq(S) /\ Len(Append(q, f)) = Len(q) + 1 /\ Len(q) \in Nat
      /\ \A i \in 1 .. Len(q) : Append(q, f)[i] = q[i]
      /\ Append(q, f)[Len(q) + 1] = f
  BY AppendProperties, LenProperties
<1>2. Elems(Append(q, f)) = Elems(q) \cup {f}
  <2>1. ASSUME NEW x \in Elems(Append(q, f)) PROVE x \in Elems(q) \cup {f}
    <3>1. PICK i \in 1 .. Len(q) + 1 : x = Append(q, f)[i]
      BY <1>1 DEF Elems
    <3>2. i \in 1 .. Len(q) \/ i = Len(q) + 1
      BY <1>1
    <3>3. QED
      BY <1>1, <3>1, <3>2 DEF Elems
  <2>2. ASSUME NEW x \in Elems(q) PROVE x \in Elems(Append(q, f))
    <3>1. PICK i \in 1 .. Len(q) : x = q[i]
      BY DEF Elems
    <3>2. i \in 1 .. Len(q) + 1 /\ Append(q, f)[i] = x
      BY <1>1, <3>1
    <3>3. QED
      BY <1>1, <3>2 DEF Elems
  <2>3. f \in Elems(Append(q, f))
    <3>1. Len(q) + 1 \in 1 .. Len(Append(q, f))
      BY <1>1
    <3>2. QED
      BY <1>1, <3>1 DEF Elems
  <2>4. QED
    BY <2>1, <2>2, <2>3
<1>3. ASSUME Sorted(q), Before(Elems(q), {f}) PROVE Sorted(Append(q, f))
  <2>1. ASSUME NEW i \in 1 .. Len(q) + 1, NEW j \in 1 .. Len(q) + 1, i < j
        PROVE  Append(q, f)[i] < Append(q, f)[j]
    <3>1. i \in 1 .. Len(q) /\ (j \in 1 .. Len(q) \/ j = Len(q) + 1)
      BY <1>1, <2>1
    <3>2. q[i] < f
      BY <1>3, <3>1 DEF Before, Elems
    <3>3. QED
      BY <1>1, <1>3, <2>1, <3>1, <3>2 DEF Sorted
  <2>2. QED
    BY <1>1, <2>1 DEF Sorted
<1>4. QED
  BY <1>1, <1>2, <1>3

(* The first frame is taken off. *)
LEMMA TailElems ==
  ASSUME NEW S \in SUBSET Int, NEW q \in Seq(S), q # << >>
  PROVE  /\ Head(q) \in S /\ Tail(q) \in Seq(S) /\ Len(Tail(q)) = Len(q) - 1 /\ Len(q) >= 1
         /\ Elems(q) = Elems(Tail(q)) \cup {Head(q)}
         /\ Sorted(q) => Sorted(Tail(q)) /\ Before({Head(q)}, Elems(Tail(q)))
                         /\ Elems(Tail(q)) = Elems(q) \ {Head(q)}
<1>1. /\ Head(q) = q[1] /\ Head(q) \in S /\ Tail(q) \in Seq(S) /\ Len(Tail(q)) = Len(q) - 1
      /\ Len(q) \in Nat /\ Len(q) >= 1
      /\ \A i \in 1 .. Len(q) - 1 : Tail(q)[i] = q[i + 1]
  BY HeadTailProperties, LenProperties, ElementOfSeq
<1>2. ASSUME NEW x \in Elems(q) PROVE x \in Elems(Tail(q)) \cup {Head(q)}
  <2>1. PICK i \in 1 .. Len(q) : x = q[i]
    BY DEF Elems
  <2>2. CASE i = 1
    BY <1>1, <2>1, <2>2
  <2>3. CASE i > 1
    <3>1. i - 1 \in 1 .. Len(Tail(q)) /\ Tail(q)[i - 1] = q[(i - 1) + 1] /\ (i - 1) + 1 = i
      BY <1>1, <2>3
    <3>2. QED
      BY <2>1, <3>1 DEF Elems
  <2>4. QED
    BY <1>1, <2>2, <2>3
<1>3. ASSUME NEW x \in Elems(Tail(q))
      PROVE  \E i \in 1 .. Len(q) : i > 1 /\ x = q[i]
  <2>1. PICK i \in 1 .. Len(Tail(q)) : x = Tail(q)[i]
    BY DEF Elems
  <2>2. i + 1 \in 1 .. Len(q) /\ i + 1 > 1 /\ x = q[i + 1]
    BY <1>1, <2>1
  <2>3. QED
    BY <2>2
<1>4. Elems(q) = Elems(Tail(q)) \cup {Head(q)}
  <2>1. Head(q) \in Elems(q)
    BY <1>1 DEF Elems
  <2>2. \A x \in Elems(Tail(q)) : x \in Elems(q)
    BY <1>3 DEF Elems
  <2>3. QED
    BY <1>2, <2>1, <2>2
<1>5. ASSUME Sorted(q)
      PROVE  Sorted(Tail(q)) /\ Before({Head(q)}, Elems(Tail(q)))
  <2>1. Sorted(Tail(q))
    BY <1>1, <1>5 DEF Sorted
  <2>2. Before({Head(q)}, Elems(Tail(q)))
    BY <1>1, <1>3, <1>5 DEF Sorted, Before
  <2>3. QED
    BY <2>1, <2>2
<1>6. ASSUME Sorted(q) PROVE Elems(Tail(q)) = Elems(q) \ {Head(q)}
  <2>1. ~ Head(q) < Head(q)
    <3>1. Head(q) \in Int
      BY <1>1
    <3>2. QED
      BY <3>1
  <2>2. QED
    BY <1>4, <1>5, <1>6, <2>1 DEF Before
<1>7. QED
  BY <1>1, <1>4, <1>5, <1>6

(* What a sequence has is what it may have, and no more than its length. *)
LEMMA ElemsCount ==
  ASSUME NEW S, NEW q \in Seq(S)
  PROVE  /\ Elems(q) \subseteq S
         /\ IsFiniteSet(Elems(q)) /\ Cardinality(Elems(q)) <= Len(q) /\ Cardinality(Elems(q)) \in Nat
<1>1. Len(q) \in Nat /\ \A i \in 1 .. Len(q) : q[i] \in S
  BY ElementOfSeq, LenProperties
<1> DEFINE f == [i \in 1 .. Len(q) |-> q[i]]
<1>2. f \in Surjection(1 .. Len(q), Elems(q))
  BY <1>1 DEF Elems, Surjection
<1>3. IsFiniteSet(1 .. Len(q)) /\ Cardinality(1 .. Len(q)) = Len(q)
  BY <1>1, FS_Interval
<1>4. QED
  BY <1>1, <1>2, <1>3, FS_Surjection, FS_CardinalityType DEF Elems

(* An ordered sequence has as many frames as it is long. *)
LEMMA SortedCount ==
  ASSUME NEW S \in SUBSET Int, NEW q \in Seq(S), Sorted(q)
  PROVE  Cardinality(Elems(q)) = Len(q)
<1>1. Len(q) \in Nat /\ \A i \in 1 .. Len(q) : q[i] \in S /\ q[i] \in Int
  BY ElementOfSeq, LenProperties
<1> DEFINE f == [i \in 1 .. Len(q) |-> q[i]]
<1>2. f \in Surjection(1 .. Len(q), Elems(q))
  BY <1>1 DEF Elems, Surjection
<1>3. \A i, j \in 1 .. Len(q) : f[i] = f[j] => i = j
  <2>1. ASSUME NEW i \in 1 .. Len(q), NEW j \in 1 .. Len(q), i # j PROVE q[i] # q[j]
    <3>1. CASE i < j
      BY <1>1, <2>1, <3>1 DEF Sorted
    <3>2. CASE j < i
      BY <1>1, <2>1, <3>2 DEF Sorted
    <3>3. QED
      BY <2>1, <3>1, <3>2
  <2>2. QED
    BY <2>1
<1>4. f \in Injection(1 .. Len(q), Elems(q))
  BY <1>2, <1>3 DEF Injection, IsInjective, Surjection
<1>5. IsFiniteSet(1 .. Len(q)) /\ Cardinality(1 .. Len(q)) = Len(q)
  <2>1. Len(q) \in Nat
    BY <1>1
  <2>2. QED
    BY <2>1, FS_Interval
<1>6. QED
  BY <1>2, <1>4, <1>5, FS_Surjection

-----------------------------------------------------------------------------
(* The stage                                                               *)

(* A stage is asked for its oldest frame. *)
LEMMA WorkedAnswer ==
  ASSUME NEW S \in SUBSET Int, NEW st \in Holding(S), NEW depth \in Nat, st.hold # << >>,
         Len(st.pending) <= depth, NEW a, a = Worked(st.hold, st.pending, depth)
  PROVE  /\ a.hold = Tail(st.hold) /\ a.hold \in Seq(S) /\ a.pending \in Seq(S)
         /\ Len(a.hold) = Len(st.hold) - 1 /\ Len(st.hold) >= 1
         /\ Len(a.pending) <= depth
         /\ Len(st.pending) = depth => PutsOut(a) /\ Len(a.pending) = depth
         /\ Len(st.pending) # depth => ~ PutsOut(a)
         /\ a.out \in SUBSET S
         /\ InOrder(st) => Answers(InStage(st), a) /\ InOrder(a)
<1> DEFINE hold == st.hold
           pending == st.pending
<1>0. hold \in Seq(S) /\ pending \in Seq(S) /\ hold # << >> /\ Len(pending) <= depth
      /\ a = Worked(hold, pending, depth)
      /\ InStage(st) = Elems(pending) \cup Elems(hold)
      /\ (InOrder(st) <=> InOrder([hold |-> hold, pending |-> pending]))
  BY DEF Holding, InStage, Elems, InOrder
<1> HIDE DEF hold, pending
<1> DEFINE q == Append(pending, Head(hold))
<1>1. /\ Head(hold) \in S /\ Tail(hold) \in Seq(S) /\ Len(Tail(hold)) = Len(hold) - 1 /\ Len(hold) >= 1
      /\ Elems(hold) = Elems(Tail(hold)) \cup {Head(hold)}
      /\ Sorted(hold) => Sorted(Tail(hold)) /\ Before({Head(hold)}, Elems(Tail(hold)))
                         /\ Elems(Tail(hold)) = Elems(hold) \ {Head(hold)}
  BY <1>0, TailElems
<1>2. /\ q \in Seq(S) /\ Len(q) = Len(pending) + 1 /\ q # << >>
      /\ Elems(q) = Elems(pending) \cup {Head(hold)}
      /\ Sorted(pending) /\ Before(Elems(pending), {Head(hold)}) => Sorted(q)
  <2>1. /\ q \in Seq(S) /\ Len(q) = Len(pending) + 1
        /\ Elems(q) = Elems(pending) \cup {Head(hold)}
        /\ Sorted(pending) /\ Before(Elems(pending), {Head(hold)}) => Sorted(q)
    BY <1>0, <1>1, AppendElems
  <2>2. Len(pending) \in Nat
    BY <1>0, LenProperties
  <2>3. q # << >>
    <3> HIDE DEF q
    <3>1. QED
      BY <2>1, <2>2
  <2>4. QED
    BY <2>1, <2>3
<1>3. /\ Head(q) \in S /\ Tail(q) \in Seq(S) /\ Len(Tail(q)) = Len(q) - 1 /\ Len(q) >= 1
      /\ Elems(q) = Elems(Tail(q)) \cup {Head(q)}
      /\ Sorted(q) => Sorted(Tail(q)) /\ Before({Head(q)}, Elems(Tail(q)))
                      /\ Elems(Tail(q)) = Elems(q) \ {Head(q)}
  BY <1>2, TailElems
<1>4. Len(pending) \in Nat /\ Len(hold) \in Nat
  BY <1>0, LenProperties
<1>5. IF Len(pending) = depth
      THEN a = [hold |-> Tail(hold), pending |-> Tail(q), out |-> {Head(q)}]
      ELSE a = [hold |-> Tail(hold), pending |-> q, out |-> {}]
  <2>1. Len(q) > depth <=> Len(pending) = depth
    BY <1>0, <1>2, <1>4
  <2>2. a = IF Len(q) > depth THEN Puts(Tail(hold), q) ELSE Silent(Tail(hold), q)
    BY <1>0 DEF Worked
  <2> HIDE DEF q
  <2>3. QED
    BY <2>1, <2>2 DEF Puts, Silent
<1>6. ASSUME InOrder([hold |-> hold, pending |-> pending])
      PROVE  /\ Sorted(q) /\ Sorted(Tail(hold)) /\ Before(Elems(q), Elems(Tail(hold)))
             /\ Elems(Tail(hold)) \cup Elems(q) = Elems(pending) \cup Elems(hold)
  <2>1. Sorted(hold) /\ Sorted(pending) /\ Before(Elems(pending), Elems(hold))
    BY <1>6 DEF InOrder
  <2>2. Before(Elems(pending), {Head(hold)})
    BY <1>1, <2>1 DEF Before
  <2>3. Before(Elems(q), Elems(Tail(hold)))
    BY <1>1, <1>2, <2>1 DEF Before
  <2>4. QED
    BY <1>1, <1>2, <2>1, <2>2, <2>3
<1>7. ASSUME InOrder([hold |-> hold, pending |-> pending])
      PROVE  Answers(Elems(pending) \cup Elems(hold), a) /\ InOrder(a)
  <2>1. InStage(a) = Elems(a.hold) \cup Elems(a.pending)
    BY DEF InStage, Elems
  <2>2. CASE Len(pending) = depth
    <3>1. a.hold = Tail(hold) /\ a.pending = Tail(q) /\ a.out = {Head(q)}
      BY <1>5, <2>2
    <3> HIDE DEF q
    <3>2. InOrder(a)
      BY <1>3, <1>6, <1>7, <3>1 DEF InOrder, Before
    <3>3. Head(q) \in Elems(pending) \cup Elems(hold)
      BY <1>3, <1>6, <1>7
    <3>4. Before({Head(q)}, Elems(Tail(hold)))
      BY <1>3, <1>6, <1>7 DEF Before
    <3>5. Before({Head(q)}, InStage(a))
      BY <1>3, <1>6, <1>7, <2>1, <3>1, <3>4 DEF Before
    <3>6. Head(q) \notin Elems(Tail(hold))
      <4>1. ~ Head(q) < Head(q)
        <5>1. Head(q) \in Int
          BY <1>3
        <5>2. QED
          BY <5>1
      <4>2. QED
        BY <3>4, <4>1 DEF Before
    <3>7. InStage(a) = (Elems(pending) \cup Elems(hold)) \ {Head(q)}
      BY <1>3, <1>6, <1>7, <2>1, <3>1, <3>6
    <3>8. QED
      BY <3>1, <3>2, <3>3, <3>5, <3>7 DEF Answers
  <2>3. CASE Len(pending) # depth
    <3>1. a.hold = Tail(hold) /\ a.pending = q /\ a.out = {}
      BY <1>5, <2>3
    <3> HIDE DEF q
    <3>2. InOrder(a) /\ InStage(a) = Elems(pending) \cup Elems(hold)
      BY <1>6, <1>7, <2>1, <3>1 DEF InOrder
    <3>3. QED
      BY <3>1, <3>2 DEF Answers
  <2>4. QED
    BY <2>2, <2>3
<1>8. /\ a.hold = Tail(hold) /\ a.hold \in Seq(S) /\ a.pending \in Seq(S)
      /\ Len(a.pending) <= depth
      /\ IF Len(pending) = depth THEN a.out # {} /\ Len(a.pending) = depth ELSE a.out = {}
      /\ a.out \in SUBSET S
  <2>1. CASE Len(pending) = depth
    <3>1. a.hold = Tail(hold) /\ a.pending = Tail(q) /\ a.out = {Head(q)}
      BY <1>5, <2>1
    <3> HIDE DEF q
    <3>2. QED
      BY <1>0, <1>1, <1>2, <1>3, <1>4, <2>1, <3>1
  <2>2. CASE Len(pending) # depth
    <3>1. a.hold = Tail(hold) /\ a.pending = q /\ a.out = {}
      BY <1>5, <2>2
    <3> HIDE DEF q
    <3>2. QED
      BY <1>0, <1>1, <1>2, <1>4, <2>2, <3>1
  <2>3. QED
    BY <2>1, <2>2
<1>9. QED
  BY <1>0, <1>1, <1>7, <1>8 DEF hold, pending, PutsOut

(* What answer a is to a stage st that is given frame f: the stage keeps   *)
(* within its delay, is full once it puts a frame out and puts one out     *)
(* once it is full, and keeps the order.                                   *)
FedAs(S, st, f, delay, depth, a) ==
  /\ a.hold \in Seq(S) /\ a.pending \in Seq(S) /\ a.out \in SUBSET S
  /\ Len(a.hold) <= delay /\ Len(a.pending) <= depth
  /\ PutsOut(a) => Len(a.hold) = delay /\ Len(a.pending) = depth
  /\ Len(st.hold) = delay /\ Len(st.pending) = depth => PutsOut(a)
  /\ InOrder(st) /\ Before(InStage(st), {f}) => Answers(InStage(st) \cup {f}, a) /\ InOrder(a)

(* A stage is given a frame that is later than those it has: it keeps all  *)
(* of them or puts the first of them out, and once it does it is as full   *)
(* as it may be.                                                           *)
LEMMA FedAnswer ==
  ASSUME NEW S \in SUBSET Int, NEW st \in Holding(S), NEW f \in S, NEW delay \in Nat, NEW depth \in Nat,
         Len(st.hold) <= delay, Len(st.pending) <= depth, NEW a, a = StageFed(st, f, delay, depth)
  PROVE  FedAs(S, st, f, delay, depth, a)
<1>0. SUFFICES /\ a.hold \in Seq(S) /\ a.pending \in Seq(S) /\ a.out \in SUBSET S
               /\ Len(a.hold) <= delay /\ Len(a.pending) <= depth
               /\ PutsOut(a) => Len(a.hold) = delay /\ Len(a.pending) = depth
               /\ Len(st.hold) = delay /\ Len(st.pending) = depth => PutsOut(a)
               /\ InOrder(st) /\ Before(InStage(st), {f}) => Answers(InStage(st) \cup {f}, a) /\ InOrder(a)
  BY DEF FedAs
<1> DEFINE hold == Append(st.hold, f)
<1>1. st.hold \in Seq(S) /\ st.pending \in Seq(S) /\ Len(st.hold) \in Nat /\ Len(st.pending) \in Nat
  BY LenProperties DEF Holding
<1>2. /\ hold \in Seq(S) /\ Len(hold) = Len(st.hold) + 1 /\ Elems(hold) = Elems(st.hold) \cup {f}
      /\ Sorted(st.hold) /\ Before(Elems(st.hold), {f}) => Sorted(hold)
  BY <1>1, AppendElems
<1>3. InStage(st) = Elems(st.hold) \cup Elems(st.pending)
  BY DEF InStage, Elems
<1>4. ASSUME InOrder(st), Before(InStage(st), {f})
      PROVE  /\ Sorted(hold) /\ Sorted(st.pending) /\ Before(Elems(st.pending), Elems(hold))
             /\ InStage(st) \cup {f} = Elems(st.pending) \cup Elems(hold)
             /\ InOrder([hold |-> hold, pending |-> st.pending])
  <2>1. Sorted(st.hold) /\ Sorted(st.pending) /\ Before(Elems(st.pending), Elems(st.hold))
    BY <1>4 DEF InOrder
  <2>2. Before(Elems(st.hold), {f}) /\ Before(Elems(st.pending), {f})
    BY <1>3, <1>4 DEF Before
  <2>3. Before(Elems(st.pending), Elems(hold))
    BY <1>2, <2>1, <2>2 DEF Before
  <2> HIDE DEF hold
  <2>4. QED
    BY <1>2, <1>3, <2>1, <2>2, <2>3 DEF InOrder
<1>5. a = IF Len(hold) > delay THEN Worked(hold, st.pending, depth)
          ELSE [hold |-> hold, pending |-> st.pending, out |-> {}]
  BY DEF StageFed, Silent
<1> HIDE DEF hold
<1>6. CASE Len(hold) > delay
  <2>1. hold # << >>
    BY <1>1, <1>2
  <2>2. PICK u \in Holding(S) : u.hold = hold /\ u.pending = st.pending
    <3>1. [hold |-> hold, pending |-> st.pending] \in Holding(S)
      BY <1>1, <1>2 DEF Holding
    <3>2. QED
      BY <3>1
  <2>3. /\ a.hold \in Seq(S) /\ a.pending \in Seq(S)
        /\ Len(a.hold) = Len(hold) - 1
        /\ Len(a.pending) <= depth
        /\ Len(st.pending) = depth => PutsOut(a) /\ Len(a.pending) = depth
        /\ Len(st.pending) # depth => ~ PutsOut(a)
        /\ a.out \in SUBSET S
        /\ InOrder(u) => Answers(InStage(u), a) /\ InOrder(a)
    <3>1. a = Worked(u.hold, u.pending, depth) /\ u.hold # << >> /\ Len(u.pending) <= depth
      BY <1>5, <1>6, <2>1, <2>2
    <3>2. QED
      BY <2>2, <3>1, WorkedAnswer
  <2>4. ASSUME InOrder(st), Before(InStage(st), {f})
        PROVE  Answers(InStage(st) \cup {f}, a) /\ InOrder(a)
    <3>1. InOrder(u) /\ InStage(u) = InStage(st) \cup {f}
      BY <1>4, <2>2, <2>4 DEF InOrder, InStage, Elems
    <3>2. QED
      BY <2>3, <3>1
  <2>5. QED
    BY <1>1, <1>2, <1>6, <2>3, <2>4
<1>7. CASE ~ Len(hold) > delay
  <2>1. a.hold = hold /\ a.pending = st.pending /\ a.out = {}
    BY <1>5, <1>7
  <2>2. InStage(a) = Elems(a.hold) \cup Elems(a.pending)
    BY DEF InStage, Elems
  <2>3. ASSUME InOrder(st), Before(InStage(st), {f})
        PROVE  Answers(InStage(st) \cup {f}, a) /\ InOrder(a)
    BY <1>4, <2>1, <2>2, <2>3 DEF Answers, InOrder
  <2>4. QED
    BY <1>1, <1>2, <1>7, <2>1, <2>3 DEF PutsOut
<1>8. QED
  BY <1>6, <1>7

(* A stage is given a drain tick.  It has nothing for it if it has no      *)
(* frame, or if it has put none out before.                                *)
LEMMA TickedAnswer ==
  ASSUME NEW S \in SUBSET Int, NEW st \in Holding(S), NEW depth \in Nat, Len(st.pending) <= depth,
         NEW a, a = StageTicked(st, depth)
  PROVE  /\ a.hold \in Seq(S) /\ a.pending \in Seq(S) /\ a.out \in SUBSET S
         /\ Len(a.hold) <= Len(st.hold) /\ Len(a.pending) <= depth
         /\ PutsOut(a) /\ a.hold # << >> => Len(a.pending) = depth
         /\ ~ PutsOut(a) => InStage(st) = {} \/ (st.hold # << >> /\ Len(st.pending) # depth)
         /\ InOrder(st) => Answers(InStage(st), a) /\ InOrder(a)
<1>1. st.hold \in Seq(S) /\ st.pending \in Seq(S) /\ Len(st.hold) \in Nat /\ Len(st.pending) \in Nat
  BY LenProperties DEF Holding
<1>2. InStage(st) = Elems(st.pending) \cup Elems(st.hold)
  BY DEF InStage, Elems
<1>3. a = IF st.hold # << >> THEN Worked(st.hold, st.pending, depth)
          ELSE IF st.pending # << >>
          THEN [hold |-> st.hold, pending |-> Tail(st.pending), out |-> {Head(st.pending)}]
          ELSE [hold |-> st.hold, pending |-> st.pending, out |-> {}]
  BY DEF StageTicked, Puts, Silent
<1>4. InStage(a) = Elems(a.hold) \cup Elems(a.pending)
  BY DEF InStage, Elems
<1>5. Elems(<< >>) = {}
  BY DEF Elems
<1>6. CASE st.hold # << >>
  <2>1. /\ a.hold = Tail(st.hold) /\ a.hold \in Seq(S) /\ a.pending \in Seq(S)
        /\ Len(a.hold) = Len(st.hold) - 1
        /\ Len(a.pending) <= depth
        /\ Len(st.pending) = depth => PutsOut(a) /\ Len(a.pending) = depth
        /\ Len(st.pending) # depth => ~ PutsOut(a)
        /\ a.out \in SUBSET S
        /\ InOrder(st) => Answers(InStage(st), a) /\ InOrder(a)
    <3>1. a = Worked(st.hold, st.pending, depth)
      BY <1>3, <1>6
    <3>2. QED
      BY <1>6, <3>1, WorkedAnswer
  <2>2. QED
    BY <1>1, <1>6, <2>1
<1>7. CASE st.hold = << >> /\ st.pending # << >>
  <2> DEFINE q == st.pending
  <2>1. /\ Head(q) \in S /\ Tail(q) \in Seq(S) /\ Len(Tail(q)) = Len(q) - 1 /\ Len(q) >= 1
        /\ Elems(q) = Elems(Tail(q)) \cup {Head(q)}
        /\ Sorted(q) => Sorted(Tail(q)) /\ Before({Head(q)}, Elems(Tail(q)))
                        /\ Elems(Tail(q)) = Elems(q) \ {Head(q)}
    BY <1>1, <1>7, TailElems
  <2>2. a.hold = << >> /\ a.pending = Tail(q) /\ a.out = {Head(q)} /\ << >> \in Seq(S)
    BY <1>3, <1>7
  <2>3. ASSUME InOrder(st) PROVE Answers(InStage(st), a) /\ InOrder(a)
    <3>1. Sorted(q) /\ Sorted(Tail(q)) /\ Sorted(a.hold)
      BY <1>7, <2>1, <2>2, <2>3 DEF InOrder
    <3>2. InStage(a) = Elems(Tail(q)) /\ InStage(st) = Elems(q)
      BY <1>2, <1>4, <1>5, <1>7, <2>2
    <3>3. InOrder(a)
      BY <1>5, <2>2, <3>1 DEF InOrder, Before
    <3>4. QED
      BY <2>1, <2>2, <3>1, <3>2, <3>3 DEF Answers
  <2>4. QED
    BY <1>1, <1>7, <2>1, <2>2, <2>3 DEF PutsOut
<1>8. CASE st.hold = << >> /\ st.pending = << >>
  <2>1. a.hold = st.hold /\ a.pending = st.pending /\ a.out = {}
    BY <1>3, <1>8
  <2>2. InStage(a) = InStage(st) /\ InStage(st) = {}
    BY <1>2, <1>4, <1>5, <1>8, <2>1
  <2>3. InOrder(st) => Answers(InStage(st), a) /\ InOrder(a)
    BY <2>1, <2>2 DEF Answers, InOrder
  <2>4. ~ PutsOut(a) /\ a.out \in SUBSET S
    BY <2>1 DEF PutsOut
  <2>5. /\ a.hold \in Seq(S) /\ a.pending \in Seq(S)
        /\ Len(a.hold) <= Len(st.hold) /\ Len(a.pending) <= depth
    BY <1>1, <2>1
  <2>6. QED
    BY <2>2, <2>3, <2>4, <2>5
<1>9. QED
  BY <1>6, <1>7, <1>8

(* What a call that fails may leave: at most two frames of those there     *)
(* were are gone, of which one was the oldest.                             *)
Leaves(had, left) ==
  \E x, y : /\ InStage(left) \subseteq had /\ had \ InStage(left) \subseteq {x, y}
            /\ y = x \/ Before({y}, InStage(left))

(* A call that fails leaves the stage as it was or as the answer has it.   *)
LEMMA AfterFailure ==
  ASSUME NEW st, NEW a, NEW left \in StageAfterFailure(st, a)
  PROVE  \/ left = st
         \/ \E p : /\ left = [hold |-> a.hold, pending |-> p]
                   /\ \/ p = st.pending
                      \/ PutsOut(a) /\ st.pending # << >> /\ p = Tail(st.pending)
<1> DEFINE rest == IF a.out # {} /\ st.pending # << >> THEN {Tail(st.pending)} ELSE {}
<1>1. left \in {st} \cup {[hold |-> a.hold, pending |-> p] : p \in {st.pending} \cup rest}
  BY DEF StageAfterFailure
<1>2. ASSUME NEW p \in rest PROVE PutsOut(a) /\ st.pending # << >> /\ p = Tail(st.pending)
  BY <1>2 DEF PutsOut
<1> HIDE DEF rest
<1>3. CASE left # st
  <2>1. PICK p \in {st.pending} \cup rest : left = [hold |-> a.hold, pending |-> p]
    BY <1>1, <1>3
  <2>2. QED
    BY <1>2, <2>1
<1>4. QED
  BY <1>3

(* A call that worked on the oldest frame fails: that one is lost, and the *)
(* one that was to come out may be.                                        *)
LEMMA WorkedFails ==
  ASSUME NEW S \in SUBSET Int, NEW st \in Holding(S), NEW depth \in Nat, st.hold # << >>,
         Len(st.pending) <= depth, NEW a, a = Worked(st.hold, st.pending, depth),
         NEW left, left.hold = a.hold,
         left.pending = st.pending \/ (st.pending # << >> /\ left.pending = Tail(st.pending))
  PROVE  /\ left.hold \in Seq(S) /\ left.pending \in Seq(S)
         /\ Len(left.hold) = Len(st.hold) - 1 /\ Len(left.pending) <= depth
         /\ InOrder(st) => InOrder(left) /\ Leaves(InStage(st), left)
<1>1. st.hold \in Seq(S) /\ st.pending \in Seq(S) /\ Len(st.hold) \in Nat /\ Len(st.pending) \in Nat
  BY LenProperties DEF Holding
<1>2. a.hold = Tail(st.hold)
  BY WorkedAnswer
<1>3. /\ Tail(st.hold) \in Seq(S) /\ Len(Tail(st.hold)) = Len(st.hold) - 1
      /\ Elems(st.hold) = Elems(Tail(st.hold)) \cup {Head(st.hold)}
      /\ Sorted(st.hold) => Sorted(Tail(st.hold))
  BY <1>1, TailElems
<1>4. InStage(st) = Elems(st.hold) \cup Elems(st.pending)
      /\ InStage(left) = Elems(left.hold) \cup Elems(left.pending)
  BY DEF InStage, Elems
<1>5. CASE left.pending = st.pending
  <2>1. ASSUME InOrder(st) PROVE InOrder(left) /\ Leaves(InStage(st), left)
    <3>1. InOrder(left)
      BY <1>2, <1>3, <1>5, <2>1 DEF InOrder, Before
    <3>2. InStage(left) \subseteq InStage(st)
          /\ InStage(st) \ InStage(left) \subseteq {Head(st.hold), Head(st.hold)}
      BY <1>2, <1>3, <1>4, <1>5
    <3>3. QED
      BY <3>1, <3>2 DEF Leaves
  <2>2. QED
    BY <1>1, <1>2, <1>3, <1>5, <2>1
<1>6. CASE st.pending # << >> /\ left.pending = Tail(st.pending)
  <2>1. /\ Tail(st.pending) \in Seq(S) /\ Len(Tail(st.pending)) = Len(st.pending) - 1
        /\ Elems(st.pending) = Elems(Tail(st.pending)) \cup {Head(st.pending)}
        /\ Sorted(st.pending) => Sorted(Tail(st.pending))
    BY <1>1, <1>6, TailElems
  <2>2. ASSUME InOrder(st) PROVE InOrder(left) /\ Leaves(InStage(st), left)
    <3>1. InOrder(left)
      BY <1>2, <1>3, <1>6, <2>1, <2>2 DEF InOrder, Before
    <3>2. InStage(left) \subseteq InStage(st)
          /\ InStage(st) \ InStage(left) \subseteq {Head(st.hold), Head(st.pending)}
      BY <1>2, <1>3, <1>4, <1>6, <2>1
    <3>3. Before({Head(st.pending)}, InStage(left))
      <4>1. Before({Head(st.pending)}, Elems(Tail(st.pending)))
        BY <1>1, <1>6, <2>2, TailElems DEF InOrder
      <4>2. Before({Head(st.pending)}, Elems(Tail(st.hold)))
        BY <1>3, <2>1, <2>2 DEF InOrder, Before
      <4>3. QED
        BY <1>2, <1>4, <1>6, <4>1, <4>2 DEF Before
    <3>4. QED
      BY <3>1, <3>2, <3>3 DEF Leaves
  <2>3. QED
    BY <1>1, <1>2, <1>3, <1>6, <2>1, <2>2
<1>7. QED
  BY <1>5, <1>6

(* A call with frame f fails. *)
LEMMA FedFails ==
  ASSUME NEW S \in SUBSET Int, NEW st \in Holding(S), NEW f \in S, NEW delay \in Nat, NEW depth \in Nat,
         Len(st.hold) <= delay, Len(st.pending) <= depth,
         NEW left, left \in StageAfterFailure(st, StageFed(st, f, delay, depth))
  PROVE  /\ left.hold \in Seq(S) /\ left.pending \in Seq(S) /\ left \in Holding(S)
         /\ Len(left.hold) <= delay /\ Len(left.pending) <= depth
         /\ InOrder(st) /\ Before(InStage(st), {f}) => InOrder(left) /\ Leaves(InStage(st) \cup {f}, left)
<1>1. st.hold \in Seq(S) /\ st.pending \in Seq(S) /\ Len(st.hold) \in Nat /\ Len(st.pending) \in Nat
  BY LenProperties DEF Holding
<1>2. PICK h : h = Append(st.hold, f)
  OBVIOUS
<1>3. /\ h \in Seq(S) /\ Len(h) = Len(st.hold) + 1 /\ Elems(h) = Elems(st.hold) \cup {f}
      /\ Sorted(st.hold) /\ Before(Elems(st.hold), {f}) => Sorted(h)
  BY <1>1, <1>2, AppendElems
<1>4. PICK u \in Holding(S) : u = [hold |-> h, pending |-> st.pending]
  <2>1. [hold |-> h, pending |-> st.pending] \in Holding(S)
    BY <1>1, <1>3 DEF Holding
  <2>2. QED
    BY <2>1
<1>5. PICK a : a = StageFed(st, f, delay, depth)
  OBVIOUS
<1>6. a = IF Len(h) > delay THEN Worked(h, st.pending, depth) ELSE Silent(h, st.pending)
  BY <1>2, <1>5 DEF StageFed
<1>7. \/ left = st
      \/ \E p : /\ left = [hold |-> a.hold, pending |-> p]
                /\ (p = st.pending \/ (PutsOut(a) /\ st.pending # << >> /\ p = Tail(st.pending)))
  <2>1. left \in StageAfterFailure(st, a)
    BY <1>5
  <2>2. QED
    BY <2>1, AfterFailure
<1>8. ASSUME InOrder(st), Before(InStage(st), {f})
      PROVE  InOrder(u) /\ InStage(u) = InStage(st) \cup {f}
  <2>1. Sorted(st.hold) /\ Sorted(st.pending) /\ Before(Elems(st.pending), Elems(st.hold))
    BY <1>8 DEF InOrder
  <2>2. InStage(st) = Elems(st.hold) \cup Elems(st.pending) /\ InStage(u) = Elems(u.hold) \cup Elems(u.pending)
    BY DEF InStage, Elems
  <2>3. u.hold = h /\ u.pending = st.pending
    BY <1>4
  <2>4. Before(Elems(st.hold), {f}) /\ Before(Elems(st.pending), Elems(h))
    BY <1>3, <1>8, <2>1, <2>2 DEF Before
  <2>5. QED
    BY <1>3, <2>1, <2>2, <2>3, <2>4 DEF InOrder
<1>9. CASE left = st
  <2>1. Leaves(InStage(st) \cup {f}, left)
    BY <1>9 DEF Leaves
  <2>2. QED
    BY <1>1, <1>9, <2>1
<1>10. CASE left # st /\ Len(h) > delay
  <2>1. u.hold # << >> /\ u.hold = h /\ u.pending = st.pending
    BY <1>1, <1>3, <1>4
  <2>2. a = Worked(u.hold, u.pending, depth) /\ Len(u.pending) <= depth
    BY <1>6, <1>10, <2>1
  <2>3. PICK p : /\ left = [hold |-> a.hold, pending |-> p]
                 /\ (p = u.pending \/ (u.pending # << >> /\ p = Tail(u.pending)))
    BY <1>7, <1>10, <2>1
  <2>4. /\ left.hold \in Seq(S) /\ left.pending \in Seq(S)
        /\ Len(left.hold) = Len(u.hold) - 1 /\ Len(left.pending) <= depth
        /\ InOrder(u) => InOrder(left) /\ Leaves(InStage(u), left)
    <3>1. left.hold = a.hold /\ (left.pending = u.pending \/ (u.pending # << >> /\ left.pending = Tail(u.pending)))
      BY <2>3
    <3>2. QED
      BY <2>1, <2>2, <3>1, WorkedFails
  <2>5. left \in Holding(S)
    BY <2>3, <2>4 DEF Holding
  <2>6. Len(left.hold) <= delay
    BY <1>1, <1>3, <2>1, <2>4
  <2>7. QED
    BY <1>8, <2>4, <2>5, <2>6
<1>11. CASE left # st /\ ~ Len(h) > delay
  <2>1. a.hold = h /\ a.out = {}
    BY <1>6, <1>11 DEF Silent
  <2>2. left = u
    <3>1. ~ PutsOut(a)
      BY <2>1 DEF PutsOut
    <3>2. left = [hold |-> a.hold, pending |-> st.pending]
      BY <1>7, <1>11, <3>1
    <3>3. QED
      BY <1>4, <2>1, <3>2
  <2>3. u.hold = h /\ u.pending = st.pending
    BY <1>4
  <2>4. ASSUME InOrder(st), Before(InStage(st), {f})
        PROVE  Leaves(InStage(st) \cup {f}, left)
    BY <1>8, <2>2, <2>4 DEF Leaves
  <2>5. QED
    BY <1>1, <1>3, <1>8, <1>11, <2>2, <2>3, <2>4
<1>12. QED
  BY <1>9, <1>10, <1>11

(* A call with a drain tick fails. *)
LEMMA TickedFails ==
  ASSUME NEW S \in SUBSET Int, NEW st \in Holding(S), NEW depth \in Nat, Len(st.pending) <= depth,
         NEW left, left \in StageAfterFailure(st, StageTicked(st, depth))
  PROVE  /\ left.hold \in Seq(S) /\ left.pending \in Seq(S) /\ left \in Holding(S)
         /\ Len(left.hold) <= Len(st.hold) /\ Len(left.pending) <= depth
         /\ InOrder(st) => InOrder(left) /\ Leaves(InStage(st), left)
<1>1. st.hold \in Seq(S) /\ st.pending \in Seq(S) /\ Len(st.hold) \in Nat /\ Len(st.pending) \in Nat
  BY LenProperties DEF Holding
<1>2. PICK a : a = StageTicked(st, depth)
  OBVIOUS
<1>3. \/ left = st
      \/ \E p : /\ left = [hold |-> a.hold, pending |-> p]
                /\ (p = st.pending \/ (st.pending # << >> /\ p = Tail(st.pending)))
  <2>1. left \in StageAfterFailure(st, a)
    BY <1>2
  <2>2. QED
    BY <2>1, AfterFailure
<1>4. CASE left = st
  <2>1. Leaves(InStage(st), left)
    BY <1>4 DEF Leaves
  <2>2. QED
    BY <1>1, <1>4, <2>1
<1>5. CASE left # st /\ st.hold # << >>
  <2>1. a = Worked(st.hold, st.pending, depth)
    BY <1>2, <1>5 DEF StageTicked
  <2>2. PICK p : /\ left = [hold |-> a.hold, pending |-> p]
                 /\ (p = st.pending \/ (st.pending # << >> /\ p = Tail(st.pending)))
    BY <1>3, <1>5
  <2>3. /\ left.hold \in Seq(S) /\ left.pending \in Seq(S)
        /\ Len(left.hold) = Len(st.hold) - 1 /\ Len(left.pending) <= depth
        /\ InOrder(st) => InOrder(left) /\ Leaves(InStage(st), left)
    <3>1. left.hold = a.hold
          /\ (left.pending = st.pending \/ (st.pending # << >> /\ left.pending = Tail(st.pending)))
      BY <2>2
    <3>2. QED
      BY <1>5, <2>1, <3>1, WorkedFails
  <2>4. left \in Holding(S)
    BY <2>2, <2>3 DEF Holding
  <2>5. QED
    BY <1>1, <2>3, <2>4
<1>6. CASE left # st /\ st.hold = << >>
  <2>1. a.hold = << >>
    BY <1>2, <1>6 DEF StageTicked, Puts, Silent
  <2>2. PICK p : /\ left = [hold |-> << >>, pending |-> p]
                 /\ (p = st.pending \/ (st.pending # << >> /\ p = Tail(st.pending)))
    BY <1>3, <1>6, <2>1
  <2>3. << >> \in Seq(S) /\ Elems(<< >>) = {} /\ Sorted(<< >>)
    BY DEF Elems, Sorted
  <2>4. InStage(st) = Elems(st.pending) /\ InStage(left) = Elems(p)
    <3>1. InStage(st) = Elems(st.hold) \cup Elems(st.pending)
          /\ InStage(left) = Elems(left.hold) \cup Elems(left.pending)
      BY DEF InStage, Elems
    <3>2. QED
      BY <1>6, <2>2, <2>3, <3>1
  <2>5. p \in Seq(S) /\ Len(p) <= depth /\ (Sorted(st.pending) => Sorted(p))
        /\ Leaves(Elems(st.pending), left)
    <3>1. CASE p = st.pending
      <4>1. Leaves(Elems(st.pending), left)
        BY <2>4, <3>1 DEF Leaves
      <4>2. QED
        BY <1>1, <3>1, <4>1
    <3>2. CASE st.pending # << >> /\ p = Tail(st.pending)
      <4>1. /\ Tail(st.pending) \in Seq(S) /\ Len(Tail(st.pending)) = Len(st.pending) - 1
            /\ Elems(st.pending) = Elems(Tail(st.pending)) \cup {Head(st.pending)}
            /\ Sorted(st.pending) => Sorted(Tail(st.pending))
        BY <1>1, <3>2, TailElems
      <4>2. Leaves(Elems(st.pending), left)
        <5>1. InStage(left) \subseteq Elems(st.pending)
              /\ Elems(st.pending) \ InStage(left) \subseteq {Head(st.pending), Head(st.pending)}
          BY <2>4, <3>2, <4>1
        <5>2. QED
          BY <5>1 DEF Leaves
      <4>3. QED
        BY <1>1, <3>2, <4>1, <4>2
    <3>3. QED
      BY <2>2, <3>1, <3>2
  <2>6. InOrder(st) => InOrder(left)
    BY <2>2, <2>3, <2>5 DEF InOrder, Before
  <2>7. left \in Holding(S)
    BY <2>2, <2>3, <2>5 DEF Holding
  <2>8. left.hold = << >> /\ left.pending = p
    BY <2>2
  <2>9. QED
    BY <1>6, <2>3, <2>4, <2>5, <2>6, <2>7, <2>8
<1>7. QED
  BY <1>4, <1>5, <1>6

-----------------------------------------------------------------------------
(* A compensating pass: a frame is held back and none waits for a test     *)

(* One frame after another, and the first of them taken off.               *)
LEMMA OfTwo ==
  ASSUME NEW h, NEW f
  PROVE  /\ Append(<< h >>, f) = << h, f >> /\ Len(<< h, f >>) > 1 /\ Head(<< h, f >>) = h
         /\ Tail(<< h, f >>) = << f >>
         /\ Append(<< >>, h) = << h >> /\ Len(<< h >>) > 0 /\ Head(<< h >>) = h /\ Tail(<< h >>) = << >>
<1>1. Append(<< h >>, f) = << h, f >>
  <2>1. << h >> \in Seq({h, f}) /\ Len(<< h >>) = 1 /\ << h >>[1] = h
    OBVIOUS
  <2>2. << h, f >> \in Seq({h, f}) /\ Len(<< h, f >>) = 2 /\ << h, f >>[1] = h /\ << h, f >>[2] = f
    OBVIOUS
  <2>3. PICK u : u = Append(<< h >>, f)
    OBVIOUS
  <2>4. u \in Seq({h, f}) /\ Len(u) = 2 /\ u[1] = h /\ u[2] = f
    BY <2>1, <2>3, AppendProperties
  <2>5. \A i \in 1 .. 2 : u[i] = << h, f >>[i]
    BY <2>2, <2>4
  <2>6. u = << h, f >>
    BY <2>2, <2>4, <2>5, SeqEqual
  <2>7. QED
    BY <2>3, <2>6
<1>2. Len(<< h, f >>) > 1 /\ Len(<< h >>) > 0
  OBVIOUS
<1>3. Head(<< h, f >>) = h /\ Head(<< h >>) = h
  OBVIOUS
<1>4. Tail(<< h, f >>) = << f >>
  BY SMTT(20)
<1>5. Tail(<< h >>) = << >>
  OBVIOUS
<1>6. Append(<< >>, h) = << h >>
  OBVIOUS
<1>7. QED
  BY <1>1, <1>2, <1>3, <1>4, <1>5, <1>6

(* Given a frame it keeps that one and puts out what it had; a drain tick  *)
(* brings out what it has; a call that fails leaves either.                *)
LEMMA HoldsOne ==
  ASSUME NEW S \in SUBSET Int, NEW st \in Holding(S), Len(st.hold) <= 1, Len(st.pending) <= 0
  PROVE  /\ \A f \in S :
              /\ InStage(StageFed(st, f, 1, 0)) = {f}
              /\ StageFed(st, f, 1, 0).out = InStage(st)
              /\ \A x \in StageAfterFailure(st, StageFed(st, f, 1, 0)) :
                   InStage(x) = InStage(st) \/ InStage(x) = {f}
         /\ InStage(StageTicked(st, 0)) = {}
         /\ StageTicked(st, 0).out = InStage(st)
         /\ \A x \in StageAfterFailure(st, StageTicked(st, 0)) :
              InStage(x) = InStage(st) \/ InStage(x) = {}
         /\ InStage(st) = {} \/ \E h \in S : InStage(st) = {h}
<1>1. st.hold \in Seq(S) /\ st.pending \in Seq(S) /\ Len(st.hold) \in Nat /\ Len(st.pending) \in Nat
  BY LenProperties DEF Holding
<1>2. st.pending = << >>
  BY <1>1, EmptySeq
<1>3. \A a : InStage(a) = Elems(a.hold) \cup Elems(a.pending)
  BY DEF InStage, Elems
<1>4. Elems(<< >>) = {} /\ \A f : Elems(<< f >>) = {f} /\ << f >> # << >>
  BY DEF Elems
<1>5. \A x, a : a.pending = << >> /\ x \in StageAfterFailure(st, a) => x = st \/ InStage(x) = InStage(a)
  <2>1. ASSUME NEW a, a.pending = << >>, NEW x \in StageAfterFailure(st, a), x # st
        PROVE  InStage(x) = InStage(a)
    <3>1. x.hold = a.hold /\ x.pending = << >>
      BY <1>2, <2>1, AfterFailure
    <3>2. QED
      BY <1>3, <2>1, <3>1
  <2>2. QED
    BY <2>1
<1>6. CASE st.hold = << >>
  <2>1. InStage(st) = {}
    BY <1>2, <1>3, <1>4, <1>6
  <2>2. StageTicked(st, 0) = Silent(<< >>, << >>)
    BY <1>2, <1>6 DEF StageTicked
  <2>3. ASSUME NEW f \in S PROVE StageFed(st, f, 1, 0) = Silent(<< f >>, << >>)
    <3>1. Append(<< >>, f) = << f >> /\ ~ Len(<< f >>) > 1
      OBVIOUS
    <3>2. QED
      BY <1>2, <1>6, <3>1 DEF StageFed
  <2>4. \A h : /\ Silent(h, << >>).hold = h /\ Silent(h, << >>).pending = << >>
               /\ Silent(h, << >>).out = {}
    BY DEF Silent
  <2>5. /\ InStage(StageTicked(st, 0)) = {} /\ StageTicked(st, 0).out = {}
        /\ \A x \in StageAfterFailure(st, StageTicked(st, 0)) : InStage(x) = {}
    BY <1>3, <1>4, <1>5, <2>1, <2>2, <2>4
  <2>6. ASSUME NEW f \in S
        PROVE  /\ InStage(StageFed(st, f, 1, 0)) = {f} /\ StageFed(st, f, 1, 0).out = {}
               /\ \A x \in StageAfterFailure(st, StageFed(st, f, 1, 0)) :
                    InStage(x) = InStage(st) \/ InStage(x) = {f}
    <3>1. PICK a : a = StageFed(st, f, 1, 0)
      OBVIOUS
    <3>2. a.hold = << f >> /\ a.pending = << >> /\ a.out = {}
      BY <2>3, <2>4, <3>1
    <3>3. InStage(a) = {f}
      BY <1>3, <1>4, <3>2
    <3>4. QED
      BY <1>5, <3>1, <3>2, <3>3
  <2>7. QED
    BY <2>1, <2>5, <2>6
<1>7. CASE st.hold # << >>
  <2>1. PICK h \in S : st.hold = << h >>
    <3>0. ~ Len(st.hold) <= 0
      BY <1>1, <1>7, EmptySeq
    <3>1. Len(st.hold) = 1
      <4>1. PICK n \in Nat : n = Len(st.hold)
        BY <1>1
      <4>2. n <= 1 /\ ~ n <= 0
        BY <3>0, <4>1
      <4>3. n = 1
        BY <4>2
      <4>4. QED
        BY <4>1, <4>3
    <3>2. st.hold[1] \in S /\ st.hold = << st.hold[1] >>
      BY <1>1, <3>1
    <3>3. QED
      BY <3>2
  <2>2. InStage(st) = {h}
    BY <1>2, <1>3, <1>4, <2>1
  <2>3. \A r : Puts(r, << h >>) = [hold |-> r, pending |-> << >>, out |-> {h}]
    BY DEF Puts
  <2>4. StageTicked(st, 0) = [hold |-> << >>, pending |-> << >>, out |-> {h}]
    <3>1. StageTicked(st, 0) = Worked(<< h >>, << >>, 0)
      BY <1>2, <1>7, <2>1 DEF StageTicked
    <3>2. Append(<< >>, h) = << h >> /\ Len(<< h >>) > 0 /\ Head(<< h >>) = h /\ Tail(<< h >>) = << >>
      BY OfTwo
    <3>3. QED
      BY <2>3, <3>1, <3>2 DEF Worked
  <2>5. ASSUME NEW f \in S
        PROVE  StageFed(st, f, 1, 0) = [hold |-> << f >>, pending |-> << >>, out |-> {h}]
    <3>1. /\ Append(<< h >>, f) = << h, f >> /\ Len(<< h, f >>) > 1 /\ Head(<< h, f >>) = h
          /\ Tail(<< h, f >>) = << f >>
      BY OfTwo
    <3>2. StageFed(st, f, 1, 0) = Worked(<< h, f >>, << >>, 0)
      BY <1>2, <2>1, <3>1 DEF StageFed
    <3>3. Append(<< >>, h) = << h >> /\ Len(<< h >>) > 0
      BY OfTwo
    <3>4. QED
      BY <2>3, <3>1, <3>2, <3>3 DEF Worked
  <2>6. QED
    BY <1>3, <1>4, <1>5, <2>2, <2>4, <2>5
<1>8. QED
  BY <1>6, <1>7
=============================================================================
