---------------------------- MODULE BufferProofs ----------------------------
(***************************************************************************)
(* Proofs about the buffers of the module, for every value of the          *)
(* constants.                                                              *)
(*                                                                         *)
(* SplitGeometry: a split frame is composed as if there had been no split, *)
(* for every height, every boundary and every margin that is wide enough   *)
(* for what the deinterlacers look at.                                     *)
(*                                                                         *)
(* StreamOrder: the caller receives the frame it asked for, for every size *)
(* of the ring and the pool, every lag of the filters that they have room  *)
(* for and every number of frames, though a buffer is used again while     *)
(* work on its old contents is queued.  The argument is about the buffers  *)
(* as they will be when all the queued work is done: those have the        *)
(* latest frames.  A step of the device does not change what they will be, *)
(* and a call adds work at the end, so it has to be right about them only. *)
(*                                                                         *)
(* Bwdif: with a cache of three frames or more, every output is made from  *)
(* the right frames, whatever fails; and every step is one of the cheap    *)
(* deinterlacer the split takes it to be.                                  *)
(***************************************************************************)
EXTENDS SplitGeometry, StreamOrder, Bwdif, SequenceTheorems, RingArithmetic

-----------------------------------------------------------------------------
(* Split geometry: what is shown after each phase                          *)

(* A margin that keeps the chroma planes aligned, and in which the         *)
(* deinterlacers find all they look at, in a plane of half the rows too.   *)
WideMargin == Margin \in Nat /\ Margin % 4 = 0 /\ Reach \in Nat /\ 2 * Reach <= Margin

(* init() has split the frame. *)
Geometry ==
  /\ ~ SizeRefused /\ ~ BoundaryRefused /\ ~ CheapRefused /\ WantSplit
  /\ owned = Owned
  /\ proc = [s \in Sides |-> WithMargin(Owned[s])]

(* A row of the output plane is made as it would be without a split. *)
AsWhole(p, y, r) ==
  /\ r.row = y
  /\ r.near = [k \in -Reach .. Reach |-> IF y + k \in FrameRows(p) THEN y + k ELSE NoRow]
  /\ FieldsFit => r.field = y % 2

(* Of plane p the rows of S, and no others, have been written once. *)
Composed(p, S) ==
  /\ DOMAIN out[p] = S /\ DOMAIN writes[p] = S
  /\ \A y \in S : writes[p][y] = 1 /\ AsWhole(p, y, out[p][y])

(* What is done after each phase of a frame. *)
BandsInv ==
  /\ cfg \in Config
  /\ phase \in {"init", "crop", "chain", "cheap", "whole", "done", "refused"}
  /\ phase \in {"crop", "chain", "cheap"} => Geometry
  /\ phase \in {"chain", "cheap"} =>
       band = [s \in Sides |-> [p \in Planes |-> Cropped(p, proc[s])]]
  /\ phase \in {"init", "crop", "chain"} =>
       \A p \in Planes : out[p] = << >> /\ writes[p] = << >>
  /\ phase = "cheap" => \A p \in Planes : Composed(p, OwnedRows(p, "chain"))
  /\ phase = "done" => \A p \in Planes : Composed(p, FrameRows(p))

-----------------------------------------------------------------------------
(* Where the boundaries of a side are                                      *)

(* The side is the upper band or the lower one. *)
LEMMA SideIsABand ==
  ASSUME cfg \in Config, WideMargin, Geometry, NEW s \in Sides
  PROVE  /\ SplitY = cfg.splitY
         /\ SplitY \in Int /\ 0 < SplitY /\ SplitY < cfg.height
         /\ SplitY % 2 = 0 /\ cfg.height % 2 = 0 /\ cfg.height \in Nat
         /\ \/ /\ owned[s].from = 0 /\ owned[s].to = SplitY
               /\ proc[s].from = 0 /\ proc[s].to = Least(cfg.height, SplitY + Margin)
            \/ /\ owned[s].from = SplitY /\ owned[s].to = cfg.height
               /\ proc[s].from = Most(0, SplitY - Margin) /\ proc[s].to = cfg.height
<1>1. cfg.height \in Nat /\ cfg.splitY \in Int /\ cfg.side \in {"top", "bottom"}
  BY DEF Config
<1>2. SplitY = cfg.splitY /\ SplitY \in Int /\ 0 < SplitY /\ SplitY < cfg.height
  BY <1>1 DEF Geometry, WantSplit, SplitY, Most, Least
<1>3. SplitY % 2 = 0 /\ cfg.height % 2 = 0
  BY DEF Geometry, SizeRefused, BoundaryRefused
<1>4. Margin \in Nat
  BY DEF WideMargin
<1>5. WithMargin(Rows(0, SplitY)) = Rows(0, Least(cfg.height, SplitY + Margin))
  BY <1>1, <1>2, <1>4 DEF WithMargin, Rows, Most, Least
<1>6. WithMargin(Rows(SplitY, cfg.height)) = Rows(Most(0, SplitY - Margin), cfg.height)
  BY <1>1, <1>2, <1>4 DEF WithMargin, Rows, Most, Least
<1>7. Owned[s] = Rows(0, SplitY) \/ Owned[s] = Rows(SplitY, cfg.height)
  BY DEF Owned, Sides
<1>8. owned[s] = Owned[s] /\ proc[s] = WithMargin(Owned[s])
  BY DEF Geometry
<1>9. QED
  BY <1>1, <1>2, <1>3, <1>5, <1>6, <1>7, <1>8 DEF Rows

(* A band that begins below the frame's first row begins where the fields  *)
(* of its chroma do.                                                       *)
LEMMA BoundaryFits ==
  ASSUME cfg \in Config, WideMargin, Geometry, cfg.half, FieldsFit
  PROVE  SplitY % 4 = 0 \/ SplitY <= Margin
<1>1. PICK S, H, M : S = SplitY /\ H = cfg.height /\ M = Margin
  OBVIOUS
<1>2. S = cfg.splitY /\ S \in Int /\ 0 < S /\ S < H /\ S % 2 = 0 /\ H % 2 = 0 /\ H \in Nat
  BY <1>1, SideIsABand DEF Sides
<1>3. M \in Nat /\ M % 4 = 0
  BY <1>1 DEF WideMargin
<1>4. PICK r : r = WithMargin(Owned["cheap"]) /\ (r.to - r.from) % 4 = 0
  BY DEF Geometry, CheapRefused
<1>5. CASE S % 4 = 0
  BY <1>1, <1>5
<1>6. CASE H % 4 = 0 /\ cfg.side = "bottom"
  <2>1. Owned["cheap"] = Rows(S, H)
    BY <1>1, <1>6 DEF Owned
  <2>2. WithMargin(Rows(S, H)) = Rows(Most(0, S - M), H)
    BY <1>1, <1>2, <1>3 DEF WithMargin, Rows, Most, Least
  <2>3. r.from = Most(0, S - M) /\ r.to = H
    BY <1>4, <2>1, <2>2 DEF Rows
  <2>4. S > M => (H - (S - M)) % 4 = 0
    BY <1>2, <1>3, <1>4, <2>3 DEF Most
  <2>5. PICK m \in Int, h \in Int : M = 4 * m /\ H = 4 * h
    BY <1>2, <1>3, <1>6
  <2>6. S > M => S % 4 = 0
    BY <1>2, <2>4, <2>5
  <2>7. QED
    BY <1>1, <1>2, <1>3, <2>6
<1>7. CASE H % 4 = 0 /\ cfg.side = "top" /\ S + M <= H
  <2>1. Owned["cheap"] = Rows(0, S)
    BY <1>1, <1>7 DEF Owned
  <2>2. WithMargin(Rows(0, S)) = Rows(0, S + M)
    BY <1>1, <1>2, <1>3, <1>7 DEF WithMargin, Rows, Most, Least
  <2>3. (S + M) % 4 = 0
    BY <1>2, <1>3, <1>4, <2>1, <2>2 DEF Rows
  <2>4. PICK m \in Int : M = 4 * m
    BY <1>3
  <2>5. QED
    BY <1>1, <1>2, <2>3, <2>4
<1>8. QED
  BY <1>1, <1>2, <1>5, <1>6, <1>7 DEF FieldsFit, Config

(* What a side owns and what it is given of a plane. *)
LEMMA SideRows ==
  ASSUME cfg \in Config, WideMargin, Geometry, NEW s \in Sides, NEW p \in Planes,
         NEW a, a = PlaneRow(p, proc[s].from), NEW e, e = PlaneRow(p, proc[s].to),
         NEW b, b = PlaneRow(p, owned[s].from), NEW d, d = PlaneRow(p, owned[s].to),
         NEW h, h = PlaneRow(p, cfg.height)
  PROVE  /\ a \in Nat /\ b \in Nat /\ d \in Nat /\ e \in Nat /\ h \in Nat
         /\ a <= b /\ b <= d /\ d <= e /\ e <= h
         /\ a = 0 \/ b - a >= Reach
         /\ e = h \/ e - d >= Reach
         /\ FieldsFit => a % 2 = 0
<1> DEFINE H == cfg.height
<1> DEFINE S == SplitY
<1>1. /\ S \in Int /\ 0 < S /\ S < H /\ S % 2 = 0 /\ H % 2 = 0 /\ H \in Nat /\ S = cfg.splitY
      /\ \/ /\ owned[s].from = 0 /\ owned[s].to = S
            /\ proc[s].from = 0 /\ proc[s].to = Least(H, S + Margin)
         \/ /\ owned[s].from = S /\ owned[s].to = H
            /\ proc[s].from = Most(0, S - Margin) /\ proc[s].to = H
  BY SideIsABand
<1>2. Margin \in Nat /\ Margin % 4 = 0 /\ Reach \in Nat /\ 2 * Reach <= Margin
  BY DEF WideMargin
<1>3. CASE p = 0 \/ ~ cfg.half
  <2>1. \A y : PlaneRow(p, y) = y
    BY <1>3 DEF PlaneRow
  <2> HIDE DEF S, H
  <2>2. QED
    BY <1>1, <1>2, <2>1 DEF Least, Most, H, S
<1>4. CASE ~ (p = 0 \/ ~ cfg.half)
  <2>1. \A y : PlaneRow(p, y) = y \div 2
    BY <1>4 DEF PlaneRow
  <2>2. PICK m \in Nat : Margin = 4 * m
    BY <1>2
  <2>3. PICK i \in Nat, j \in Nat : S = 2 * i /\ H = 2 * j
    BY <1>1
  <2>4. \A n \in Nat : (2 * n) \div 2 = n
    OBVIOUS
  <2>5. FieldsFit => i % 2 = 0 \/ i <= 2 * m
    BY <1>2, <1>4, <2>2, <2>3, BoundaryFits
  <2>6. CASE owned[s].from = 0 /\ owned[s].to = S
             /\ proc[s].from = 0 /\ proc[s].to = Least(H, S + Margin)
    <3>1. a = 0 /\ b = 0 /\ d = i /\ h = j
      BY <2>1, <2>3, <2>4, <2>6
    <3>2. e = IF j < i + 2 * m THEN j ELSE i + 2 * m
      BY <2>1, <2>2, <2>3, <2>4, <2>6 DEF Least
    <3>3. QED
      BY <1>1, <1>2, <2>2, <2>3, <3>1, <3>2
  <2>7. CASE owned[s].from = S /\ owned[s].to = H
             /\ proc[s].from = Most(0, S - Margin) /\ proc[s].to = H
    <3>1. b = i /\ d = j /\ e = j /\ h = j
      BY <2>1, <2>3, <2>4, <2>7
    <3>2. a = IF 0 < i - 2 * m THEN i - 2 * m ELSE 0
      BY <2>1, <2>2, <2>3, <2>4, <2>7 DEF Most
    <3>3. i % 2 = 0 \/ i <= 2 * m => a % 2 = 0
      BY <3>2, <2>2, <2>3
    <3>4. QED
      BY <1>1, <1>2, <2>2, <2>3, <2>5, <3>1, <3>2, <3>3
  <2>8. QED
    BY <1>1, <2>6, <2>7
<1>5. QED
  BY <1>3, <1>4

-----------------------------------------------------------------------------
(* What the deinterlacers make of the rows                                 *)

(* A row a side owns is made of the frame's rows, and for its own field.   *)
LEMMA OwnedRowIsRight ==
  ASSUME cfg \in Config, WideMargin, Geometry, NEW s \in Sides, NEW p \in Planes,
         band[s][p] = Cropped(p, proc[s]), NEW y \in OwnedRows(p, s)
  PROVE  AsWhole(p, y, Deinterlaced(band[s][p], BandRow(p, s, y)))
<1> DEFINE a == PlaneRow(p, proc[s].from)
           e == PlaneRow(p, proc[s].to)
           b == PlaneRow(p, owned[s].from)
           d == PlaneRow(p, owned[s].to)
           h == PlaneRow(p, cfg.height)
           rows == band[s][p]
           x == BandRow(p, s, y)
<1>1. /\ a \in Nat /\ b \in Nat /\ d \in Nat /\ e \in Nat /\ h \in Nat
      /\ a <= b /\ b <= d /\ d <= e /\ e <= h
      /\ a = 0 \/ b - a >= Reach
      /\ e = h \/ e - d >= Reach
      /\ FieldsFit => a % 2 = 0
  BY SideRows
<1>2. y \in b .. d - 1
  BY DEF OwnedRows
<1>3. rows = [r \in 0 .. e - a - 1 |-> a + r]
  BY DEF Cropped
<1>4. x = y - a
  BY DEF BandRow
<1>5. FrameRows(p) = 0 .. h - 1
  BY DEF FrameRows
<1>6. Reach \in Nat
  BY DEF WideMargin
<1>7. DOMAIN rows = 0 .. e - a - 1 /\ \A r \in 0 .. e - a - 1 : rows[r] = a + r
  BY <1>3
<1> HIDE DEF a, e, b, d, h, rows, x
<1>8. x \in 0 .. e - a - 1 /\ rows[x] = y
  BY <1>1, <1>2, <1>4, <1>7
<1>9. ASSUME NEW k \in -Reach .. Reach
      PROVE  (IF x + k \in DOMAIN rows THEN rows[x + k] ELSE NoRow)
               = IF y + k \in FrameRows(p) THEN y + k ELSE NoRow
  <2>1. x + k \in 0 .. e - a - 1 <=> y + k \in 0 .. h - 1
    BY <1>1, <1>2, <1>4, <1>6
  <2>2. x + k \in 0 .. e - a - 1 => rows[x + k] = y + k
    BY <1>1, <1>2, <1>4, <1>6, <1>7
  <2>3. QED
    BY <1>5, <1>7, <2>1, <2>2
<1>10. FieldsFit => x % 2 = y % 2
  <2> SUFFICES ASSUME FieldsFit PROVE x % 2 = y % 2
    OBVIOUS
  <2>1. PICK n \in Nat : a = 2 * n
    BY <1>1
  <2>2. QED
    BY <1>1, <1>2, <1>4, <2>1
<1>11. QED
  BY <1>8, <1>9, <1>10 DEF AsWhole, Deinterlaced, rows, x

(* The two sides own every row of a plane between them, and none both.     *)
LEMMA SidesPartition ==
  ASSUME cfg \in Config, WideMargin, Geometry, NEW p \in Planes
  PROVE  /\ OwnedRows(p, "chain") \cup OwnedRows(p, "cheap") = FrameRows(p)
         /\ OwnedRows(p, "chain") \cap OwnedRows(p, "cheap") = {}
<1> DEFINE c == PlaneRow(p, SplitY)
           h == PlaneRow(p, cfg.height)
<1>1. "chain" \in Sides /\ "cheap" \in Sides
  BY DEF Sides
<1>2. cfg.height \in Nat /\ SplitY \in Int /\ 0 < SplitY /\ SplitY < cfg.height
      /\ SplitY % 2 = 0 /\ cfg.height % 2 = 0
  BY <1>1, SideIsABand
<1>3. PlaneRow(p, 0) = 0 /\ c \in Nat /\ h \in Nat /\ c <= h
  BY <1>2 DEF PlaneRow
<1>4. \/ /\ OwnedRows(p, "cheap") = PlaneRow(p, 0) .. c - 1
         /\ OwnedRows(p, "chain") = c .. h - 1
      \/ /\ OwnedRows(p, "chain") = PlaneRow(p, 0) .. c - 1
         /\ OwnedRows(p, "cheap") = c .. h - 1
  BY DEF OwnedRows, Geometry, Owned, Rows
<1>5. FrameRows(p) = 0 .. h - 1
  BY DEF FrameRows
<1> HIDE DEF c, h
<1>6. QED
  BY <1>3, <1>4, <1>5

-----------------------------------------------------------------------------
(* The steps                                                               *)

(* One side's rows are added to those that are there. *)
LEMMA CompositeAdds ==
  ASSUME cfg \in Config, WideMargin, Geometry, NEW s \in Sides, NEW p \in Planes,
         band = [t \in Sides |-> [q \in Planes |-> Cropped(q, proc[t])]],
         NEW S, Composed(p, S), S \cap OwnedRows(p, s) = {},
         Composite(s), UNCHANGED << cfg, owned, proc, band >>
  PROVE  Composed(p, S \cup OwnedRows(p, s))'
<1> DEFINE O == OwnedRows(p, s)
<1>1. DOMAIN out[p] = S /\ DOMAIN writes[p] = S
      /\ \A y \in S : writes[p][y] = 1 /\ AsWhole(p, y, out[p][y])
  BY DEF Composed
<1>2. out'[p] = [y \in O \cup S |->
                   IF y \in O THEN Deinterlaced(band[s][p], BandRow(p, s, y)) ELSE out[p][y]]
  BY <1>1 DEF Composite
<1>3. writes'[p] = [y \in O \cup S |->
                      (IF y \in O THEN 1 ELSE 0) + (IF y \in S THEN writes[p][y] ELSE 0)]
  BY <1>1 DEF Composite
<1>4. O' = O
  BY DEF OwnedRows, PlaneRow
<1>5. \A y, r : AsWhole(p, y, r)' <=> AsWhole(p, y, r)
  BY DEF AsWhole, FieldsFit, FrameRows, PlaneRow
<1>6. band[s][p] = Cropped(p, proc[s])
  OBVIOUS
<1>7. \A y \in O : AsWhole(p, y, Deinterlaced(band[s][p], BandRow(p, s, y)))
  BY <1>6, OwnedRowIsRight
<1> HIDE DEF O
<1>8. ASSUME NEW y \in O \cup S PROVE writes'[p][y] = 1 /\ AsWhole(p, y, out'[p][y])
  <2>1. CASE y \in O
    <3>1. y \notin S
      BY <2>1 DEF O
    <3>2. writes'[p][y] = 1
      BY <1>3, <2>1, <3>1
    <3>3. out'[p][y] = Deinterlaced(band[s][p], BandRow(p, s, y))
      BY <1>2, <2>1
    <3>4. QED
      BY <1>7, <2>1, <3>2, <3>3
  <2>2. CASE y \notin O
    <3>1. y \in S
      BY <2>2
    <3>2. writes'[p][y] = 1
      BY <1>1, <1>3, <2>2, <3>1
    <3>3. out'[p][y] = out[p][y]
      BY <1>2, <2>2, <3>1
    <3>4. QED
      BY <1>1, <3>1, <3>2, <3>3
  <2>3. QED
    BY <2>1, <2>2
<1>9. DOMAIN out'[p] = O \cup S /\ DOMAIN writes'[p] = O \cup S
  BY <1>2, <1>3
<1>10. S \cup O = O \cup S
  OBVIOUS
<1>11. (S \cup OwnedRows(p, s))' = S \cup O
  BY <1>4 DEF O
<1>12. QED
  BY <1>5, <1>8, <1>9, <1>10, <1>11 DEF Composed

LEMMA BandsInitInv ==
  ASSUME Configs \subseteq Config
  PROVE  BandsInit => BandsInv
BY DEF BandsInit, BandsInv

(* What init() has made of the configuration stays. *)
LEMMA GeometryStays ==
  ASSUME UNCHANGED << cfg, owned, proc >>
  PROVE  Geometry' <=> Geometry
BY DEF Geometry, SizeRefused, BoundaryRefused, CheapRefused, WantSplit, Owned, WithMargin, SplitY, Rows, Most, Least

LEMMA BandsStepInv ==
  ASSUME WideMargin
  PROVE  BandsInv /\ [BandsNext]_bandsVars => BandsInv'
<1> SUFFICES ASSUME BandsInv, [BandsNext]_bandsVars PROVE BandsInv'
  OBVIOUS
<1>1. CASE Split /\ CheapRefused
  BY <1>1 DEF Split, BandsInv
<1>2. CASE Split /\ ~ CheapRefused
  <2>1. cfg' = cfg /\ ~ SizeRefused /\ ~ BoundaryRefused /\ ~ CheapRefused /\ WantSplit
    BY <1>2 DEF Split
  <2>2. (SizeRefused' <=> SizeRefused) /\ (BoundaryRefused' <=> BoundaryRefused) /\ (WantSplit' <=> WantSplit)
    BY <2>1 DEF SizeRefused, BoundaryRefused, WantSplit, SplitY, Most, Least
  <2>3. Owned' = Owned /\ \A r : WithMargin(r)' = WithMargin(r)
    BY <2>1 DEF Owned, SplitY, WithMargin, Rows, Most, Least
  <2>4. CheapRefused' <=> CheapRefused
    BY <2>1, <2>3 DEF CheapRefused
  <2>5. Geometry'
    BY <1>2, <2>1, <2>2, <2>3, <2>4 DEF Split, Geometry
  <2>6. QED
    BY <1>2, <2>5 DEF Split, BandsInv
<1>3. CASE Unsplit \/ Refuse
  BY <1>3 DEF Unsplit, Refuse, BandsInv
<1>4. CASE CropBands
  <2>1. Geometry'
    BY <1>4, GeometryStays DEF CropBands, BandsInv
  <2>2. band' = [s \in Sides |-> [p \in Planes |-> Cropped(p, proc[s])]]'
    BY <1>4 DEF CropBands, Cropped, PlaneRow
  <2>3. QED
    BY <1>4, <2>1, <2>2 DEF CropBands, BandsInv
<1>5. CASE CompositeChain
  <2>1. Geometry /\ Geometry'
    BY <1>5, GeometryStays DEF CompositeChain, BandsInv
  <2>2. ASSUME NEW p \in Planes PROVE Composed(p, OwnedRows(p, "chain"))'
    <3>1. Composed(p, {})
      BY <1>5 DEF CompositeChain, BandsInv, Composed
    <3>2. Composed(p, {} \cup OwnedRows(p, "chain"))'
      BY <1>5, <2>1, <3>1, CompositeAdds DEF CompositeChain, BandsInv, Sides
    <3>3. QED
      BY <3>2
  <2>3. band' = [s \in Sides |-> [p \in Planes |-> Cropped(p, proc[s])]]'
    BY <1>5 DEF CompositeChain, BandsInv, Cropped, PlaneRow
  <2>4. QED
    BY <1>5, <2>1, <2>2, <2>3 DEF CompositeChain, BandsInv
<1>6. CASE CompositeCheap
  <2>1. Geometry
    BY <1>6 DEF CompositeCheap, BandsInv
  <2>2. ASSUME NEW p \in Planes PROVE Composed(p, FrameRows(p))'
    <3>1. PICK S : S = OwnedRows(p, "chain")
      OBVIOUS
    <3>2. Composed(p, S) /\ S \cap OwnedRows(p, "cheap") = {}
      BY <1>6, <2>1, <3>1, SidesPartition DEF CompositeCheap, BandsInv
    <3>3. Composed(p, S \cup OwnedRows(p, "cheap"))'
      BY <1>6, <2>1, <3>2, CompositeAdds DEF CompositeCheap, BandsInv, Sides
    <3>4. (S \cup OwnedRows(p, "cheap"))' = FrameRows(p)'
      <4>1. S \cup OwnedRows(p, "cheap") = FrameRows(p)
        BY <2>1, <3>1, SidesPartition DEF BandsInv
      <4>2. OwnedRows(p, "cheap")' = OwnedRows(p, "cheap") /\ FrameRows(p)' = FrameRows(p)
        BY <1>6 DEF CompositeCheap, OwnedRows, FrameRows, PlaneRow
      <4>3. QED
        BY <4>1, <4>2
    <3>5. QED
      BY <3>3, <3>4 DEF Composed
  <2>3. QED
    BY <1>6, <2>2 DEF CompositeCheap, BandsInv
<1>7. CASE PassWhole
  <2>1. ASSUME NEW p \in Planes PROVE Composed(p, FrameRows(p))'
    <3> DEFINE F == FrameRows(p)
    <3>1. out'[p] = [y \in F |-> Deinterlaced([r \in F |-> r], y)] /\ writes'[p] = [y \in F |-> 1]
      BY <1>7 DEF PassWhole
    <3>2. ASSUME NEW y \in F PROVE AsWhole(p, y, Deinterlaced([r \in F |-> r], y))
      BY DEF AsWhole, Deinterlaced
    <3>3. \A y, r : AsWhole(p, y, r)' <=> AsWhole(p, y, r)
      BY <1>7 DEF PassWhole, AsWhole, FieldsFit, FrameRows, PlaneRow
    <3>4. F' = F
      BY <1>7 DEF PassWhole, FrameRows, PlaneRow
    <3> HIDE DEF F
    <3>5. QED
      BY <3>1, <3>2, <3>3, <3>4 DEF Composed, F
  <2>2. QED
    BY <1>7, <2>1 DEF PassWhole, BandsInv
<1>8. CASE UNCHANGED bandsVars
  <2>1. Geometry' <=> Geometry
    BY <1>8, GeometryStays DEF bandsVars
  <2>2. ASSUME NEW p \in Planes
        PROVE  /\ Composed(p, FrameRows(p))' <=> Composed(p, FrameRows(p))
               /\ Composed(p, OwnedRows(p, "chain"))' <=> Composed(p, OwnedRows(p, "chain"))
    BY <1>8 DEF bandsVars, Composed, AsWhole, FieldsFit, FrameRows, OwnedRows, PlaneRow
  <2>3. [s \in Sides |-> [p \in Planes |-> Cropped(p, proc[s])]]'
           = [s \in Sides |-> [p \in Planes |-> Cropped(p, proc[s])]]
    BY <1>8 DEF bandsVars, Cropped, PlaneRow
  <2>4. QED
    BY <1>8, <2>1, <2>2, <2>3 DEF bandsVars, BandsInv
<1>9. QED
  BY <1>1, <1>2, <1>3, <1>4, <1>5, <1>6, <1>7, <1>8 DEF BandsNext

-----------------------------------------------------------------------------

(* Every row of a composed frame has been written once, by the one side    *)
(* that owns it, from the rows around it that the frame has, and as a row  *)
(* of its own field where both bands begin where the chroma's fields do:   *)
(* RTGMDIF_SPLIT_MARGIN need only be a multiple of four and twice as wide  *)
(* as what the deinterlacers look at.                                      *)
THEOREM BandsCorrect ==
  ASSUME WideMargin, Configs \subseteq Config
  PROVE  BandsSpec => []BandsCompose
<1>1. BandsInv => BandsCompose
  <2> SUFFICES ASSUME BandsInv, phase = "done" PROVE BandsCompose
    BY DEF BandsCompose, RowsOnce, BoundaryIsInterior, FieldsKeptWhereTheyFit, FieldsKept
  <2>1. ASSUME NEW p \in Planes
        PROVE  /\ DOMAIN out[p] = FrameRows(p) /\ DOMAIN writes[p] = FrameRows(p)
               /\ \A y \in FrameRows(p) : writes[p][y] = 1 /\ AsWhole(p, y, out[p][y])
    BY DEF BandsInv, Composed
  <2>2. RowsOnce
    BY <2>1 DEF RowsOnce
  <2>3. BoundaryIsInterior
    BY <2>1 DEF BoundaryIsInterior, AsWhole
  <2>4. FieldsKeptWhereTheyFit
    BY <2>1 DEF FieldsKeptWhereTheyFit, FieldsKept, AsWhole, FieldsFit
  <2>5. QED
    BY <2>2, <2>3, <2>4 DEF BandsCompose
<1>2. QED
  BY <1>1, BandsInitInv, BandsStepInv, PTL DEF BandsSpec

-----------------------------------------------------------------------------
(* Stream order: what the buffers will be                                  *)

(* The work there may be, and what the device's buffers may hold. *)
Ops ==
  [op : {"upload"}, frame : Int]
    \cup [op : {"inCopy"}, buf : 0 .. Ring - 1]
    \cup [op : {"chain"}, buf : 0 .. Ring - 1, slot : 0 .. Pool - 1]
    \cup [op : {"outCopy"}, slot : 0 .. Pool - 1]
    \cup [op : {"download"}, frame : Int]

Devices == [in : Int, out : Int, buf : [0 .. Ring - 1 -> Int], slot : [0 .. Pool - 1 -> Int]]

Now == [in |-> devIn, out |-> devOut, buf |-> inBuf, slot |-> slot]

(* What w makes of the buffers d. *)
Done(w, d) ==
  [in   |-> IF w.op = "upload" THEN w.frame ELSE d.in,
   out  |-> IF w.op = "outCopy" THEN d.slot[w.slot] ELSE d.out,
   buf  |-> IF w.op = "inCopy" THEN [d.buf EXCEPT ![w.buf] = d.in] ELSE d.buf,
   slot |-> IF w.op = "chain" THEN [d.slot EXCEPT ![w.slot] = d.buf[w.buf]] ELSE d.slot]

(* D has the buffers before and after each piece of the work q, from d on, *)
(* and what is downloaded is what it is to be.                             *)
Course(q, d, D) ==
  /\ q \in Seq(Ops)
  /\ D \in [0 .. Len(q) -> Devices]
  /\ D[0] = d
  /\ \A i \in 1 .. Len(q) :
       /\ D[i] = Done(q[i], D[i - 1])
       /\ q[i].op = "download" => D[i - 1].out = q[i].frame

(* The buffers will be d when all the work is done.  Then the input buffer *)
(* has the latest frame, the ring the latest frames, the batch's slots the *)
(* batch and the output buffer the frame that was asked for.               *)
Settled(d) ==
  /\ uploaded > 0 => d.in = uploaded - 1
  /\ \A f \in 0 .. inIndex - 1 : f >= inIndex - Ring => d.buf[NextBuf(f)] = f
  /\ \A i \in 1 .. Len(batch) : d.slot[batch[i].slot] = batch[i].frame
  /\ host \in {"inGet", "read"} => d.out = wanted

(* No slot is twice among those that are free or the batch's. *)
SlotsApart == \A i, j \in 1 .. Pool : Retired[i] = Retired[j] => i = j

Counts ==
  /\ inIndex <= uploaded /\ uploaded <= inIndex + 1
  /\ host = "read" /\ ownsStream => queue = << >>

OrderInv ==
  /\ OrderTypeOK
  /\ Counts
  /\ SlotsApart
  /\ ReceivedAsAsked
  /\ \E D, d : Course(queue, Now, D) /\ D[Len(queue)] = d /\ Settled(d)

-----------------------------------------------------------------------------
(* Work                                                                    *)

(* Work leaves buffers that have what buffers may have. *)
LEMMA DoneType ==
  ASSUME NEW w \in Ops, NEW d \in Devices
  PROVE  Done(w, d) \in Devices
<1>1. d.in \in Int /\ d.out \in Int /\ d.buf \in [0 .. Ring - 1 -> Int]
      /\ d.slot \in [0 .. Pool - 1 -> Int]
  BY DEF Devices
<1>2. w.op = "upload" => w.frame \in Int
  BY DEF Ops
<1>3. w.op = "outCopy" => w.slot \in 0 .. Pool - 1
  BY DEF Ops
<1>4. w.op = "chain" => w.slot \in 0 .. Pool - 1 /\ w.buf \in 0 .. Ring - 1
  BY DEF Ops
<1>5. (IF w.op = "upload" THEN w.frame ELSE d.in) \in Int
  BY <1>1, <1>2
<1>6. (IF w.op = "outCopy" THEN d.slot[w.slot] ELSE d.out) \in Int
  BY <1>1, <1>3
<1>7. (IF w.op = "inCopy" THEN [d.buf EXCEPT ![w.buf] = d.in] ELSE d.buf)
        \in [0 .. Ring - 1 -> Int]
  BY <1>1
<1>8. (IF w.op = "chain" THEN [d.slot EXCEPT ![w.slot] = d.buf[w.buf]] ELSE d.slot)
        \in [0 .. Pool - 1 -> Int]
  BY <1>1, <1>4
<1>9. QED
  BY <1>5, <1>6, <1>7, <1>8 DEF Done, Devices

(* The first piece of work is done. *)
LEMMA FirstDone ==
  ASSUME NEW q, NEW d, NEW D, Course(q, d, D), q # << >>
  PROVE  /\ Head(q) \in Ops
         /\ D[1] = Done(Head(q), d)
         /\ Head(q).op = "download" => d.out = Head(q).frame
         /\ \E E : Course(Tail(q), D[1], E) /\ E[Len(Tail(q))] = D[Len(q)]
<1>1. q \in Seq(Ops) /\ Len(q) \in Nat /\ Len(q) >= 1 /\ Head(q) = q[1] /\ q[1] \in Ops
  BY DEF Course
<1>2. Tail(q) \in Seq(Ops) /\ Len(Tail(q)) = Len(q) - 1
      /\ \A i \in 1 .. Len(q) - 1 : Tail(q)[i] = q[i + 1]
  BY <1>1
<1> DEFINE E == [i \in 0 .. Len(q) - 1 |-> D[i + 1]]
<1>3. D \in [0 .. Len(q) -> Devices] /\ D[0] = d
      /\ \A i \in 1 .. Len(q) : /\ D[i] = Done(q[i], D[i - 1])
                                /\ q[i].op = "download" => D[i - 1].out = q[i].frame
  BY DEF Course
<1>4. E \in [0 .. Len(Tail(q)) -> Devices] /\ E[0] = D[1] /\ E[Len(Tail(q))] = D[Len(q)]
  BY <1>1, <1>2, <1>3
<1>5. ASSUME NEW i \in 1 .. Len(Tail(q))
      PROVE  /\ E[i] = Done(Tail(q)[i], E[i - 1])
             /\ Tail(q)[i].op = "download" => E[i - 1].out = Tail(q)[i].frame
  <2>1. i + 1 \in 1 .. Len(q) /\ Tail(q)[i] = q[i + 1] /\ E[i] = D[i + 1]
        /\ E[i - 1] = D[(i + 1) - 1]
    BY <1>1, <1>2
  <2>2. QED
    BY <1>3, <2>1
<1>6. Course(Tail(q), D[1], E)
  BY <1>2, <1>4, <1>5 DEF Course
<1>7. QED
  BY <1>1, <1>3, <1>4, <1>6

(* A piece of work is added. *)
LEMMA OneMore ==
  ASSUME NEW q, NEW d, NEW D, Course(q, d, D), NEW w \in Ops,
         w.op = "download" => D[Len(q)].out = w.frame
  PROVE  \E E : Course(Append(q, w), d, E) /\ E[Len(Append(q, w))] = Done(w, D[Len(q)])
<1>1. q \in Seq(Ops) /\ Len(q) \in Nat
  BY DEF Course
<1>2. Append(q, w) \in Seq(Ops) /\ Len(Append(q, w)) = Len(q) + 1 /\ Append(q, w)[Len(q) + 1] = w
      /\ \A i \in 1 .. Len(q) : Append(q, w)[i] = q[i]
  BY <1>1
<1> DEFINE E == [i \in 0 .. Len(q) + 1 |-> IF i <= Len(q) THEN D[i] ELSE Done(w, D[Len(q)])]
<1>3. D \in [0 .. Len(q) -> Devices] /\ D[0] = d
      /\ \A i \in 1 .. Len(q) : /\ D[i] = Done(q[i], D[i - 1])
                                /\ q[i].op = "download" => D[i - 1].out = q[i].frame
  BY DEF Course
<1>4. E \in [0 .. Len(q) + 1 -> Devices] /\ E[0] = d /\ E[Len(q) + 1] = Done(w, D[Len(q)])
  BY <1>1, <1>3, DoneType
<1>5. ASSUME NEW i \in 1 .. Len(q) + 1
      PROVE  /\ E[i] = Done(Append(q, w)[i], E[i - 1])
             /\ Append(q, w)[i].op = "download" => E[i - 1].out = Append(q, w)[i].frame
  <2>1. CASE i <= Len(q)
    <3>1. i \in 1 .. Len(q) /\ E[i] = D[i] /\ E[i - 1] = D[i - 1] /\ Append(q, w)[i] = q[i]
      BY <1>1, <1>2, <2>1
    <3>2. QED
      BY <1>3, <3>1
  <2>2. CASE i = Len(q) + 1
    <3>1. E[i] = Done(w, D[Len(q)]) /\ E[i - 1] = D[Len(q)] /\ Append(q, w)[i] = w
      BY <1>1, <1>2, <2>2
    <3>2. QED
      BY <3>1
  <2>3. QED
    BY <1>1, <2>1, <2>2
<1>6. Course(Append(q, w), d, E)
  BY <1>2, <1>4, <1>5 DEF Course
<1>7. QED
  BY <1>2, <1>4, <1>6

(* Each of n frames has a slot of its own. *)
OneEach(slots, n) ==
  /\ slots \in [1 .. n -> 0 .. Pool - 1]
  /\ \A i, j \in 1 .. n : slots[i] = slots[j] => i = j

(* The slots when the chain has done its work for the first k frames. *)
SlotsAfter(d, first, slots, k) ==
  [s \in 0 .. Pool - 1 |->
     IF \E j \in 1 .. k : slots[j] = s
     THEN first + (CHOOSE j \in 1 .. k : slots[j] = s) - 1 ELSE d.slot[s]]

(* The buffers when it has done its work for n of them. *)
Chained(d, first, slots, n) == [d EXCEPT !.slot = SlotsAfter(d, first, slots, n)]

(* One more frame goes to a slot that none of those before it went to. *)
LEMMA SlotsNext ==
  ASSUME NEW d \in Devices, NEW first \in Int, NEW n \in Nat, NEW k \in 1 .. n,
         NEW slots, OneEach(slots, n)
  PROVE  /\ SlotsAfter(d, first, slots, k - 1) \in [0 .. Pool - 1 -> Int]
         /\ SlotsAfter(d, first, slots, k) \in [0 .. Pool - 1 -> Int]
         /\ \A s \in 0 .. Pool - 1 :
              SlotsAfter(d, first, slots, k)[s]
                = IF s = slots[k] THEN first + k - 1 ELSE SlotsAfter(d, first, slots, k - 1)[s]
<1>1. d.slot \in [0 .. Pool - 1 -> Int]
  BY DEF Devices
<1> USE DEF OneEach
<1>2. ASSUME NEW m \in 0 .. n, NEW s \in 0 .. Pool - 1, NEW j \in 1 .. m, slots[j] = s
      PROVE  (CHOOSE i \in 1 .. m : slots[i] = s) = j
  <2>1. (CHOOSE i \in 1 .. m : slots[i] = s) \in 1 .. m
        /\ slots[CHOOSE i \in 1 .. m : slots[i] = s] = s
    BY <1>2, Zenon
  <2>2. QED
    BY <1>2, <2>1
<1>3. ASSUME NEW m \in 0 .. n, NEW s \in 0 .. Pool - 1
      PROVE  SlotsAfter(d, first, slots, m)[s] \in Int
  <2>1. CASE \E j \in 1 .. m : slots[j] = s
    BY <1>2, <1>3, <2>1 DEF SlotsAfter
  <2>2. CASE ~ \E j \in 1 .. m : slots[j] = s
    BY <1>1, <1>3, <2>2 DEF SlotsAfter
  <2>3. QED
    BY <2>1, <2>2
<1>4. ASSUME NEW m \in 0 .. n
      PROVE  /\ SlotsAfter(d, first, slots, m)
                  = [s \in 0 .. Pool - 1 |-> SlotsAfter(d, first, slots, m)[s]]
             /\ SlotsAfter(d, first, slots, m) \in [0 .. Pool - 1 -> Int]
  <2>1. SlotsAfter(d, first, slots, m)
          = [s \in 0 .. Pool - 1 |-> SlotsAfter(d, first, slots, m)[s]]
    BY Zenon DEF SlotsAfter
  <2>2. QED
    BY <1>3, <2>1
<1>5. ASSUME NEW s \in 0 .. Pool - 1
      PROVE  SlotsAfter(d, first, slots, k)[s]
               = IF s = slots[k] THEN first + k - 1 ELSE SlotsAfter(d, first, slots, k - 1)[s]
  <2>1. CASE s = slots[k]
    <3>1. k \in 0 .. n /\ k \in 1 .. k
      OBVIOUS
    <3>2. (CHOOSE i \in 1 .. k : slots[i] = s) = k
      BY <1>2, <2>1, <3>1
    <3>3. SlotsAfter(d, first, slots, k)[s] = first + (CHOOSE i \in 1 .. k : slots[i] = s) - 1
      BY <2>1, <3>1 DEF SlotsAfter
    <3>4. QED
      BY <2>1, <3>2, <3>3
  <2>2. ASSUME s # slots[k], NEW j \in 1 .. k, slots[j] = s
        PROVE  SlotsAfter(d, first, slots, k)[s] = SlotsAfter(d, first, slots, k - 1)[s]
    <3>1. j \in 1 .. k - 1
      BY <2>2
    <3>2. (CHOOSE i \in 1 .. k : slots[i] = s) = j /\ (CHOOSE i \in 1 .. k - 1 : slots[i] = s) = j
      BY <1>2, <2>2, <3>1
    <3>3. QED
      BY <2>2, <3>1, <3>2 DEF SlotsAfter
  <2>3. CASE s # slots[k] /\ \A j \in 1 .. k : slots[j] # s
    BY <2>3 DEF SlotsAfter
  <2>4. QED
    BY <2>1, <2>2, <2>3
<1>6. k \in 0 .. n /\ k - 1 \in 0 .. n /\ slots[k] \in 0 .. Pool - 1
  OBVIOUS
<1>7. QED
  BY <1>4, <1>5, <1>6

(* The ring has each of the n frames. *)
InRing(buf, first, n) ==
  \A i \in 1 .. n : /\ NextBuf(first + i - 1) \in 0 .. Ring - 1
                     /\ buf[NextBuf(first + i - 1)] = first + i - 1

(* The chain's work for n frames whose input is in the ring is added: each *)
(* of its slots will have its frame, and nothing else will have changed.   *)
LEMMA ChainAdded ==
  ASSUME NEW q, NEW d, NEW D, Course(q, d, D), NEW first \in Int, NEW n \in Nat,
         NEW slots, OneEach(slots, n),
         InRing(D[Len(q)].buf, first, n)
  PROVE  \E E : /\ Course(q \o ChainWork(first, first + n - 1, slots), d, E)
               /\ E[Len(q \o ChainWork(first, first + n - 1, slots))]
                    = Chained(D[Len(q)], first, slots, n)
<1> DEFINE l == D[Len(q)]
           work == ChainWork(first, first + n - 1, slots)
           r == q \o work
           At(k) == [l EXCEPT !.slot = SlotsAfter(l, first, slots, k)]
           E == [i \in 0 .. Len(q) + n |-> IF i <= Len(q) THEN D[i] ELSE At(i - Len(q))]
<1>1. q \in Seq(Ops) /\ Len(q) \in Nat /\ D \in [0 .. Len(q) -> Devices] /\ D[0] = d
      /\ \A i \in 1 .. Len(q) : /\ D[i] = Done(q[i], D[i - 1])
                                /\ q[i].op = "download" => D[i - 1].out = q[i].frame
  BY DEF Course
<1>2. l \in Devices
  BY <1>1
<1> HIDE DEF l
<1>3. work = [i \in 1 .. n |-> [op |-> "chain", buf |-> NextBuf(first + i - 1), slot |-> slots[i]]]
  BY DEF ChainWork
<1>4. ASSUME NEW i \in 1 .. n PROVE work[i] \in Ops
  BY <1>3, <1>4 DEF Ops, OneEach, InRing
<1>5. work \in Seq(Ops) /\ Len(work) = n
  BY <1>3, <1>4
<1> HIDE DEF work
<1>6. r \in Seq(Ops) /\ Len(r) = Len(q) + n
      /\ (\A i \in 1 .. Len(q) : r[i] = q[i])
      /\ (\A i \in 1 .. n : r[Len(q) + i] = work[i])
  <2>1. r \in Seq(Ops) /\ Len(r) = Len(q) + Len(work)
        /\ \A i \in 1 .. Len(q) + Len(work) : r[i] = IF i <= Len(q) THEN q[i] ELSE work[i - Len(q)]
    BY <1>1, <1>5, ConcatProperties
  <2>2. QED
    BY <1>1, <1>5, <2>1
<1>7. ASSUME NEW k \in 1 .. n
      PROVE  /\ At(k) \in Devices
             /\ At(k) = Done(work[k], IF k = 1 THEN l ELSE At(k - 1))
  <2>1. l.in \in Int /\ l.out \in Int /\ l.buf \in [0 .. Ring - 1 -> Int]
        /\ l.slot \in [0 .. Pool - 1 -> Int]
        /\ l = [in |-> l.in, out |-> l.out, buf |-> l.buf, slot |-> l.slot]
    BY <1>2 DEF Devices
  <2>2. SlotsAfter(l, first, slots, k - 1) \in [0 .. Pool - 1 -> Int]
        /\ SlotsAfter(l, first, slots, k) \in [0 .. Pool - 1 -> Int]
        /\ SlotsAfter(l, first, slots, k)
             = [SlotsAfter(l, first, slots, k - 1) EXCEPT ![slots[k]] = first + k - 1]
    <3>1. l \in Devices /\ first \in Int /\ n \in Nat /\ k \in 1 .. n /\ OneEach(slots, n)
      BY <1>2
    <3>2. /\ SlotsAfter(l, first, slots, k - 1) \in [0 .. Pool - 1 -> Int]
          /\ SlotsAfter(l, first, slots, k) \in [0 .. Pool - 1 -> Int]
          /\ \A s \in 0 .. Pool - 1 :
               SlotsAfter(l, first, slots, k)[s]
                 = IF s = slots[k] THEN first + k - 1 ELSE SlotsAfter(l, first, slots, k - 1)[s]
      BY <3>1, SlotsNext
    <3>3. slots[k] \in 0 .. Pool - 1
      BY <3>1 DEF OneEach
    <3>4. QED
      BY <3>2, <3>3
  <2>3. SlotsAfter(l, first, slots, 0) = l.slot
    <3>1. ASSUME NEW s PROVE ~ \E j \in 1 .. 0 : slots[j] = s
      OBVIOUS
    <3>2. QED
      BY <2>1, <3>1 DEF SlotsAfter
  <2>4. At(k - 1) = IF k = 1 THEN l ELSE At(k - 1)
    BY <2>1, <2>3
  <2>5. At(k - 1).buf = l.buf /\ At(k - 1).slot = SlotsAfter(l, first, slots, k - 1)
        /\ At(k - 1).in = l.in /\ At(k - 1).out = l.out
    BY <2>1
  <2>6. work[k] = [op |-> "chain", buf |-> NextBuf(first + k - 1), slot |-> slots[k]]
    BY <1>3
  <2>7. l.buf[NextBuf(first + k - 1)] = first + k - 1
    BY DEF l, InRing
  <2>8. Done(work[k], At(k - 1)) = [in |-> l.in, out |-> l.out, buf |-> l.buf,
                                    slot |-> SlotsAfter(l, first, slots, k)]
    BY <2>2, <2>5, <2>6, <2>7 DEF Done
  <2>9. At(k) = [in |-> l.in, out |-> l.out, buf |-> l.buf,
                 slot |-> SlotsAfter(l, first, slots, k)]
    BY <2>1
  <2>10. At(k) \in Devices
    <3> HIDE DEF l, At
    <3>1. SlotsAfter(l, first, slots, k) \in [0 .. Pool - 1 -> Int]
      BY <2>2
    <3>2. QED
      BY <2>1, <2>9, <3>1 DEF Devices
  <2>11. QED
    BY <2>4, <2>8, <2>9, <2>10
<1> HIDE DEF At
<1>8. E \in [0 .. Len(r) -> Devices] /\ E[0] = d
  <2>1. ASSUME NEW i \in 0 .. Len(q) + n PROVE E[i] \in Devices
    <3>1. CASE i <= Len(q)
      BY <1>1, <2>1, <3>1
    <3>2. CASE i > Len(q)
      <4>1. i - Len(q) \in 1 .. n
        BY <1>1, <2>1, <3>2
      <4>2. QED
        BY <1>1, <1>7, <2>1, <3>2, <4>1
    <3>3. QED
      BY <1>1, <2>1, <3>1, <3>2
  <2>2. QED
    BY <1>1, <1>6, <2>1
<1>9. ASSUME NEW i \in 1 .. Len(r)
      PROVE  /\ E[i] = Done(r[i], E[i - 1])
             /\ r[i].op = "download" => E[i - 1].out = r[i].frame
  <2>1. CASE i <= Len(q)
    <3>1. i \in 1 .. Len(q) /\ E[i] = D[i] /\ E[i - 1] = D[i - 1] /\ r[i] = q[i]
      BY <1>1, <1>6, <2>1
    <3>2. QED
      BY <1>1, <3>1
  <2>2. CASE i > Len(q)
    <3>1. PICK k \in 1 .. n : i = Len(q) + k
      <4>1. i - Len(q) \in 1 .. n /\ i = Len(q) + (i - Len(q))
        BY <1>1, <1>6, <2>2
      <4>2. QED
        BY <4>1
    <3>2. E[i] = At(k) /\ E[i - 1] = (IF k = 1 THEN l ELSE At(k - 1)) /\ r[i] = work[k]
      <4>1. i \in 0 .. Len(q) + n /\ i - 1 \in 0 .. Len(q) + n /\ ~ i <= Len(q) /\ i - Len(q) = k
            /\ (i - 1 <= Len(q) <=> k = 1) /\ (k = 1 => i - 1 = Len(q)) /\ (i - 1) - Len(q) = k - 1
        BY <1>1, <3>1
      <4>2. E[i] = At(k)
        BY <4>1
      <4>3. E[i - 1] = IF k = 1 THEN l ELSE At(k - 1)
        BY <4>1 DEF l
      <4>4. r[i] = work[k]
        BY <1>6, <3>1
      <4>5. QED
        BY <4>2, <4>3, <4>4
    <3>3. work[k].op = "chain"
      BY <1>3
    <3>4. QED
      BY <1>7, <3>2, <3>3
  <2>3. QED
    BY <1>1, <1>6, <2>1, <2>2
<1>10. Course(r, d, E)
  BY <1>6, <1>8, <1>9 DEF Course
<1>11. E[Len(r)] = [l EXCEPT !.slot = SlotsAfter(l, first, slots, n)]
  <2>1. CASE n = 0
    <3>1. SlotsAfter(l, first, slots, 0) = l.slot
      <4>1. ASSUME NEW s PROVE ~ \E j \in 1 .. 0 : slots[j] = s
        OBVIOUS
      <4>2. l.slot \in [0 .. Pool - 1 -> Int]
        BY <1>2 DEF Devices
      <4>3. QED
        BY <4>1, <4>2 DEF SlotsAfter
    <3>2. [l EXCEPT !.slot = l.slot] = l
      BY <1>2 DEF Devices
    <3>3. E[Len(r)] = l
      BY <1>1, <1>6, <2>1 DEF l
    <3>4. QED
      BY <2>1, <3>1, <3>2, <3>3
  <2>2. CASE n > 0
    <3>1. Len(r) \in 0 .. Len(q) + n /\ ~ Len(r) <= Len(q) /\ Len(r) - Len(q) = n
      BY <1>1, <1>6, <2>2
    <3>2. QED
      BY <3>1 DEF At
  <2>3. QED
    BY <2>1, <2>2
<1>12. QED
  BY <1>10, <1>11 DEF l, work, Chained

(* Those slots have those frames then, and the others have what they had. *)
LEMMA SlotsHeld ==
  ASSUME NEW d \in Devices, NEW first \in Int, NEW n \in Nat, NEW slots, OneEach(slots, n)
  PROVE  /\ SlotsAfter(d, first, slots, n) \in [0 .. Pool - 1 -> Int]
         /\ \A i \in 1 .. n : SlotsAfter(d, first, slots, n)[slots[i]] = first + i - 1
<1>1. d.slot \in [0 .. Pool - 1 -> Int]
  BY DEF Devices
<1>2. ASSUME NEW j \in 1 .. n
      PROVE  SlotsAfter(d, first, slots, n)[slots[j]] = first + j - 1
  <2>1. slots[j] \in 0 .. Pool - 1
    BY DEF OneEach
  <2>2. (CHOOSE i \in 1 .. n : slots[i] = slots[j]) \in 1 .. n
        /\ slots[CHOOSE i \in 1 .. n : slots[i] = slots[j]] = slots[j]
    BY Zenon
  <2>3. (CHOOSE i \in 1 .. n : slots[i] = slots[j]) = j
    BY <2>2 DEF OneEach
  <2>4. QED
    BY <2>1, <2>3 DEF SlotsAfter
<1>3. ASSUME NEW s \in 0 .. Pool - 1
      PROVE  SlotsAfter(d, first, slots, n)[s] \in Int
  <2>1. CASE \E j \in 1 .. n : slots[j] = s
    BY <1>2, <2>1
  <2>2. CASE ~ \E j \in 1 .. n : slots[j] = s
    BY <1>1, <2>2 DEF SlotsAfter
  <2>3. QED
    BY <2>1, <2>2
<1>4. SlotsAfter(d, first, slots, n)
        = [s \in 0 .. Pool - 1 |-> SlotsAfter(d, first, slots, n)[s]]
  BY Zenon DEF SlotsAfter
<1>5. QED
  BY <1>2, <1>3, <1>4

-----------------------------------------------------------------------------
(* The slots                                                               *)

(* The free slots and the batch's are all the pool has. *)
LEMMA AllRetired ==
  ASSUME OrderTypeOK
  PROVE  Retired \in [1 .. Pool -> 0 .. Pool - 1] /\ Len(Retired) = Pool
<1> DEFINE back == [i \in 1 .. Len(batch) |-> batch[i].slot]
<1>1. back \in Seq(0 .. Pool - 1) /\ Len(back) = Len(batch)
  <2>1. batch \in Seq([slot : 0 .. Pool - 1, frame : Int])
    BY DEF OrderTypeOK, Frame
  <2>2. Len(batch) \in Nat /\ \A i \in 1 .. Len(batch) : batch[i] \in [slot : 0 .. Pool - 1, frame : Int]
    BY <2>1, ElementOfSeq, LenProperties
  <2>3. \A i \in 1 .. Len(batch) : batch[i].slot \in 0 .. Pool - 1
    BY <2>2
  <2>4. back \in [1 .. Len(batch) -> 0 .. Pool - 1]
    BY <2>3
  <2>5. QED
    BY <2>2, <2>4
<1>2. freeSlots \in Seq(0 .. Pool - 1) /\ Len(freeSlots) + Len(batch) = Pool
  BY DEF OrderTypeOK
<1> HIDE DEF back
<1>3. freeSlots \o back \in Seq(0 .. Pool - 1) /\ Len(freeSlots \o back) = Pool
  BY <1>1, <1>2
<1>4. Retired = freeSlots \o back
  BY DEF Retired, back
<1>5. QED
  BY <1>3, <1>4, LenProperties

(* A call that releases n frames gives each a slot of its own, and leaves  *)
(* every slot in one place.                                                *)
LEMMA Released ==
  ASSUME OrderTypeOK, SlotsApart, NEW first \in Int, NEW n \in 0 .. Pool, NEW before,
         Release(before, first, first + n - 1)
  PROVE  /\ OneEach(Taken(Retired, n), n)
         /\ batch' = [i \in 1 .. n |-> [slot |-> Taken(Retired, n)[i], frame |-> first + i - 1]]
         /\ batch' \in Seq([slot : 0 .. Pool - 1, frame : Int]) /\ Len(batch') = n
         /\ freeSlots' \in Seq(0 .. Pool - 1) /\ Len(freeSlots') + n = Pool
         /\ SlotsApart'
<1> DEFINE slots == Taken(Retired, n)
<1>1. Pool \in Nat
  BY OrderAssumption
<1>2. Retired \in [1 .. Pool -> 0 .. Pool - 1] /\ Len(Retired) = Pool
  BY AllRetired
<1>3. Retired \in Seq(0 .. Pool - 1)
  BY <1>1, <1>2
<1>4. slots = [i \in 1 .. n |-> Retired[Pool - i + 1]]
  BY <1>2 DEF Taken
<1>5. ASSUME NEW i \in 1 .. n PROVE Pool - i + 1 \in 1 .. Pool
  BY <1>1
<1>6. slots \in [1 .. n -> 0 .. Pool - 1] /\ Len(slots) = n
  BY <1>2, <1>4, <1>5
<1>7. OneEach(slots, n)
  <2>1. ASSUME NEW i \in 1 .. n, NEW j \in 1 .. n, slots[i] = slots[j] PROVE i = j
    <3>1. Pool - i + 1 \in 1 .. Pool /\ Pool - j + 1 \in 1 .. Pool
      BY <1>5
    <3>2. Retired[Pool - i + 1] = Retired[Pool - j + 1]
      BY <1>4, <2>1
    <3>3. Pool - i + 1 = Pool - j + 1
      BY <3>1, <3>2 DEF SlotsApart
    <3>4. QED
      BY <1>1, <3>3
  <2>2. QED
    BY <1>6, <2>1 DEF OneEach
<1>8. (first + n - 1) - first + 1 = n
  OBVIOUS
<1>9. /\ batch' = [i \in 1 .. Len(slots) |-> [slot |-> slots[i], frame |-> first + i - 1]]
      /\ freeSlots' = SubSeq(Retired, 1, Len(Retired) - Len(slots))
  BY <1>8, Zenon DEF Release
<1> HIDE DEF slots
<1>10. batch' = [i \in 1 .. n |-> [slot |-> slots[i], frame |-> first + i - 1]]
  BY <1>6, <1>9
<1>11. batch' \in Seq([slot : 0 .. Pool - 1, frame : Int]) /\ Len(batch') = n
  BY <1>6, <1>10
<1>12. /\ freeSlots' \in Seq(0 .. Pool - 1) /\ Len(freeSlots') = Pool - n
       /\ \A i \in 1 .. Pool - n : freeSlots'[i] = Retired[i]
  BY <1>1, <1>2, <1>3, <1>6, <1>9
<1>13. SlotsApart'
  <2> DEFINE back == [i \in 1 .. n |-> slots[i]]
  <2>1. Retired' = freeSlots' \o back
    <3>1. \A i \in 1 .. n : batch'[i].slot = slots[i]
      BY <1>10
    <3>2. [i \in 1 .. Len(batch') |-> batch'[i].slot] = back
      BY <1>11, <3>1
    <3>3. QED
      BY <3>2 DEF Retired
  <2>2. back \in Seq(0 .. Pool - 1) /\ Len(back) = n /\ \A i \in 1 .. n : back[i] = slots[i]
    BY <1>6
  <2> HIDE DEF back
  <2>3. \A i \in 1 .. Pool :
          Retired'[i] = IF i <= Pool - n THEN Retired[i] ELSE Retired[Pool - (i - (Pool - n)) + 1]
    <3>1. \A i \in 1 .. Pool :
            Retired'[i] = IF i <= Pool - n THEN freeSlots'[i] ELSE back[i - (Pool - n)]
      <4>1. Len(freeSlots') = Pool - n /\ Len(back) = n /\ (Pool - n) + n = Pool
        BY <1>1, <1>12, <2>2
      <4>2. \A i \in 1 .. Len(freeSlots') + Len(back) :
              (freeSlots' \o back)[i]
                = IF i <= Len(freeSlots') THEN freeSlots'[i] ELSE back[i - Len(freeSlots')]
        BY <1>12, <2>2, ConcatProperties
      <4>3. QED
        BY <2>1, <4>1, <4>2
    <3>2. ASSUME NEW i \in 1 .. Pool, i <= Pool - n PROVE freeSlots'[i] = Retired[i]
      BY <1>12, <3>2
    <3>3. ASSUME NEW i \in 1 .. Pool, ~ i <= Pool - n
          PROVE  back[i - (Pool - n)] = Retired[Pool - (i - (Pool - n)) + 1]
      <4>1. i - (Pool - n) \in 1 .. n
        BY <1>1, <3>3
      <4>2. QED
        BY <1>4, <2>2, <4>1
    <3>4. QED
      BY <3>1, <3>2, <3>3
  <2> DEFINE was(i) == IF i <= Pool - n THEN i ELSE Pool - (i - (Pool - n)) + 1
  <2>4. \A i \in 1 .. Pool : was(i) \in 1 .. Pool /\ Retired'[i] = Retired[was(i)]
    BY <1>1, <2>3
  <2>5. \A i, j \in 1 .. Pool : was(i) = was(j) => i = j
    BY <1>1
  <2> HIDE DEF was
  <2>6. QED
    BY <2>4, <2>5 DEF SlotsApart
<1>14. QED
  BY <1>1, <1>7, <1>10, <1>11, <1>12, <1>13 DEF slots

-----------------------------------------------------------------------------
(* The steps                                                               *)

(* The work there may be is work of the stream. *)
LEMMA OpsAreWork ==
  ASSUME NEW q \in Seq(Ops)
  PROVE  q \in Seq(Work)
<1>1. Ring \in Nat /\ Pool \in Nat
  BY OrderAssumption
<1>2. Ops \subseteq Work
  BY <1>1 DEF Ops, Work, Frame
<1>3. QED
  BY <1>2, SeqMonotonic

(* The buffers are what the device's buffers may be. *)
LEMMA NowType ==
  ASSUME OrderTypeOK
  PROVE  Now \in Devices
BY DEF OrderTypeOK, Now, Devices, Frame

(* The initial state satisfies the invariant. *)
LEMMA OrderInitInv ==
  ASSUME OrderInit
  PROVE  OrderInv
<1>1. Ring \in Nat /\ Pool \in Nat /\ MaxHanded \in Nat /\ MaxReads \in Nat /\ Owns \subseteq BOOLEAN
      /\ Ring > 0
  BY OrderAssumption
<1>2. freeSlots \in Seq(0 .. Pool - 1) /\ Len(freeSlots) = Pool
  <2>1. \A i \in 1 .. Pool : Pool - i \in 0 .. Pool - 1
    BY <1>1
  <2>2. QED
    BY <1>1, <2>1 DEF OrderInit
<1>3. OrderTypeOK
  <2>1. queue \in Seq(Work) /\ batch \in Seq([slot : 0 .. Pool - 1, frame : Frame]) /\ Len(batch) = 0
    BY DEF OrderInit
  <2>2. inBuf \in [0 .. Ring - 1 -> Frame] /\ slot \in [0 .. Pool - 1 -> Frame]
        /\ devIn \in Frame /\ devOut \in Frame /\ wanted \in Frame
    BY DEF OrderInit, Frame, NoFrame
  <2>3. 0 % Ring = 0
    BY <1>1
  <2>4. inIndex \in 0 .. MaxHanded /\ uploaded \in 0 .. MaxHanded /\ inPut = inIndex % Ring
        /\ nReads \in 0 .. MaxReads
    BY <1>1, <2>3 DEF OrderInit
  <2>5. ownsStream \in BOOLEAN /\ flushed \in BOOLEAN
        /\ host \in {"run", "inFlush", "inGet", "read"} /\ got \subseteq Frame \X Frame
    BY <1>1 DEF OrderInit
  <2>6. Len(freeSlots) + Len(batch) = Pool
    BY <1>1, <1>2, <2>1
  <2>7. QED
    BY <1>2, <2>1, <2>2, <2>4, <2>5, <2>6 DEF OrderTypeOK
<1>4. Counts
  BY DEF Counts, OrderInit
<1>5. SlotsApart
  <2>1. [i \in 1 .. Len(batch) |-> batch[i].slot] = << >>
    BY DEF OrderInit
  <2>2. Retired = freeSlots
    BY <1>2, <2>1, ConcatEmptySeq DEF Retired
  <2>3. \A i \in 1 .. Pool : Retired[i] = Pool - i
    BY <2>2 DEF OrderInit
  <2>4. QED
    BY <1>1, <2>3 DEF SlotsApart
<1>6. ReceivedAsAsked
  BY DEF ReceivedAsAsked, OrderInit
<1>7. \E D, d : Course(queue, Now, D) /\ D[Len(queue)] = d /\ Settled(d)
  <2> DEFINE D == [i \in {0} |-> Now]
  <2>1. queue = << >> /\ Len(queue) = 0 /\ queue \in Seq(Ops)
    BY DEF OrderInit
  <2>2. D \in [0 .. Len(queue) -> Devices] /\ D[0] = Now
    BY <1>3, <2>1, NowType
  <2>3. Course(queue, Now, D)
    BY <2>1, <2>2 DEF Course
  <2>4. Settled(Now)
    BY DEF Settled, OrderInit
  <2>5. Settled(D[Len(queue)])
    BY <2>1, <2>2, <2>4
  <2>6. QED
    BY <2>3, <2>5
<1>8. QED
  BY <1>3, <1>4, <1>5, <1>6, <1>7 DEF OrderInv

(* The device does the first piece of work. *)
LEMMA DeviceInv ==
  ASSUME OrderInv, Device
  PROVE  OrderInv'
<1>1. PICK D, d : Course(queue, Now, D) /\ D[Len(queue)] = d /\ Settled(d)
  BY DEF OrderInv
<1>2. OrderTypeOK /\ Counts /\ SlotsApart /\ ReceivedAsAsked
  BY DEF OrderInv
<1>3. queue # << >> /\ queue' = Tail(queue)
      /\ UNCHANGED << ownsStream, inPut, inIndex, uploaded, freeSlots, batch, flushed, host, nReads,
                      wanted >>
  BY DEF Device
<1> DEFINE w == Head(queue)
<1>4. /\ w \in Ops /\ D[1] = Done(w, Now) /\ (w.op = "download" => Now.out = w.frame)
      /\ \E E : Course(Tail(queue), D[1], E) /\ E[Len(Tail(queue))] = D[Len(queue)]
  BY <1>1, <1>3, FirstDone
<1>5. Now' = Done(w, Now)
  BY DEF Device, Now, Done, device
<1>6. \E E : Course(queue', Now', E) /\ E[Len(queue')] = d
  BY <1>1, <1>3, <1>4, <1>5
<1>7. Settled(d)'
  BY <1>1, <1>3 DEF Settled
<1>8. (\E E, e : Course(queue, Now, E) /\ E[Len(queue)] = e /\ Settled(e))'
  BY <1>6, <1>7
<1>9. got' = got \/ (w.op = "download" /\ got' = got \cup {<< w.frame, devOut >>})
  BY DEF Device
<1>10. w.op = "download" => devOut = w.frame /\ w.frame \in Int
  BY <1>4 DEF Now, Ops
<1>11. ReceivedAsAsked' /\ got' \subseteq Frame \X Frame
  <2>1. got \subseteq Frame \X Frame
    BY <1>2 DEF OrderTypeOK
  <2>2. QED
    BY <1>2, <1>9, <1>10, <2>1 DEF ReceivedAsAsked, Frame
<1>12. Now' \in Devices
  BY <1>2, <1>4, <1>5, DoneType, NowType
<1>13. devIn' \in Frame /\ devOut' \in Frame /\ inBuf' \in [0 .. Ring - 1 -> Frame]
       /\ slot' \in [0 .. Pool - 1 -> Frame]
  BY <1>12 DEF Now, Devices, Frame
<1>14. queue' \in Seq(Work)
  BY <1>6, OpsAreWork DEF Course
<1>15. OrderTypeOK'
  BY <1>2, <1>3, <1>11, <1>13, <1>14 DEF OrderTypeOK
<1>16. Counts' /\ SlotsApart'
  BY <1>2, <1>3 DEF Counts, SlotsApart, Retired
<1>17. QED
  BY <1>8, <1>11, <1>15, <1>16 DEF OrderInv

(* handdif(frame): the copy into the ring is queued before the chain's     *)
(* work, which reads a buffer of the ring that the copy has not replaced.  *)
LEMMA HanddifFrameInv ==
  ASSUME OrderInv, HanddifFrame
  PROVE  OrderInv'
<1>1. PICK D, d : Course(queue, Now, D) /\ D[Len(queue)] = d /\ Settled(d)
  BY DEF OrderInv
<1>2. OrderTypeOK /\ Counts /\ SlotsApart /\ ReceivedAsAsked
  BY DEF OrderInv
<1>3. /\ host = "run" /\ inIndex < uploaded
      /\ Release(<< [op |-> "inCopy", buf |-> inPut] >>, Through(inIndex), Through(inIndex + 1) - 1)
      /\ inPut' = NextBuf(inPut + 1) /\ inIndex' = inIndex + 1
      /\ UNCHANGED << ownsStream, device, uploaded, flushed, host, wanted, got >>
  BY DEF HanddifFrame
<1>4. Ring \in Nat \ {0} /\ Pool \in Nat \ {0} /\ Lag \in Nat /\ Lag < Ring /\ Lag < Pool
      /\ MaxHanded \in Nat /\ MaxReads \in Nat
  BY OrderAssumption
<1>5. inIndex \in Nat /\ uploaded \in 0 .. MaxHanded /\ uploaded = inIndex + 1 /\ inPut = inIndex % Ring
      /\ inPut \in 0 .. Ring - 1
  BY <1>2, <1>3, <1>4 DEF OrderTypeOK, Counts
<1> DEFINE first == Through(inIndex)
           n == IF inIndex < Lag THEN 0 ELSE 1
           slots == Taken(Retired, n)
           w == [op |-> "inCopy", buf |-> inPut]
           e == Done(w, d)
           f == Chained(e, first, slots, n)
<1>6. first \in Nat /\ n \in 0 .. Pool /\ n \in Nat /\ Through(inIndex + 1) - 1 = first + n - 1
      /\ (n = 1 => first = inIndex - Lag)
  BY <1>4, <1>5 DEF Through
<1>7. /\ OneEach(slots, n)
      /\ batch' = [i \in 1 .. n |-> [slot |-> slots[i], frame |-> first + i - 1]]
      /\ batch' \in Seq([slot : 0 .. Pool - 1, frame : Int]) /\ Len(batch') = n
      /\ freeSlots' \in Seq(0 .. Pool - 1) /\ Len(freeSlots') + n = Pool
      /\ SlotsApart'
  <2>1. Release(<< w >>, first, first + n - 1)
    BY <1>3, <1>6
  <2> HIDE DEF first, n, w
  <2>2. first \in Int
    BY <1>6
  <2>3. QED
    BY <1>2, <1>6, <2>1, <2>2, Released
<1>8. d \in Devices /\ d.in = inIndex
      /\ (\A g \in 0 .. inIndex - 1 : g >= inIndex - Ring => d.buf[NextBuf(g)] = g)
      /\ d.buf \in [0 .. Ring - 1 -> Int]
  <2>1. d \in Devices
    BY <1>1 DEF Course
  <2>2. d.in = uploaded - 1
    BY <1>1, <1>5 DEF Settled
  <2>3. QED
    BY <1>1, <1>5, <2>1, <2>2 DEF Settled, Devices
<1>9. w \in Ops /\ w.op = "inCopy" /\ w.buf = inPut
  BY <1>5 DEF Ops
<1>10. e \in Devices /\ e.buf = [d.buf EXCEPT ![inPut] = inIndex] /\ e.in = inIndex /\ e.out = d.out
  BY <1>8, <1>9, DoneType DEF Done
<1>11. \A g \in 0 .. inIndex : g >= inIndex + 1 - Ring
           => NextBuf(g) \in 0 .. Ring - 1 /\ e.buf[NextBuf(g)] = g
  <2>1. SUFFICES ASSUME NEW g \in 0 .. inIndex, g >= inIndex + 1 - Ring
                 PROVE  NextBuf(g) \in 0 .. Ring - 1 /\ e.buf[NextBuf(g)] = g
    OBVIOUS
  <2>2. NextBuf(g) \in 0 .. Ring - 1 /\ g \in Nat
    BY <1>4, <1>5 DEF NextBuf
  <2>3. CASE g = inIndex
    BY <1>5, <1>8, <1>10, <2>2, <2>3 DEF NextBuf
  <2>4. CASE g < inIndex
    <3>1. NextBuf(g) # inPut
      <4>1. Ring \in Nat \ {0} /\ g \in Nat /\ inIndex \in Nat /\ g < inIndex /\ inIndex < g + Ring
        BY <1>4, <1>5, <2>1, <2>2, <2>4
      <4>2. g % Ring # inIndex % Ring
        BY <4>1, NeighboursApart
      <4>3. QED
        BY <1>5, <4>2 DEF NextBuf
    <3>2. d.buf[NextBuf(g)] = g
      BY <1>4, <1>5, <1>8, <2>1, <2>4
    <3>3. QED
      BY <1>8, <1>10, <2>2, <3>1, <3>2
  <2>5. QED
    BY <1>5, <2>3, <2>4
<1>12. \E E : Course(Append(queue, w), Now, E) /\ E[Len(Append(queue, w))] = e
  BY <1>1, <1>9, OneMore
<1> HIDE DEF first, n, slots, w, e
<1>13. InRing(e.buf, first, n)
  <2>1. ASSUME NEW i \in 1 .. n
        PROVE  /\ NextBuf(first + i - 1) \in 0 .. Ring - 1
               /\ e.buf[NextBuf(first + i - 1)] = first + i - 1
    <3>1. first + i - 1 = inIndex - Lag /\ inIndex - Lag \in 0 .. inIndex
          /\ inIndex - Lag >= inIndex + 1 - Ring
      BY <1>4, <1>5, <1>6 DEF n
    <3>2. QED
      BY <1>11, <3>1
  <2>2. QED
    BY <2>1 DEF InRing
<1>14. \E E : Course(queue', Now, E) /\ E[Len(queue')] = f
  <2>1. PICK E : Course(Append(queue, w), Now, E) /\ E[Len(Append(queue, w))] = e
    BY <1>12
  <2>2. queue' = Append(queue, w) \o ChainWork(first, first + n - 1, slots)
    <3>1. queue' = queue \o << w >> \o ChainWork(first, first + n - 1,
                                                 Taken(Retired, (first + n - 1) - first + 1))
      BY <1>3, <1>6 DEF Release, first, w
    <3>2. (first + n - 1) - first + 1 = n
      BY <1>6
    <3>3. queue \o << w >> = Append(queue, w)
      BY <1>1 DEF Course
    <3>4. QED
      BY <3>1, <3>2, <3>3 DEF slots
  <2>3. first \in Int /\ n \in Nat /\ OneEach(slots, n) /\ InRing(E[Len(Append(queue, w))].buf, first, n)
    BY <1>6, <1>7, <1>13, <2>1
  <2>4. \E G : /\ Course(Append(queue, w) \o ChainWork(first, first + n - 1, slots), Now, G)
               /\ G[Len(Append(queue, w) \o ChainWork(first, first + n - 1, slots))]
                    = Chained(E[Len(Append(queue, w))], first, slots, n)
    <3>1. ASSUME NEW q, NEW d0, NEW F, Course(q, d0, F), NEW s, OneEach(s, n),
                 InRing(F[Len(q)].buf, first, n)
          PROVE  \E G : /\ Course(q \o ChainWork(first, first + n - 1, s), d0, G)
                        /\ G[Len(q \o ChainWork(first, first + n - 1, s))]
                             = Chained(F[Len(q)], first, s, n)
      BY <2>3, <3>1, ChainAdded
    <3>2. Course(Append(queue, w), Now, E)
      BY <2>1
    <3>3. QED
      BY <2>3, <3>1, <3>2
  <2>5. QED
    BY <2>1, <2>2, <2>4
<1>15. f \in Devices /\ f.in = inIndex /\ f.buf = e.buf
       /\ \A i \in 1 .. n : f.slot[slots[i]] = first + i - 1
  <2>1. SlotsAfter(e, first, slots, n) \in [0 .. Pool - 1 -> Int]
        /\ \A i \in 1 .. n : SlotsAfter(e, first, slots, n)[slots[i]] = first + i - 1
    <3>1. e \in Devices /\ first \in Int /\ n \in Nat /\ OneEach(slots, n)
      BY <1>6, <1>7, <1>10
    <3>2. QED
      BY <3>1, SlotsHeld
  <2>2. QED
    BY <1>10, <2>1 DEF Devices, Chained
<1> HIDE DEF f
<1>16. PICK u : u = f
  OBVIOUS
<1>17. Settled(u)'
  <2>1. uploaded' = inIndex + 1 /\ inIndex' = inIndex + 1 /\ host' = "run"
    BY <1>3, <1>5
  <2>2. \A i \in 1 .. Len(batch') : u.slot[batch'[i].slot] = batch'[i].frame
    BY <1>7, <1>15, <1>16
  <2>3. \A g \in 0 .. inIndex' - 1 : g >= inIndex' - Ring => u.buf[NextBuf(g)] = g
    BY <1>4, <1>5, <1>11, <1>15, <1>16, <2>1
  <2>4. uploaded' > 0 => u.in = uploaded' - 1
    BY <1>5, <1>15, <1>16, <2>1
  <2>5. QED
    BY <2>1, <2>2, <2>3, <2>4 DEF Settled
<1>18. Now' = Now
  BY <1>3 DEF Now, device
<1>19. (\E E, e0 : Course(queue, Now, E) /\ E[Len(queue)] = e0 /\ Settled(e0))'
  BY <1>14, <1>16, <1>17, <1>18
<1>20. OrderTypeOK'
  <2>1. queue' \in Seq(Work)
    BY <1>14, OpsAreWork DEF Course
  <2>2. inPut' = inIndex' % Ring
    BY <1>3, <1>4, <1>5, NextPlace DEF NextBuf
  <2>3. nReads' = 0 /\ 0 \in 0 .. MaxReads
    BY <1>3, <1>4 DEF Release
  <2>4. inIndex' \in 0 .. MaxHanded /\ uploaded' \in 0 .. MaxHanded
    BY <1>3, <1>4, <1>5
  <2>5. freeSlots' \in Seq(0 .. Pool - 1) /\ batch' \in Seq([slot : 0 .. Pool - 1, frame : Frame])
        /\ Len(freeSlots') + Len(batch') = Pool
    BY <1>7 DEF Frame
  <2>6. QED
    BY <1>2, <1>3, <2>1, <2>2, <2>3, <2>4, <2>5 DEF OrderTypeOK, device
<1>21. Counts' /\ ReceivedAsAsked'
  BY <1>2, <1>3, <1>5 DEF Counts, ReceivedAsAsked
<1>22. QED
  BY <1>7, <1>19, <1>20, <1>21 DEF OrderInv

(* handdif(nullptr): the chain reads no more frames back than the ring     *)
(* has.                                                                    *)
LEMMA HanddifFlushInv ==
  ASSUME OrderInv, HanddifFlush
  PROVE  OrderInv'
<1>1. PICK D, d : Course(queue, Now, D) /\ D[Len(queue)] = d /\ Settled(d)
  BY DEF OrderInv
<1>2. OrderTypeOK /\ Counts /\ SlotsApart /\ ReceivedAsAsked
  BY DEF OrderInv
<1>3. /\ host = "run" /\ Release(<< >>, Through(inIndex), inIndex - 1)
      /\ flushed' = TRUE /\ host' = "inFlush"
      /\ UNCHANGED << ownsStream, device, inPut, inIndex, uploaded, wanted, got >>
  BY DEF HanddifFlush
<1>4. Ring \in Nat \ {0} /\ Pool \in Nat \ {0} /\ Lag \in Nat /\ Lag < Ring /\ Lag < Pool
      /\ MaxHanded \in Nat /\ MaxReads \in Nat
  BY OrderAssumption
<1>5. inIndex \in Nat
  BY <1>2, <1>4 DEF OrderTypeOK
<1> DEFINE first == Through(inIndex)
           n == inIndex - Through(inIndex)
           slots == Taken(Retired, n)
           f == Chained(d, first, slots, n)
<1>6. first \in Nat /\ n \in 0 .. Pool /\ n \in Nat /\ inIndex - 1 = first + n - 1
      /\ n <= Lag
  BY <1>4, <1>5 DEF Through
<1>7. /\ OneEach(slots, n)
      /\ batch' = [i \in 1 .. n |-> [slot |-> slots[i], frame |-> first + i - 1]]
      /\ batch' \in Seq([slot : 0 .. Pool - 1, frame : Int]) /\ Len(batch') = n
      /\ freeSlots' \in Seq(0 .. Pool - 1) /\ Len(freeSlots') + n = Pool
      /\ SlotsApart'
  <2>1. Release(<< >>, first, first + n - 1)
    BY <1>3, <1>6
  <2> HIDE DEF first, n
  <2>2. first \in Int
    BY <1>6
  <2>3. QED
    BY <1>2, <1>6, <2>1, <2>2, Released
<1>8. d \in Devices
  BY <1>1 DEF Course
<1> HIDE DEF slots
<1>9. InRing(d.buf, first, n)
  <2>1. ASSUME NEW i \in 1 .. n
        PROVE  /\ NextBuf(first + i - 1) \in 0 .. Ring - 1
               /\ d.buf[NextBuf(first + i - 1)] = first + i - 1
    <3>1. PICK g \in 0 .. inIndex - 1 : g = first + i - 1
      BY <1>5, <1>6
    <3>2. g >= inIndex - Ring
      BY <1>4, <1>5, <1>6, <3>1
    <3>3. NextBuf(g) \in 0 .. Ring - 1
      BY <1>4, <1>5 DEF NextBuf
    <3>4. d.buf[NextBuf(g)] = g
      BY <1>1, <3>2 DEF Settled
    <3>5. QED
      BY <3>1, <3>3, <3>4
  <2>2. QED
    BY <2>1 DEF InRing
<1> HIDE DEF first, n
<1>10. \E E : Course(queue', Now, E) /\ E[Len(queue')] = f
  <2>1. queue' = queue \o ChainWork(first, first + n - 1, slots)
    <3>1. queue' = queue \o << >> \o ChainWork(first, first + n - 1,
                                              Taken(Retired, (first + n - 1) - first + 1))
      BY <1>3, <1>6 DEF Release, first
    <3>2. (first + n - 1) - first + 1 = n
      BY <1>6
    <3>3. queue \o << >> = queue
      BY <1>1, ConcatEmptySeq DEF Course
    <3>4. QED
      BY <3>1, <3>2, <3>3 DEF slots
  <2>2. first \in Int /\ n \in Nat
    BY <1>6
  <2>3. ASSUME NEW q, NEW d0, NEW F, Course(q, d0, F), NEW s, OneEach(s, n),
               InRing(F[Len(q)].buf, first, n)
        PROVE  \E G : /\ Course(q \o ChainWork(first, first + n - 1, s), d0, G)
                      /\ G[Len(q \o ChainWork(first, first + n - 1, s))]
                           = Chained(F[Len(q)], first, s, n)
    BY <2>2, <2>3, ChainAdded
  <2>4. QED
    BY <1>1, <1>7, <1>9, <2>1, <2>3
<1>11. f.in = d.in /\ f.buf = d.buf /\ \A i \in 1 .. n : f.slot[slots[i]] = first + i - 1
  <2>1. SlotsAfter(d, first, slots, n) \in [0 .. Pool - 1 -> Int]
        /\ \A i \in 1 .. n : SlotsAfter(d, first, slots, n)[slots[i]] = first + i - 1
    <3>1. first \in Int /\ n \in Nat /\ OneEach(slots, n)
      BY <1>6, <1>7
    <3>2. QED
      BY <1>8, <3>1, SlotsHeld
  <2>2. QED
    BY <1>8, <2>1 DEF Devices, Chained
<1> HIDE DEF f
<1>12. PICK u : u = f
  OBVIOUS
<1>13. Settled(u)'
  <2>1. \A i \in 1 .. Len(batch') : u.slot[batch'[i].slot] = batch'[i].frame
    BY <1>7, <1>11, <1>12
  <2>2. \A g \in 0 .. inIndex' - 1 : g >= inIndex' - Ring => u.buf[NextBuf(g)] = g
    BY <1>1, <1>3, <1>11, <1>12 DEF Settled
  <2>3. uploaded' > 0 => u.in = uploaded' - 1
    BY <1>1, <1>3, <1>11, <1>12 DEF Settled
  <2>4. QED
    BY <1>3, <2>1, <2>2, <2>3 DEF Settled
<1>14. Now' = Now
  BY <1>3 DEF Now, device
<1>15. (\E E, e0 : Course(queue, Now, E) /\ E[Len(queue)] = e0 /\ Settled(e0))'
  BY <1>10, <1>12, <1>13, <1>14
<1>16. OrderTypeOK'
  <2>1. queue' \in Seq(Work)
    BY <1>10, OpsAreWork DEF Course
  <2>2. nReads' = 0 /\ 0 \in 0 .. MaxReads
    BY <1>3, <1>4 DEF Release
  <2>3. freeSlots' \in Seq(0 .. Pool - 1) /\ batch' \in Seq([slot : 0 .. Pool - 1, frame : Frame])
        /\ Len(freeSlots') + Len(batch') = Pool
    BY <1>7 DEF Frame
  <2>4. QED
    BY <1>2, <1>3, <2>1, <2>2, <2>3 DEF OrderTypeOK, device
<1>17. Counts' /\ ReceivedAsAsked'
  BY <1>2, <1>3 DEF Counts, ReceivedAsAsked
<1>18. QED
  BY <1>7, <1>15, <1>16, <1>17 DEF OrderInv

(* A piece of work is added, and the buffers will be as they are to be     *)
(* when it is done.                                                        *)
LEMMA AddedInv ==
  ASSUME OrderInv, NEW w \in Ops, queue' = Append(queue, w), UNCHANGED device,
         \A d : Settled(d) => (w.op = "download" => d.out = w.frame),
         \A d, e : Settled(d) /\ d \in Devices /\ e = Done(w, d) => Settled(e)'
  PROVE  /\ queue' \in Seq(Work)
         /\ (\E E, e : Course(queue, Now, E) /\ E[Len(queue)] = e /\ Settled(e))'
<1>1. PICK D, d : Course(queue, Now, D) /\ D[Len(queue)] = d /\ Settled(d)
  BY DEF OrderInv
<1>2. d \in Devices
  BY <1>1 DEF Course
<1>3. \E E : Course(Append(queue, w), Now, E) /\ E[Len(Append(queue, w))] = Done(w, d)
  BY <1>1, OneMore
<1>4. PICK e : e = Done(w, d)
  OBVIOUS
<1>5. Settled(e)'
  BY <1>1, <1>2, <1>4
<1>6. Now' = Now
  BY DEF Now, device
<1>7. QED
  BY <1>3, <1>4, <1>5, <1>6, OpsAreWork DEF Course

(* getoutputbuf() queues the copy of the slot that has, or will have, the  *)
(* frame it is called for.                                                 *)
LEMMA GetOutputBufInv ==
  ASSUME OrderInv, NEW i \in 1 .. Pool, GetOutputBuf(i)
  PROVE  OrderInv'
<1> DEFINE w == [op |-> "outCopy", slot |-> batch[i].slot]
<1>1. OrderTypeOK /\ Counts /\ SlotsApart /\ ReceivedAsAsked
  BY DEF OrderInv
<1>2. /\ host = "run" /\ nReads < MaxReads /\ i <= Len(batch)
      /\ queue' = Append(queue, w) /\ wanted' = batch[i].frame /\ nReads' = nReads + 1
      /\ host' = "inGet"
      /\ UNCHANGED << ownsStream, device, inPut, inIndex, uploaded, freeSlots, batch, flushed, got >>
  BY DEF GetOutputBuf
<1>3. i \in 1 .. Len(batch) /\ batch[i] \in [slot : 0 .. Pool - 1, frame : Int]
  <2>1. batch \in Seq([slot : 0 .. Pool - 1, frame : Int])
    BY <1>1 DEF OrderTypeOK, Frame
  <2>2. Len(batch) \in Nat /\ i \in 1 .. Len(batch)
    BY <1>2, <2>1, LenProperties
  <2>3. QED
    BY <2>1, <2>2, ElementOfSeq
<1>4. w \in Ops
  BY <1>3 DEF Ops
<1>5. w.op = "outCopy" /\ w.slot = batch[i].slot
  OBVIOUS
<1> HIDE DEF w
<1>6. ASSUME NEW d, NEW e, Settled(d), d \in Devices, e = Done(w, d)
      PROVE  Settled(e)'
  <2>1. e.in = d.in /\ e.buf = d.buf /\ e.slot = d.slot /\ e.out = d.slot[batch[i].slot]
    BY <1>5, <1>6 DEF Done
  <2>2. e.out = wanted'
    BY <1>2, <1>3, <1>6, <2>1 DEF Settled
  <2>3. QED
    BY <1>2, <1>6, <2>1, <2>2 DEF Settled
<1>7. queue' \in Seq(Work)
      /\ (\E E, e : Course(queue, Now, E) /\ E[Len(queue)] = e /\ Settled(e))'
  <2>1. UNCHANGED device
    BY <1>2
  <2>2. QED
    BY <1>2, <1>4, <1>5, <1>6, <2>1, AddedInv
<1>8. nReads' \in 0 .. MaxReads /\ wanted' \in Frame
  <2>1. nReads \in 0 .. MaxReads /\ MaxReads \in Nat
    BY <1>1, OrderAssumption DEF OrderTypeOK
  <2>2. batch[i].frame \in Int
    BY <1>3
  <2>3. QED
    BY <1>2, <2>1, <2>2 DEF Frame
<1>9. OrderTypeOK'
  BY <1>1, <1>2, <1>7, <1>8 DEF OrderTypeOK, device
<1>10. Counts' /\ SlotsApart' /\ ReceivedAsAsked'
  BY <1>1, <1>2 DEF Counts, SlotsApart, Retired, ReceivedAsAsked
<1>11. QED
  BY <1>7, <1>9, <1>10 DEF OrderInv

(* The caller's next frame is put on the stream. *)
LEMMA UploadInv ==
  ASSUME OrderInv, Upload
  PROVE  OrderInv'
<1> DEFINE w == [op |-> "upload", frame |-> uploaded]
<1>1. OrderTypeOK /\ Counts /\ SlotsApart /\ ReceivedAsAsked
  BY DEF OrderInv
<1>2. /\ host = "run" /\ uploaded = inIndex /\ uploaded < MaxHanded /\ uploaded' = uploaded + 1
      /\ queue' = Append(queue, w)
      /\ UNCHANGED << ownsStream, devIn, devOut, inBuf, slot, inPut, inIndex, freeSlots, batch,
                      flushed, host, nReads, wanted, got >>
  BY DEF Upload
<1>3. uploaded \in Nat /\ uploaded' \in 0 .. MaxHanded
  BY <1>1, <1>2, OrderAssumption DEF OrderTypeOK
<1>4. w \in Ops
  BY <1>3 DEF Ops
<1>5. w.op = "upload" /\ w.frame = uploaded
  OBVIOUS
<1> HIDE DEF w
<1>6. ASSUME NEW d, NEW e, Settled(d), d \in Devices, e = Done(w, d)
      PROVE  Settled(e)'
  <2>1. e.in = uploaded /\ e.buf = d.buf /\ e.slot = d.slot /\ e.out = d.out
    BY <1>5, <1>6 DEF Done
  <2>2. QED
    BY <1>2, <1>3, <1>6, <2>1 DEF Settled
<1>7. queue' \in Seq(Work)
      /\ (\E E, e : Course(queue, Now, E) /\ E[Len(queue)] = e /\ Settled(e))'
  <2>1. UNCHANGED device
    BY <1>2 DEF device
  <2>2. QED
    BY <1>2, <1>4, <1>5, <1>6, <2>1, AddedInv
<1>8. OrderTypeOK'
  BY <1>1, <1>2, <1>3, <1>7 DEF OrderTypeOK
<1>9. Counts' /\ SlotsApart' /\ ReceivedAsAsked'
  <2>1. Counts'
    BY <1>1, <1>2, <1>3 DEF Counts
  <2>2. Retired' = Retired
    BY <1>2 DEF Retired
  <2>3. SlotsApart' /\ ReceivedAsAsked'
    BY <1>1, <1>2, <2>2 DEF SlotsApart, ReceivedAsAsked
  <2>4. QED
    BY <2>1, <2>3
<1>10. QED
  BY <1>7, <1>8, <1>9 DEF OrderInv

(* The caller reads the output buffer, or queues a download behind the     *)
(* copy.                                                                   *)
LEMMA ReadInv ==
  ASSUME OrderInv, Read
  PROVE  OrderInv'
<1> DEFINE w == [op |-> "download", frame |-> wanted]
<1>1. PICK D, d : Course(queue, Now, D) /\ D[Len(queue)] = d /\ Settled(d)
  BY DEF OrderInv
<1>2. OrderTypeOK /\ Counts /\ SlotsApart /\ ReceivedAsAsked
  BY DEF OrderInv
<1>3. /\ host = "read" /\ host' = "run"
      /\ IF ownsStream
         THEN got' = got \cup {<< wanted, devOut >>} /\ UNCHANGED queue
         ELSE queue' = Append(queue, w) /\ UNCHANGED got
      /\ UNCHANGED << ownsStream, device, inPut, inIndex, uploaded, freeSlots, batch, flushed,
                      nReads, wanted >>
  BY DEF Read
<1>4. wanted \in Int
  BY <1>2 DEF OrderTypeOK, Frame
<1>5. CASE ownsStream
  <2>1. queue = << >> /\ queue' = queue /\ got' = got \cup {<< wanted, devOut >>}
    BY <1>2, <1>3, <1>5 DEF Counts
  <2>2. d = Now
    BY <1>1, <2>1 DEF Course
  <2>3. devOut = wanted
    BY <1>1, <1>3, <2>2 DEF Settled, Now
  <2>4. ReceivedAsAsked' /\ got' \subseteq Frame \X Frame
    BY <1>2, <1>4, <2>1, <2>3 DEF ReceivedAsAsked, OrderTypeOK, Frame
  <2>5. Settled(d)'
    BY <1>1, <1>3 DEF Settled
  <2>6. Now' = Now
    BY <1>3 DEF Now, device
  <2>7. (\E E, e : Course(queue, Now, E) /\ E[Len(queue)] = e /\ Settled(e))'
    BY <1>1, <2>1, <2>5, <2>6
  <2>8. OrderTypeOK'
    BY <1>2, <1>3, <2>1, <2>4 DEF OrderTypeOK, device
  <2>9. Counts' /\ SlotsApart'
    BY <1>2, <1>3 DEF Counts, SlotsApart, Retired
  <2>10. QED
    BY <2>4, <2>7, <2>8, <2>9 DEF OrderInv
<1>6. CASE ~ ownsStream
  <2>1. queue' = Append(queue, w) /\ UNCHANGED << got, device >>
    BY <1>3, <1>6
  <2>2. w \in Ops
    BY <1>4 DEF Ops
  <2>3. w.op = "download" /\ w.frame = wanted
    OBVIOUS
  <2> HIDE DEF w
  <2>4. ASSUME NEW x, Settled(x) PROVE x.out = wanted
    BY <1>3, <2>4 DEF Settled
  <2>5. ASSUME NEW x, NEW e, Settled(x), x \in Devices, e = Done(w, x)
        PROVE  Settled(e)'
    <3>1. e.in = x.in /\ e.buf = x.buf /\ e.slot = x.slot
      BY <2>3, <2>5 DEF Done
    <3>2. QED
      BY <1>3, <2>5, <3>1 DEF Settled
  <2>6. queue' \in Seq(Work)
        /\ (\E E, e : Course(queue, Now, E) /\ E[Len(queue)] = e /\ Settled(e))'
    <3>1. UNCHANGED device
      BY <2>1
    <3>2. QED
      BY <2>1, <2>2, <2>3, <2>4, <2>5, <3>1, AddedInv
  <2>7. OrderTypeOK'
    BY <1>2, <1>3, <2>1, <2>6 DEF OrderTypeOK, device
  <2>8. Counts' /\ SlotsApart' /\ ReceivedAsAsked'
    BY <1>2, <1>3, <2>1 DEF Counts, SlotsApart, Retired, ReceivedAsAsked
  <2>9. QED
    BY <2>6, <2>7, <2>8 DEF OrderInv
<1>7. QED
  BY <1>5, <1>6

(* The host's waits end: nothing else changes. *)
LEMMA WaitInv ==
  ASSUME OrderInv, FlushReturns \/ GetReturns
  PROVE  OrderInv'
<1>1. PICK D, d : Course(queue, Now, D) /\ D[Len(queue)] = d /\ Settled(d)
  BY DEF OrderInv
<1>2. OrderTypeOK /\ Counts /\ SlotsApart /\ ReceivedAsAsked
  BY DEF OrderInv
<1>3. /\ UNCHANGED << ownsStream, queue, device, inPut, inIndex, uploaded, freeSlots, batch,
                      flushed, nReads, wanted, got >>
      /\ \/ host = "inFlush" /\ host' = "run"
         \/ host = "inGet" /\ host' = "read" /\ (ownsStream => queue = << >>)
  BY DEF FlushReturns, GetReturns, CopyAwaited
<1>4. Settled(d)'
  BY <1>1, <1>3 DEF Settled
<1>5. Now' = Now
  BY <1>3 DEF Now, device
<1>6. (\E E, e : Course(queue, Now, E) /\ E[Len(queue)] = e /\ Settled(e))'
  BY <1>1, <1>3, <1>4, <1>5
<1>7. OrderTypeOK'
  BY <1>2, <1>3 DEF OrderTypeOK, device
<1>8. Counts' /\ SlotsApart' /\ ReceivedAsAsked'
  BY <1>2, <1>3 DEF Counts, SlotsApart, Retired, ReceivedAsAsked
<1>9. QED
  BY <1>6, <1>7, <1>8 DEF OrderInv

(* Every step of the specification preserves the invariant. *)
LEMMA OrderStepInv ==
  ASSUME OrderInv, [OrderNext]_orderVars
  PROVE  OrderInv'
<1>1. CASE Device
  BY <1>1, DeviceInv
<1>2. CASE HanddifFrame
  BY <1>2, HanddifFrameInv
<1>3. CASE HanddifFlush
  BY <1>3, HanddifFlushInv
<1>4. CASE FlushReturns \/ GetReturns
  BY <1>4, WaitInv
<1>5. ASSUME NEW i \in 1 .. Pool, GetOutputBuf(i) PROVE OrderInv'
  BY <1>5, GetOutputBufInv
<1>6. CASE Upload
  BY <1>6, UploadInv
<1>7. CASE Read
  BY <1>7, ReadInv
<1>8. CASE UNCHANGED orderVars
  <2>1. PICK D, d : Course(queue, Now, D) /\ D[Len(queue)] = d /\ Settled(d)
    BY DEF OrderInv
  <2>2. Settled(d)' /\ Now' = Now /\ queue' = queue
    BY <1>8, <2>1 DEF Settled, Now, orderVars, device
  <2>3. (\E E, e : Course(queue, Now, E) /\ E[Len(queue)] = e /\ Settled(e))'
    BY <2>1, <2>2
  <2>4. (OrderTypeOK /\ Counts /\ SlotsApart /\ ReceivedAsAsked)'
    <3>1. OrderTypeOK'
      BY <1>8 DEF OrderInv, OrderTypeOK, orderVars, device
    <3>2. Counts' /\ ReceivedAsAsked'
      BY <1>8 DEF OrderInv, Counts, ReceivedAsAsked, orderVars
    <3>3. Retired' = Retired
      BY <1>8 DEF Retired, orderVars
    <3>4. SlotsApart'
      BY <3>3 DEF OrderInv, SlotsApart
    <3>5. QED
      BY <3>1, <3>2, <3>4
  <2>5. QED
    BY <2>3, <2>4 DEF OrderInv
<1>9. QED
  BY <1>1, <1>2, <1>3, <1>4, <1>5, <1>6, <1>7, <1>8 DEF OrderNext, Host

(* What is on the stream always leaves the buffers with the latest frames, *)
(* the batch in its slots, and the frame asked for in the output buffer.   *)
LEMMA OrderInvariant == OrderSpec => []OrderInv
BY OrderInitInv, OrderStepInv, PTL DEF OrderSpec

-----------------------------------------------------------------------------

(* Every variable has its type; the input ring's index follows the count   *)
(* of the frames, and every slot is free or in the batch.                  *)
THEOREM OrderTypeCorrect == OrderSpec => []OrderTypeOK
<1>1. OrderInv => OrderTypeOK
  BY DEF OrderInv
<1>2. QED
  BY <1>1, OrderInvariant, PTL

(* The caller receives the frame it asked for, whatever the device has     *)
(* still to do when the host uses a buffer again.                          *)
THEOREM ReceivedCorrect == OrderSpec => []ReceivedAsAsked
<1>1. OrderInv => ReceivedAsAsked
  BY DEF OrderInv
<1>2. QED
  BY <1>1, OrderInvariant, PTL

-----------------------------------------------------------------------------
(* BWDIF: where its frames are                                             *)


(* The latest frames but one cache's length are where they belong.  The    *)
(* slot that comes next is left out: a copy into it may have broken off.   *)
CacheRight ==
  \A k \in 0 .. inputCount - 1 : k > inputCount - CacheSize => cache[Slot(k)] = k

(* Only the drain puts the last frame out, and no frame comes after it. *)
MadeSettled ==
  \A i \in 1 .. Len(made) :
    /\ made[i].frame < inputCount
    /\ asked \/ made[i].frame + 1 < inputCount

(* The drain has begun when the flag is set. *)
DrainAsked == drained => asked /\ inputCount >= 1

BwdifInv == TypeOK /\ CacheRight /\ MadeRight /\ MadeSettled /\ DrainAsked

(* The slots of the frames that count are places of the cache. *)
LEMMA SlotInCache ==
  ASSUME NEW n \in Nat PROVE Slot(n) \in 0 .. CacheSize - 1
BY SizeAssumption DEF Slot

(* A frame written into its slot leaves the ones before it in place. *)
LEMMA CacheWritten ==
  ASSUME BwdifInv, inputCount < MaxIn
  PROVE  LET c == [cache EXCEPT ![Slot(inputCount)] = inputCount]
         IN  /\ c \in [0 .. CacheSize - 1 -> -1 .. MaxIn - 1]
             /\ \A k \in 0 .. inputCount : k > inputCount - CacheSize => c[Slot(k)] = k
<1> DEFINE c == [cache EXCEPT ![Slot(inputCount)] = inputCount]
<1>1. inputCount \in Nat /\ CacheSize \in Nat \ {0} /\ MaxIn \in Nat
  BY SizeAssumption DEF BwdifInv, TypeOK
<1>2. cache \in [0 .. CacheSize - 1 -> -1 .. MaxIn - 1]
  BY DEF BwdifInv, TypeOK
<1>3. inputCount \in -1 .. MaxIn - 1
  BY <1>1
<1>4. c \in [0 .. CacheSize - 1 -> -1 .. MaxIn - 1]
  BY <1>2, <1>3
<1>5. ASSUME NEW k \in 0 .. inputCount, k > inputCount - CacheSize
      PROVE  c[Slot(k)] = k
  <2>1. Slot(k) \in 0 .. CacheSize - 1
    BY <1>1, SlotInCache
  <2>2. CASE k = inputCount
    BY <1>2, <2>1, <2>2
  <2>3. CASE k # inputCount
    <3>1. k \in Nat /\ k < inputCount /\ inputCount < k + CacheSize
      BY <1>1, <1>5, <2>3
    <3>2. Slot(k) # Slot(inputCount)
      BY <1>1, <3>1, NeighboursApart DEF Slot
    <3>3. cache[Slot(k)] = k
      BY <1>1, <1>5, <3>1 DEF BwdifInv, CacheRight
    <3>4. QED
      BY <1>2, <2>1, <3>2, <3>3
  <2>4. QED
    BY <2>2, <2>3
<1>6. QED
  BY <1>4, <1>5

(* An output made from the frame it stands for and its neighbours. *)
Right(n, count) ==
  [frame |-> n,
   prev  |-> IF n = 0 THEN 0 ELSE n - 1,
   cur   |-> n,
   next  |-> IF n + 1 < count THEN n + 1 ELSE n]

(* An output is right when its frame and its neighbours are in the cache   *)
(* it is made from.                                                        *)
LEMMA MadeFromRight ==
  ASSUME NEW count \in Nat, NEW n \in Nat, NEW c,
         c[Slot(n)] = n,
         n > 0 => c[Slot(n - 1)] = n - 1,
         n + 1 < count => c[Slot(n + 1)] = n + 1
  PROVE  MadeFrom(n, count, c) = Right(n, count)
BY DEF MadeFrom, Right

(* The last three frames are still in a ring of three or more. *)
LEMMA LastThreeInRing ==
  ASSUME CacheSize \in Nat, CacheSize >= 3, NEW count \in Nat, count >= 1, NEW c,
         \A k \in 0 .. count - 1 : k >= count - CacheSize => c[Slot(k)] = k
  PROVE  /\ c[Slot(count - 1)] = count - 1
         /\ count >= 2 => c[Slot(count - 2)] = count - 2
         /\ count >= 3 => c[Slot(count - 3)] = count - 3
<1>1. count - 1 \in 0 .. count - 1 /\ count - 1 >= count - CacheSize
  OBVIOUS
<1>2. count >= 2 => count - 2 \in 0 .. count - 1 /\ count - 2 >= count - CacheSize
  OBVIOUS
<1>3. count >= 3 => count - 3 \in 0 .. count - 1 /\ count - 3 >= count - CacheSize
  OBVIOUS
<1>4. QED
  BY <1>1, <1>2, <1>3

(* What outputs may be. *)
Outs == [frame : Nat, prev : Int, cur : Int, next : Int]

(* An output's frame is a number. *)
LEMMA OutFrame ==
  ASSUME NEW s \in Seq(Outs), NEW i \in 1 .. Len(s)
  PROVE  s[i].frame \in Nat
<1>1. s[i] \in Outs
  OBVIOUS
<1>2. QED
  BY <1>1 DEF Outs

(* A right output after right ones keeps the outputs right. *)
LEMMA MadeAppended ==
  ASSUME BwdifInv, NEW n \in Nat, inputCount' \in Nat, n < inputCount',
         made' = Append(made, Right(n, inputCount')),
         asked' \/ n + 1 < inputCount',
         \/ (inputCount' = inputCount /\ asked' = asked)
         \/ (inputCount' = inputCount + 1 /\ ~ asked)
  PROVE  made' \in Seq(Outs) /\ MadeRight' /\ MadeSettled'
<1>1. Right(n, inputCount') \in Outs
  BY DEF Right, Outs
<1>2. made \in Seq(Outs) /\ Len(made) \in Nat /\ inputCount \in Nat
  BY DEF BwdifInv, TypeOK, Outs
<1>3. /\ made' \in Seq(Outs)
      /\ Len(made') = Len(made) + 1
      /\ \A i \in 1 .. Len(made) : made'[i] = made[i]
      /\ made'[Len(made) + 1] = Right(n, inputCount')
  BY <1>1, <1>2
<1>4. ASSUME NEW i \in 1 .. Len(made')
      PROVE  /\ made'[i].prev = IF made'[i].frame = 0 THEN 0 ELSE made'[i].frame - 1
             /\ made'[i].cur = made'[i].frame
             /\ made'[i].next = IF made'[i].frame + 1 < inputCount' THEN made'[i].frame + 1
                                ELSE made'[i].frame
             /\ made'[i].frame < inputCount'
             /\ asked' \/ made'[i].frame + 1 < inputCount'
  <2>1. CASE i = Len(made) + 1
    BY <1>2, <1>3, <2>1 DEF Right
  <2>2. CASE i # Len(made) + 1
    <3>0. Len(made') \in Nat /\ i \in 1 .. Len(made)
      BY <1>2, <1>3, <2>2
    <3>1. i \in 1 .. Len(made) /\ made'[i] = made[i] /\ made[i].frame \in Nat
      BY <1>2, <1>3, <3>0, OutFrame
    <3>2. /\ made[i].prev = IF made[i].frame = 0 THEN 0 ELSE made[i].frame - 1
          /\ made[i].cur = made[i].frame
          /\ made[i].next = IF made[i].frame + 1 < inputCount THEN made[i].frame + 1
                            ELSE made[i].frame
          /\ made[i].frame < inputCount
          /\ asked \/ made[i].frame + 1 < inputCount
      BY <3>1 DEF BwdifInv, MadeRight, MadeSettled
    <3>3. QED
      BY <3>1, <3>2, <1>2
  <2>3. QED
    BY <2>1, <2>2
<1>5. QED
  BY <1>3, <1>4 DEF MadeRight, MadeSettled

(* BwdifInv is an invariant.  The cache needs three frames: the one that   *)
(* is put out and its two neighbours.                                      *)
THEOREM BwdifInvariant ==
  ASSUME CacheSize >= 3
  PROVE  Spec => []BwdifInv
<1>0. CacheSize \in Nat \ {0} /\ MaxIn \in Nat
  BY SizeAssumption
<1>1. Init => BwdifInv
  <2> SUFFICES ASSUME Init PROVE BwdifInv
    OBVIOUS
  <2>1. made = << >> /\ made \in Seq(Outs) /\ Len(made) = 0
    BY DEF Init
  <2>2. cache \in [0 .. CacheSize - 1 -> -1 .. MaxIn - 1]
    BY <1>0 DEF Init
  <2>3. TypeOK
    <3>1. 0 \in 0 .. MaxIn
      BY <1>0
    <3>2. QED
      BY <2>1, <2>2, <3>1 DEF Init, TypeOK, Outs
  <2>4. CacheRight
    BY <1>0 DEF Init, CacheRight
  <2>5. QED
    BY <2>1, <2>3, <2>4 DEF Init, BwdifInv, MadeRight, MadeSettled, DrainAsked
<1>2. BwdifInv /\ [Next]_vars => BwdifInv'
  <2> SUFFICES ASSUME BwdifInv, [Next]_vars PROVE BwdifInv'
    OBVIOUS
  <2>0. /\ inputCount \in 0 .. MaxIn /\ made \in Seq(Outs) /\ Len(made) \in Nat
        /\ cache \in [0 .. CacheSize - 1 -> -1 .. MaxIn - 1]
        /\ drained \in BOOLEAN /\ asked \in BOOLEAN /\ failed \in BOOLEAN
    BY DEF BwdifInv, TypeOK, Outs
  <2> DEFINE c == [cache EXCEPT ![Slot(inputCount)] = inputCount]
  <2>w. ASSUME inputCount < MaxIn, cache' = c, inputCount' = inputCount + 1
        PROVE  /\ cache' \in [0 .. CacheSize - 1 -> -1 .. MaxIn - 1]
               /\ \A k \in 0 .. inputCount' - 1 : k >= inputCount' - CacheSize => cache'[Slot(k)] = k
               /\ CacheRight'
    <3>1. /\ c \in [0 .. CacheSize - 1 -> -1 .. MaxIn - 1]
          /\ \A k \in 0 .. inputCount : k > inputCount - CacheSize => c[Slot(k)] = k
      BY <2>w, CacheWritten
    <3> HIDE DEF c
    <3>2. ASSUME NEW k \in 0 .. inputCount' - 1, k >= inputCount' - CacheSize
          PROVE  cache'[Slot(k)] = k
      <4>1. k \in 0 .. inputCount /\ k > inputCount - CacheSize
        BY <1>0, <2>0, <2>w, <3>2
      <4>2. QED
        BY <2>w, <3>1, <4>1
    <3>3. CacheRight'
      <4> SUFFICES ASSUME NEW k \in 0 .. inputCount' - 1, k > inputCount' - CacheSize
                   PROVE  cache'[Slot(k)] = k
        BY DEF CacheRight, Slot
      <4>1. k >= inputCount' - CacheSize
        BY <1>0, <2>0, <2>w
      <4>2. QED
        BY <3>2, <4>1
    <3>4. QED
      BY <2>w, <3>1, <3>2, <3>3
  <2>1. CASE RunFrame
    <3>1. /\ ~ asked /\ ~ asked' /\ ~ drained /\ ~ drained'
          /\ UNCHANGED << asked, drained, failed >>
          /\ inputCount < MaxIn /\ inputCount' = inputCount + 1 /\ cache' = c
      BY <2>1 DEF RunFrame, BwdifInv, DrainAsked
    <3>2. /\ cache' \in [0 .. CacheSize - 1 -> -1 .. MaxIn - 1]
          /\ \A k \in 0 .. inputCount' - 1 : k >= inputCount' - CacheSize => cache'[Slot(k)] = k
          /\ CacheRight'
      BY <3>1, <2>w
    <3>3. made' \in Seq(Outs) /\ MadeRight' /\ MadeSettled'
      <4>1. CASE inputCount' < 2
        <5>1. made' = made /\ inputCount' <= 1
          BY <2>0, <2>1, <3>1, <4>1 DEF RunFrame
        <5>2. ASSUME NEW i \in 1 .. Len(made) PROVE FALSE
          <6>1. made[i].frame \in Nat
            BY <2>0, OutFrame
          <6>2. made[i].frame + 1 < inputCount
            BY <3>1 DEF BwdifInv, MadeSettled
          <6>3. QED
            BY <2>0, <3>1, <5>1, <6>1, <6>2
        <5>3. QED
          BY <2>0, <5>1, <5>2 DEF MadeRight, MadeSettled
      <4>2. CASE ~ (inputCount' < 2)
        <5>1. PICK count \in Nat : count = inputCount' /\ count >= 2
          BY <2>0, <3>1, <4>2
        <5>0. count >= 2
          BY <5>1
        <5>2. made' = Append(made, MadeFrom(count - 2, count, cache'))
          BY <2>1, <4>2, <5>1 DEF RunFrame
        <5>3. \A k \in 0 .. count - 1 : k >= count - CacheSize => cache'[Slot(k)] = k
          BY <3>2, <5>1
        <5>4. /\ cache'[Slot(count - 1)] = count - 1
              /\ cache'[Slot(count - 2)] = count - 2
              /\ count >= 3 => cache'[Slot(count - 3)] = count - 3
          BY <1>0, <5>0, <5>3, LastThreeInRing
        <5>5. PICK n \in Nat : n = count - 2
          BY <5>0
        <5>6. n - 1 = count - 3 /\ n + 1 = count - 1 /\ n + 1 < count /\ (n > 0 => count >= 3)
          BY <5>0, <5>5
        <5>7. MadeFrom(n, count, cache') = Right(n, count)
          BY <5>4, <5>5, <5>6, MadeFromRight
        <5>8. n < count
          BY <5>5
        <5>9. QED
          BY <3>1, <5>1, <5>2, <5>5, <5>6, <5>7, <5>8, MadeAppended
      <4>3. QED
        BY <4>1, <4>2
    <3>4. inputCount' \in 0 .. MaxIn
      BY <1>0, <2>0, <3>1
    <3>0. asked' \in BOOLEAN /\ drained' \in BOOLEAN /\ failed' \in BOOLEAN
      BY <2>0, <3>1
    <3>5. TypeOK'
      BY <3>0, <3>2, <3>3, <3>4 DEF TypeOK, Outs
    <3>6. DrainAsked'
      BY <3>1 DEF DrainAsked
    <3>7. QED
      BY <3>2, <3>3, <3>5, <3>6 DEF BwdifInv
  <2>2. CASE CopyFails
    <3>1. /\ UNCHANGED << inputCount, drained, asked, made >> /\ failed' = TRUE
          /\ inputCount < MaxIn
      BY <2>2 DEF CopyFails
    <3>2. cache' \in [0 .. CacheSize - 1 -> -1 .. MaxIn - 1]
      BY <1>0, <2>0, <2>2 DEF CopyFails
    <3>3. CacheRight'
      <4> SUFFICES ASSUME NEW k \in 0 .. inputCount - 1, k > inputCount - CacheSize
                   PROVE  cache'[Slot(k)] = k
        BY <3>1 DEF CacheRight, Slot
      <4>1. k \in Nat /\ inputCount \in Nat /\ k < inputCount /\ inputCount < k + CacheSize
        BY <1>0, <2>0
      <4>2. Slot(k) # Slot(inputCount)
        BY <1>0, <4>1, NeighboursApart DEF Slot
      <4>3. cache[Slot(k)] = k /\ Slot(k) \in 0 .. CacheSize - 1
        BY <4>1, SlotInCache DEF BwdifInv, CacheRight
      <4>4. QED
        BY <2>0, <2>2, <4>2, <4>3 DEF CopyFails
    <3>4. QED
      BY <2>0, <3>1, <3>2, <3>3
         DEF BwdifInv, TypeOK, Outs, MadeRight, MadeSettled, DrainAsked
  <2>3. CASE FrameFails
    <3>1. /\ ~ asked /\ ~ drained /\ UNCHANGED << asked, drained, made >> /\ failed' = TRUE
          /\ inputCount < MaxIn /\ inputCount' = inputCount + 1 /\ cache' = c
      BY <2>3 DEF FrameFails, BwdifInv, DrainAsked
    <3>2. cache' \in [0 .. CacheSize - 1 -> -1 .. MaxIn - 1] /\ CacheRight'
      BY <3>1, <2>w
    <3>3. MadeRight' /\ MadeSettled'
      <4>1. ASSUME NEW i \in 1 .. Len(made)
            PROVE  made[i].frame \in Nat /\ made[i].frame + 1 < inputCount
        BY <2>0, <3>1, OutFrame DEF BwdifInv, MadeSettled
      <4>2. QED
        BY <2>0, <3>1, <4>1 DEF BwdifInv, MadeRight, MadeSettled
    <3>4. QED
      BY <1>0, <2>0, <3>1, <3>2, <3>3 DEF BwdifInv, TypeOK, Outs, DrainAsked
  <2>4. CASE RunDrain
    <3> DEFINE n == inputCount - 1
    <3>1. /\ asked /\ asked' = asked /\ drained' /\ drained' \in BOOLEAN
          /\ UNCHANGED << inputCount, cache, failed >>
          /\ n \in Nat /\ n + 1 = inputCount /\ inputCount >= 1
          /\ made' = Append(made, MadeFrom(n, inputCount, cache))
      BY <2>0, <2>4 DEF RunDrain, LeftOver
    <3>2. /\ n \in 0 .. inputCount - 1 /\ n > inputCount - CacheSize
          /\ n > 0 => n - 1 \in 0 .. inputCount - 1 /\ n - 1 > inputCount - CacheSize
      BY <1>0, <3>1
    <3> HIDE DEF n
    <3>3. MadeFrom(n, inputCount, cache) = Right(n, inputCount)
      <4>1. cache[Slot(n)] = n /\ (n > 0 => cache[Slot(n - 1)] = n - 1)
        BY <3>2 DEF BwdifInv, CacheRight
      <4>2. inputCount \in Nat /\ ~ (n + 1 < inputCount)
        BY <2>0, <3>1
      <4>3. QED
        BY <3>1, <4>1, <4>2, MadeFromRight
    <3>4. made' \in Seq(Outs) /\ MadeRight' /\ MadeSettled'
      BY <2>0, <3>1, <3>2, <3>3, MadeAppended
    <3>5. QED
      BY <2>0, <3>1, <3>4
         DEF BwdifInv, TypeOK, Outs, CacheRight, Slot, DrainAsked
  <2>5. CASE DrainFails
    BY <2>0, <2>5 DEF DrainFails, LeftOver, BwdifInv, TypeOK, CacheRight, Slot, MadeRight,
       MadeSettled, DrainAsked
  <2>6. CASE Ask
    BY <2>0, <2>6 DEF Ask, BwdifInv, TypeOK, CacheRight, Slot, MadeRight, MadeSettled, DrainAsked
  <2>7. CASE UNCHANGED vars
    BY <2>0, <2>7 DEF vars, BwdifInv, TypeOK, CacheRight, Slot, MadeRight, MadeSettled, DrainAsked
  <2>8. QED
    BY <2>1, <2>2, <2>3, <2>4, <2>5, <2>6, <2>7 DEF Next
<1>3. QED
  BY <1>1, <1>2, PTL DEF Spec

(* BWDIF's variables keep their types whatever fails.                      *)
THEOREM TypeCorrect ==
  ASSUME CacheSize >= 3
  PROVE  Spec => []TypeOK
<1>1. BwdifInv => TypeOK
  BY DEF BwdifInv
<1>2. QED
  BY <1>1, BwdifInvariant, PTL

(* Every output of Bwdif is made from the frame it stands for and that     *)
(* frame's neighbours, for every number of input frames and whatever fails *)
(* (run_filter()'s use of its cache).                                      *)
THEOREM SourcesCorrect ==
  ASSUME CacheSize >= 3
  PROVE  Spec => []MadeRight
<1>1. BwdifInv => MadeRight
  BY DEF BwdifInv
<1>2. QED
  BY BwdifInvariant, <1>1, PTL

(* The oldest frame of one. *)
LEMMA OldestOfOne ==
  ASSUME NEW n \in Nat PROVE Bob!Oldest({n}) = n
<1>1. \A k \in {n} : \A j \in {n} : k <= j
  OBVIOUS
<1>2. QED
  BY <1>1 DEF Bob!Oldest

(* What Put becomes when an output is appended. *)
LEMMA PutAppended ==
  ASSUME made \in Seq(Outs), NEW m \in Outs, made' = Append(made, m)
  PROVE  Put' = Append(Put, m.frame)
<1>1. Len(made') = Len(made) + 1 /\ Len(made) \in Nat /\ made' \in Seq(Outs)
  OBVIOUS
<1>2. Put \in Seq(Nat) /\ Len(Put) = Len(made) /\ m.frame \in Nat
  BY <1>1, OutFrame DEF Put, Outs
<1>3. \A i \in 1 .. Len(made) + 1 : Put'[i] = Append(Put, m.frame)[i]
  <2> SUFFICES ASSUME NEW i \in 1 .. Len(made) + 1 PROVE Put'[i] = Append(Put, m.frame)[i]
    OBVIOUS
  <2>1. Put'[i] = made'[i].frame
    BY <1>1 DEF Put
  <2>2. QED
    BY <1>1, <1>2, <2>1 DEF Put
<1>4. QED
  BY <1>1, <1>2, <1>3 DEF Put

(* What a cache of input frames gives is an output. *)
LEMMA MadeFromIsOut ==
  ASSUME NEW n \in Nat, NEW count, NEW c \in [0 .. CacheSize - 1 -> -1 .. MaxIn - 1]
  PROVE  MadeFrom(n, count, c) \in Outs /\ MadeFrom(n, count, c).frame = n
<1>1. \A k \in Nat : c[Slot(k)] \in Int
  BY SlotInCache, SizeAssumption
<1>2. n + 1 \in Nat /\ (n > 0 => n - 1 \in Nat)
  OBVIOUS
<1>3. QED
  BY <1>1, <1>2 DEF MadeFrom, Outs

(* Every step of Bwdif is a step of the cheap deinterlacer the split takes *)
(* it to be, or leaves that one as it is: frames come out once each, in    *)
(* order, and only a call that fails loses one.                            *)
THEOREM StepsCorrect ==
  ASSUME CacheSize >= 3
  PROVE  Spec => StepsOfBob
<1>1. Init => Bob!Init
  BY DEF Init, Bob!Init, Held, Put
<1>2. BwdifInv /\ [Next]_vars => [Bob!Next]_(Bob!vars)
  <2> SUFFICES ASSUME BwdifInv, [Next]_vars PROVE [Bob!Next]_(Bob!vars)
    OBVIOUS
  <2>1. inputCount \in Nat /\ MaxIn \in Nat /\ made \in Seq(Outs) /\ Outs = Outs
    BY SizeAssumption DEF BwdifInv, TypeOK, Outs
  <2>2. ASSUME UNCHANGED made PROVE UNCHANGED Put
    BY <2>2 DEF Put
  <2>3. cache \in [0 .. CacheSize - 1 -> -1 .. MaxIn - 1]
    BY DEF BwdifInv, TypeOK
  <2>4. CASE RunFrame
    <3>1. /\ ~ asked /\ ~ drained /\ UNCHANGED << drained, asked, failed >>
          /\ inputCount < MaxIn /\ inputCount' = inputCount + 1
          /\ cache' = [cache EXCEPT ![Slot(inputCount)] = inputCount]
      BY <2>4 DEF RunFrame, BwdifInv, DrainAsked
    <3>2. CASE inputCount = 0
      <4>1. UNCHANGED Put
        BY <2>2, <2>4, <3>1, <3>2 DEF RunFrame
      <4>2. Held = {} /\ Held' = {inputCount}
        BY <2>1, <3>1, <3>2 DEF Held
      <4>3. QED
        BY <3>1, <4>1, <4>2 DEF Bob!Next, Bob!Feed
    <3>3. CASE inputCount # 0
      <4>1. PICK n \in Nat : n = inputCount - 1
        BY <2>1, <3>3
      <4>2. Held = {n} /\ Held' = {inputCount} /\ inputCount # n
        BY <2>1, <3>1, <3>3, <4>1 DEF Held
      <4>3. cache' \in [0 .. CacheSize - 1 -> -1 .. MaxIn - 1]
        BY <3>1, CacheWritten
      <4>4. made' = Append(made, MadeFrom(n, inputCount + 1, cache'))
        BY <2>1, <2>4, <3>1, <3>3, <4>1 DEF RunFrame
      <4>5. Put' = Append(Put, n)
        BY <2>1, <4>3, <4>4, MadeFromIsOut, PutAppended
      <4>6. (Held \cup {inputCount}) \ {Bob!Oldest(Held)} = {inputCount} /\ Bob!Oldest(Held) = n
        BY <4>2, OldestOfOne
      <4>7. QED
        BY <3>1, <4>2, <4>5, <4>6 DEF Bob!Next, Bob!Feed
    <3>4. QED
      BY <3>2, <3>3
  <2>5. CASE CopyFails
    BY <2>2, <2>5 DEF CopyFails, Held, Bob!Next, Bob!FeedFails
  <2>6. CASE FrameFails
    <3>1. /\ ~ asked /\ ~ drained /\ UNCHANGED << drained, asked, made >> /\ failed' = TRUE
          /\ inputCount < MaxIn /\ inputCount' = inputCount + 1 /\ inputCount # 0
      BY <2>1, <2>6 DEF FrameFails, BwdifInv, DrainAsked
    <3>2. PICK n \in Nat : n = inputCount - 1
      BY <2>1, <3>1
    <3>3. Held = {n} /\ Held' = {inputCount} /\ inputCount # n
      BY <2>1, <3>1, <3>2 DEF Held
    <3>4. (Held \cup {inputCount}) \ {Bob!Oldest(Held)} = {inputCount}
      BY <3>3, OldestOfOne
    <3>5. QED
      BY <2>2, <3>1, <3>3, <3>4 DEF Bob!Next, Bob!FeedFails
  <2>7. CASE Ask
    BY <2>2, <2>7 DEF Ask, Held, Bob!Next, Bob!Ask
  <2>8. ASSUME RunDrain \/ DrainFails
        PROVE  Held # {} /\ Held' = Held \ {Bob!Oldest(Held)}
               /\ \E n \in Nat : n = inputCount - 1 /\ Bob!Oldest(Held) = n
    <3>1. ~ drained /\ drained' /\ inputCount' = inputCount /\ inputCount # 0
      BY <2>1, <2>8 DEF RunDrain, DrainFails, LeftOver
    <3>2. PICK n \in Nat : n = inputCount - 1
      BY <2>1, <3>1
    <3>3. Held = {n} /\ Held' = {}
      BY <3>1, <3>2 DEF Held
    <3>4. QED
      BY <3>2, <3>3, OldestOfOne
  <2>9. CASE RunDrain
    <3>1. PICK n \in Nat : n = inputCount - 1 /\ Bob!Oldest(Held) = n
      BY <2>8, <2>9
    <3>2. made' = Append(made, MadeFrom(n, inputCount, cache))
      BY <2>9, <3>1 DEF RunDrain
    <3>3. Put' = Append(Put, n)
      BY <2>1, <2>3, <3>2, MadeFromIsOut, PutAppended
    <3>4. QED
      BY <2>8, <2>9, <3>1, <3>3 DEF RunDrain, Bob!Next, Bob!Drain
  <2>10. CASE DrainFails
    BY <2>2, <2>8, <2>10 DEF DrainFails, Bob!Next, Bob!DrainFails
  <2>11. CASE UNCHANGED vars
    BY <2>2, <2>11 DEF vars, Held, Bob!vars
  <2>12. QED
    BY <2>4, <2>5, <2>6, <2>7, <2>9, <2>10, <2>11 DEF Next
<1>3. QED
  BY <1>1, <1>2, BwdifInvariant, PTL DEF Spec, StepsOfBob

=============================================================================
