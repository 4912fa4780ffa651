----------------------------- MODULE CMACProofs -----------------------------
(***************************************************************************)
(* Proofs about the accumulator, for every image, code, limit and input:   *)
(* what a pixel adds up, and that every pixel is output once, in rising    *)
(* columns, when it is final.                                              *)
(***************************************************************************)
EXTENDS CMAC, FiniteSetTheorems, TLAPS

PxType ==
    [cmaA : [Phases -> Nat], cmaC : [Phases -> Nat], irA : Nat, irC : Nat,
     irMin : Nat, irMax : Nat, nest : Nat, mode : 0..3, added : Nat, seen : SUBSET (0..3)]

\* Sums of bits do not exceed their numbers, nor these the limit.
SamplesOK(p) ==
    \A j \in Phases : p.cmaA[j] <= p.cmaC[j] /\ p.cmaC[j] <= CmaMaxSamples

\* The sum of IR values lies between the multiples of the range's ends; a pixel
\* that has not been started has none.
IrOK(p) ==
    /\ p.nest = 0 => p.irA = 0 /\ p.irC = 0
    /\ p.irMin * p.irC <= p.irA /\ p.irA <= p.irMax * p.irC

\* A pixel not marked as mixed has seen its own mode only.
ModesOK(p) ==
    /\ p.nest = 0 => p.seen = {}
    /\ InvalidateDiffTxRx => p.mode = 3 \/ p.seen \subseteq {p.mode}

PixelOK(p) == p \in PxType /\ SamplesOK(p) /\ IrOK(p) /\ ModesOK(p)

-----------------------------------------------------------------------------
(* One pixel *)

LEMMA EmptyPixelOK == PixelOK(EmptyPixel) /\ EmptyPixel.added = 0
<1>1. EmptyPixel \in PxType
  BY DEF EmptyPixel, PxType
<1>2. SamplesOK(EmptyPixel)
  BY SizesAssumption DEF EmptyPixel, SamplesOK
<1>3. IrOK(EmptyPixel) /\ ModesOK(EmptyPixel)
  BY DEF EmptyPixel, IrOK, ModesOK
<1> QED BY <1>1, <1>2, <1>3 DEF PixelOK, EmptyPixel

LEMMA Multiples ==
    ASSUME NEW a \in Nat, NEW b \in Nat, NEW c \in Nat, a <= b
    PROVE  a * c <= b * c /\ a * (c + 1) = a * c + a
OBVIOUS

\* What a chunk carries
LEMMA ChunkTyped ==
    ASSUME NEW ch \in ChunkIn
    PROVE  /\ ch.x \in Cols /\ ch.y \in Rows /\ ch.bit \in {0, 1} /\ ch.ir \in Nat
           /\ ch.nest \in Nat \ {0} /\ ch.mode \in 0..3
BY InputAssumption DEF ChunkIn

LEMMA AddedTyped ==
    ASSUME NEW p \in PxType, NEW ch \in ChunkIn
    PROVE  Added(p, ch) \in PxType /\ Added(p, ch).added > 0
<1>1. /\ ch.bit \in {0, 1} /\ ch.ir \in Nat /\ ch.nest \in Nat \ {0} /\ ch.mode \in 0..3
  BY ChunkTyped
<1>2. /\ p.cmaA \in [Phases -> Nat] /\ p.cmaC \in [Phases -> Nat]
      /\ p.irA \in Nat /\ p.irC \in Nat /\ p.irMin \in Nat /\ p.irMax \in Nat
      /\ p.nest \in Nat /\ p.mode \in 0..3 /\ p.added \in Nat /\ p.seen \subseteq 0..3
  BY DEF PxType
<1>3. [j \in Phases |-> IF TakesSample(p, ch, j) THEN p.cmaA[j] + ch.bit ELSE p.cmaA[j]]
        \in [Phases -> Nat]
  <2> SUFFICES ASSUME NEW j \in Phases
               PROVE  (IF TakesSample(p, ch, j) THEN p.cmaA[j] + ch.bit ELSE p.cmaA[j]) \in Nat
    OBVIOUS
  <2> QED BY <1>1, <1>2
<1>4. [j \in Phases |-> IF TakesSample(p, ch, j) THEN p.cmaC[j] + 1 ELSE p.cmaC[j]]
        \in [Phases -> Nat]
  <2> SUFFICES ASSUME NEW j \in Phases
               PROVE  (IF TakesSample(p, ch, j) THEN p.cmaC[j] + 1 ELSE p.cmaC[j]) \in Nat
    OBVIOUS
  <2> QED BY <1>2
<1>5. /\ (IF CountsIr(p, ch) THEN p.irA + ch.ir ELSE p.irA) \in Nat
      /\ (IF CountsIr(p, ch) THEN p.irC + 1 ELSE p.irC) \in Nat
  BY <1>1, <1>2
<1>6. IrMinAfter(p, ch) \in Nat /\ IrMaxAfter(p, ch) \in Nat
  BY <1>1, <1>2 DEF IrMinAfter, IrMaxAfter, Least, Greatest
<1>7. ModeAfter(p, ch) \in 0..3
  BY <1>1, <1>2 DEF ModeAfter
<1>8. p.added + 1 \in Nat /\ p.added + 1 > 0 /\ p.seen \cup {ch.mode} \subseteq 0..3
  BY <1>1, <1>2
<1>9. Added(p, ch).added = p.added + 1
  BY DEF Added
<1> QED BY <1>1, <1>3, <1>4, <1>5, <1>6, <1>7, <1>8, <1>9 DEF Added, PxType

LEMMA AddedSamples ==
    ASSUME NEW p \in PxType, SamplesOK(p), NEW ch \in ChunkIn
    PROVE  SamplesOK(Added(p, ch))
<1> SUFFICES ASSUME NEW j \in Phases
             PROVE  /\ Added(p, ch).cmaA[j] <= Added(p, ch).cmaC[j]
                    /\ Added(p, ch).cmaC[j] <= CmaMaxSamples
  BY DEF SamplesOK
<1>1. p.cmaA[j] \in Nat /\ p.cmaC[j] \in Nat /\ ch.bit \in {0, 1} /\ CmaMaxSamples \in Nat
  BY ChunkTyped, SizesAssumption DEF PxType
<1>2. p.cmaA[j] <= p.cmaC[j] /\ p.cmaC[j] <= CmaMaxSamples
  BY DEF SamplesOK
<1>3. /\ Added(p, ch).cmaA[j] = IF TakesSample(p, ch, j) THEN p.cmaA[j] + ch.bit ELSE p.cmaA[j]
      /\ Added(p, ch).cmaC[j] = IF TakesSample(p, ch, j) THEN p.cmaC[j] + 1 ELSE p.cmaC[j]
  BY DEF Added
<1>4. CASE TakesSample(p, ch, j)
  BY <1>1, <1>2, <1>3, <1>4 DEF TakesSample
<1>5. CASE ~TakesSample(p, ch, j)
  BY <1>2, <1>3, <1>5
<1> QED BY <1>4, <1>5

LEMMA AddedIr ==
    ASSUME NEW p \in PxType, IrOK(p), NEW ch \in ChunkIn
    PROVE  IrOK(Added(p, ch))
<1> DEFINE q == Added(p, ch)
<1>1. /\ p.irA \in Nat /\ p.irC \in Nat /\ p.irMin \in Nat /\ p.irMax \in Nat /\ p.nest \in Nat
      /\ ch.ir \in Nat /\ ch.nest # 0
  BY ChunkTyped DEF PxType
<1>2. /\ q.irA = IF CountsIr(p, ch) THEN p.irA + ch.ir ELSE p.irA
      /\ q.irC = IF CountsIr(p, ch) THEN p.irC + 1 ELSE p.irC
      /\ q.irMin = IrMinAfter(p, ch) /\ q.irMax = IrMaxAfter(p, ch) /\ q.nest = ch.nest
  BY DEF Added
<1>3. /\ q.irMin \in Nat /\ q.irMin <= ch.ir /\ q.irMax \in Nat /\ ch.ir <= q.irMax
      /\ p.nest # 0 => q.irMin <= p.irMin /\ p.irMax <= q.irMax
  BY <1>1, <1>2 DEF IrMinAfter, IrMaxAfter, Least, Greatest
<1> HIDE DEF q
<1>4. q.irMin * p.irC <= p.irA /\ p.irA <= q.irMax * p.irC
  <2>1. CASE p.nest = 0
    <3>1. p.irA = 0 /\ p.irC = 0
      BY <2>1 DEF IrOK
    <3> QED BY <1>3, <3>1
  <2>2. CASE p.nest # 0
    <3>1. q.irMin * p.irC <= p.irMin * p.irC /\ p.irMax * p.irC <= q.irMax * p.irC
      BY <1>1, <1>3, <2>2, Multiples
    <3>2. p.irMin * p.irC <= p.irA /\ p.irA <= p.irMax * p.irC
      BY DEF IrOK
    <3>3. /\ q.irMin * p.irC \in Int /\ q.irMax * p.irC \in Int
          /\ p.irMin * p.irC \in Int /\ p.irMax * p.irC \in Int
      BY <1>1, <1>3
    <3> QED BY <1>1, <3>1, <3>2, <3>3
  <2> QED BY <2>1, <2>2
<1>5. q.irMin * q.irC <= q.irA /\ q.irA <= q.irMax * q.irC
  <2>1. CASE CountsIr(p, ch)
    <3>1. /\ q.irMin * (p.irC + 1) = q.irMin * p.irC + q.irMin
          /\ q.irMax * (p.irC + 1) = q.irMax * p.irC + q.irMax
      BY <1>1, <1>3, Multiples
    <3>2. q.irMin * p.irC \in Int /\ q.irMax * p.irC \in Int
      BY <1>1, <1>3
    <3>3. q.irC = p.irC + 1 /\ q.irA = p.irA + ch.ir
      BY <1>2, <2>1
    <3> QED BY <1>1, <1>3, <1>4, <3>1, <3>2, <3>3
  <2>2. CASE ~CountsIr(p, ch)
    BY <1>2, <1>4, <2>2
  <2> QED BY <2>1, <2>2
<1>6. q.nest # 0
  BY <1>1, <1>2
<1> QED BY <1>5, <1>6 DEF IrOK, q

LEMMA AddedModes ==
    ASSUME NEW p \in PxType, ModesOK(p), NEW ch \in ChunkIn
    PROVE  ModesOK(Added(p, ch))
<1>1. Added(p, ch).nest # 0
  BY ChunkTyped DEF Added
<1>2. Added(p, ch).mode = ModeAfter(p, ch) /\ Added(p, ch).seen = p.seen \cup {ch.mode}
  BY DEF Added
<1>3. CASE p.nest = 0
  BY <1>1, <1>2, <1>3 DEF ModesOK, ModeAfter
<1>4. CASE p.nest # 0
  BY <1>1, <1>2, <1>4 DEF ModesOK, ModeAfter
<1> QED BY <1>3, <1>4

\* A chunk that is added keeps the pixel in order.
LEMMA AddedOK ==
    ASSUME NEW p, PixelOK(p), NEW ch \in ChunkIn
    PROVE  PixelOK(Added(p, ch)) /\ Added(p, ch).added > 0
BY AddedTyped, AddedSamples, AddedIr, AddedModes DEF PixelOK

\* So does the noise estimate of a chunk that is thrown away.
LEMMA NestOK ==
    ASSUME NEW p, PixelOK(p), NEW e \in Nat \ {0}
    PROVE  /\ PixelOK([p EXCEPT !.nest = e])
           /\ [p EXCEPT !.nest = e].added = p.added
<1> DEFINE q == [p EXCEPT !.nest = e]
<1>1. p \in PxType
  BY DEF PixelOK
<1>2. /\ q.nest = e /\ q.cmaA = p.cmaA /\ q.cmaC = p.cmaC /\ q.irA = p.irA /\ q.irC = p.irC
      /\ q.irMin = p.irMin /\ q.irMax = p.irMax /\ q.mode = p.mode /\ q.seen = p.seen
      /\ q.added = p.added /\ q \in PxType
  BY <1>1 DEF PxType
<1> HIDE DEF q
<1>3. SamplesOK(q) /\ IrOK(q) /\ ModesOK(q)
  BY <1>2 DEF PixelOK, SamplesOK, IrOK, ModesOK
<1> QED BY <1>2, <1>3 DEF PixelOK, q

-----------------------------------------------------------------------------
(* The image *)

XY == [x : Cols, y : Rows]
Out == {outXY[m] : m \in 1 .. Len(outXY)}

ControlOK ==
    /\ phase \in {"in", "flush", "done"} /\ flushRow \in 0 .. ImgV
    /\ phase = "in" => flushRow = 0
    /\ phase = "done" => flushRow = ImgV
    /\ bank \in [Rows -> Cols \cup {None}]
    /\ outXY \in Seq(XY)

PixelsOK ==
    /\ px \in [Rows -> [Cols -> PxType]]
    /\ \A y \in Rows, x \in Cols : PixelOK(px[y][x])

\* What was output lies before the open column of its row, or is the open column
\* of a row that was flushed.
OutBehind ==
    \A m \in 1 .. Len(outXY) :
        LET p == outXY[m]
        IN  p.x < bank[p.y] \/ (p.y < flushRow /\ p.x = bank[p.y])

\* The pixels with chunks are those that were output and the open ones, and no
\* flushed row has its open pixel left.
OutCovers ==
    /\ \A y \in Rows, x \in Cols :
          px[y][x].added > 0 <=> x = bank[y] \/ Pixel(x, y) \in Out
    /\ \A y \in Rows : y < flushRow => bank[y] = None \/ Pixel(bank[y], y) \in Out

IInv == ControlOK /\ PixelsOK /\ OutBehind /\ RowsRise /\ OutCovers

\* Output grows by one pixel of the row that is given, to the right of what the
\* row has output.
LEMMA OutGrows ==
    ASSUME ControlOK, OutBehind, RowsRise, NEW y \in Rows, bank[y] # None,
           ~(y < flushRow), outXY' = Append(outXY, Pixel(bank[y], y))
    PROVE  /\ outXY' \in Seq(XY) /\ RowsRise'
           /\ Out' = Out \cup {Pixel(bank[y], y)}
           /\ Len(outXY') = Len(outXY) + 1 /\ outXY'[Len(outXY) + 1] = Pixel(bank[y], y)
           /\ \A m \in 1 .. Len(outXY) : outXY'[m] = outXY[m]
<1> DEFINE e == Pixel(bank[y], y)
<1>1. outXY \in Seq(XY) /\ Len(outXY) \in Nat /\ e \in XY /\ e.x = bank[y] /\ e.y = y
  BY DEF ControlOK, XY, Pixel
<1> HIDE DEF e
<1>2. outXY' = Append(outXY, e)
  BY DEF e
<1>3. /\ outXY' \in Seq(XY)
      /\ Len(outXY') = Len(outXY) + 1 /\ outXY'[Len(outXY) + 1] = e
      /\ \A m \in 1 .. Len(outXY) : outXY'[m] = outXY[m]
  BY <1>1, <1>2
<1>4. Out' = Out \cup {e}
  <2>1. \A m \in 1 .. Len(outXY') : m \in 1 .. Len(outXY) \/ m = Len(outXY) + 1
    BY <1>1, <1>3
  <2>2. 1 .. Len(outXY) \subseteq 1 .. Len(outXY') /\ Len(outXY) + 1 \in 1 .. Len(outXY')
    BY <1>1, <1>3
  <2> QED BY <1>3, <2>1, <2>2 DEF Out
<1>5. RowsRise'
  <2> SUFFICES ASSUME NEW m \in 1 .. Len(outXY'), NEW n \in 1 .. Len(outXY'),
                      m < n, outXY'[m].y = outXY'[n].y
               PROVE  outXY'[m].x < outXY'[n].x
    BY DEF RowsRise
  <2>1. m \in 1 .. Len(outXY) /\ (n \in 1 .. Len(outXY) \/ n = Len(outXY) + 1)
    BY <1>1, <1>3
  <2>2. CASE n \in 1 .. Len(outXY)
    BY <1>3, <2>1, <2>2 DEF RowsRise
  <2>3. CASE n = Len(outXY) + 1
    BY <1>1, <1>3, <2>1, <2>3 DEF OutBehind
  <2> QED BY <2>1, <2>2, <2>3
<1> QED BY <1>3, <1>4, <1>5 DEF e

LEMMA InitIInv == Init => IInv
<1> SUFFICES ASSUME Init PROVE IInv
  OBVIOUS
<1>1. ImgV \in Nat /\ outXY = << >> /\ Len(outXY) = 0
  BY SizesAssumption DEF Init
<1>2. ControlOK
  <2>1. phase = "in" /\ flushRow = 0 /\ 0 \in 0 .. ImgV /\ bank \in [Rows -> Cols \cup {None}]
    BY <1>1 DEF Init
  <2> QED BY <1>1, <2>1 DEF ControlOK
<1>3. PixelsOK
  <2>1. EmptyPixel \in PxType
    BY EmptyPixelOK DEF PixelOK
  <2> HIDE DEF PxType
  <2> QED BY <2>1, EmptyPixelOK DEF Init, PixelsOK
<1>4. OutBehind /\ RowsRise /\ Out = {}
  BY <1>1 DEF OutBehind, RowsRise, Out
<1>5. OutCovers
  <2>1. \A y \in Rows : flushRow = 0 /\ ~(y < flushRow)
    BY DEF Init, Rows
  <2>2. \A y \in Rows, x \in Cols : px[y][x].added = 0 /\ bank[y] = None /\ x # None
    BY EmptyPixelOK DEF Init, Cols, None
  <2> QED BY <1>4, <2>1, <2>2 DEF OutCovers
<1> QED BY <1>2, <1>3, <1>4, <1>5 DEF IInv

\* One pixel of the image changes.
Sets(y, x, v) == px' = [px EXCEPT ![y][x] = v]

LEMMA PixelChanges ==
    ASSUME PixelsOK, NEW y \in Rows, NEW x \in Cols, NEW v, PixelOK(v), Sets(y, x, v)
    PROVE  /\ PixelsOK' /\ px'[y][x] = v
           /\ \A r \in Rows, c \in Cols : r # y \/ c # x => px'[r][c] = px[r][c]
<1>1. px \in [Rows -> [Cols -> PxType]] /\ v \in PxType
  BY DEF PixelsOK, PixelOK
<1> HIDE DEF PxType
<1>2. px' \in [Rows -> [Cols -> PxType]] /\ px'[y][x] = v
  BY <1>1 DEF Sets
<1>3. \A r \in Rows, c \in Cols : r # y \/ c # x => px'[r][c] = px[r][c]
  BY <1>1 DEF Sets
<1>4. \A r \in Rows, c \in Cols : PixelOK(px'[r][c])
  BY <1>2, <1>3 DEF PixelsOK
<1> QED BY <1>2, <1>3, <1>4 DEF PixelsOK

\* A chunk of a later column
LEMMA OpenColumnKeeps ==
    ASSUME IInv, NEW ch \in ChunkIn, OpenColumn(ch)
    PROVE  /\ IInv'
           /\ \A m \in 1 .. Len(outXY) :
                 px'[outXY[m].y][outXY[m].x] = px[outXY[m].y][outXY[m].x]
<1> DEFINE y == ch.y
           x == ch.x
           v == Added(px[y][x], ch)
<1>1. y \in Rows /\ x \in Cols /\ x \in Nat /\ y \in Nat
  BY ChunkTyped DEF Rows, Cols
<1>2. PixelOK(v) /\ v.added > 0
  BY <1>1, AddedOK DEF IInv, PixelsOK
<1>3. /\ phase = "in" /\ phase' = phase /\ flushRow = 0 /\ flushRow' = flushRow
      /\ x > bank[y] /\ bank' = [bank EXCEPT ![y] = x]
      /\ outXY' = outXY \o (IF bank[y] = None THEN << >> ELSE <<Pixel(bank[y], y)>>)
      /\ px' = [px EXCEPT ![y][x] = v]
  BY DEF OpenColumn, Takes, AddTo, ClosedColumn, IInv, ControlOK
<1> HIDE DEF v, x, y
<1>4. /\ PixelsOK' /\ px'[y][x] = v
      /\ \A r \in Rows, c \in Cols : r # y \/ c # x => px'[r][c] = px[r][c]
  <2>1. PixelsOK /\ PixelOK(v) /\ Sets(y, x, v)
    BY <1>2, <1>3 DEF IInv, Sets
  <2> QED BY <1>1, <2>1, PixelChanges
<1>5. bank \in [Rows -> Cols \cup {None}] /\ outXY \in Seq(XY) /\ Len(outXY) \in Nat
  BY DEF IInv, ControlOK
<1>6. /\ bank' \in [Rows -> Cols \cup {None}] /\ bank'[y] = x
      /\ \A r \in Rows : r # y => bank'[r] = bank[r]
  BY <1>1, <1>3, <1>5
<1>7. /\ \A r \in Rows : bank[r] \in Int /\ bank'[r] \in Int /\ bank[r] <= bank'[r]
      /\ \A r \in Rows : ~(r < flushRow)
  BY <1>1, <1>3, <1>5, <1>6 DEF Rows, Cols, None
<1>8. \A m \in 1 .. Len(outXY) : outXY[m] \in XY /\ outXY[m].x < bank[outXY[m].y]
  <2> SUFFICES ASSUME NEW m \in 1 .. Len(outXY)
               PROVE  outXY[m] \in XY /\ outXY[m].x < bank[outXY[m].y]
    OBVIOUS
  <2>1. outXY[m] \in XY
    BY <1>5
  <2>2. outXY[m].y \in Rows
    BY <2>1 DEF XY
  <2> QED BY <2>1, <2>2, <1>7 DEF IInv, OutBehind
<1>9. ASSUME bank[y] = None PROVE IInv'
  <2>1. outXY' = outXY /\ Out' = Out
    BY <1>3, <1>5, <1>9 DEF Out
  <2>2. ControlOK'
    BY <1>3, <1>6, <2>1 DEF IInv, ControlOK
  <2>3. OutBehind'
    <3> SUFFICES ASSUME NEW m \in 1 .. Len(outXY) PROVE outXY[m].x < bank'[outXY[m].y]
      BY <2>1 DEF OutBehind
    <3>1. outXY[m].y \in Rows /\ outXY[m].x \in Int
      BY <1>8 DEF XY, Cols
    <3> QED BY <3>1, <1>7, <1>8
  <2>4. RowsRise'
    BY <2>1 DEF IInv, RowsRise
  <2>5. OutCovers'
    <3> SUFFICES ASSUME NEW r \in Rows, NEW c \in Cols
                 PROVE  px'[r][c].added > 0 <=> c = bank'[r] \/ Pixel(c, r) \in Out
      BY <1>3, <1>7, <2>1 DEF OutCovers
    <3>1. CASE r = y /\ c = x
      BY <3>1, <1>2, <1>4, <1>6
    <3>2. CASE r # y \/ c # x
      <4>1. px[r][c].added > 0 <=> c = bank[r] \/ Pixel(c, r) \in Out
        BY DEF IInv, OutCovers
      <4>2. px'[r][c] = px[r][c] /\ (c = bank'[r] <=> c = bank[r])
        BY <3>2, <1>4, <1>6, <1>9 DEF Cols, None
      <4> QED BY <4>1, <4>2
    <3> QED BY <3>1, <3>2
  <2> QED BY <1>4, <2>2, <2>3, <2>4, <2>5 DEF IInv
<1>10. ASSUME bank[y] # None PROVE IInv'
  <2>1. outXY' = Append(outXY, Pixel(bank[y], y))
    BY <1>3, <1>5, <1>10
  <2>2. /\ outXY' \in Seq(XY) /\ RowsRise'
        /\ Out' = Out \cup {Pixel(bank[y], y)}
        /\ Len(outXY') = Len(outXY) + 1 /\ outXY'[Len(outXY) + 1] = Pixel(bank[y], y)
        /\ \A m \in 1 .. Len(outXY) : outXY'[m] = outXY[m]
    BY <1>1, <1>7, <1>10, <2>1, OutGrows DEF IInv
  <2>3. ControlOK'
    BY <1>3, <1>6, <2>2 DEF IInv, ControlOK
  <2>4. OutBehind'
    <3> SUFFICES ASSUME NEW m \in 1 .. Len(outXY') PROVE outXY'[m].x < bank'[outXY'[m].y]
      BY DEF OutBehind
    <3>1. CASE m \in 1 .. Len(outXY)
      <4>1. outXY[m].y \in Rows /\ outXY[m].x \in Int
        BY <3>1, <1>8 DEF XY, Cols
      <4> QED BY <3>1, <4>1, <2>2, <1>7, <1>8
    <3>2. CASE m = Len(outXY) + 1
      BY <3>2, <1>3, <1>6, <1>7, <1>1, <2>2 DEF Pixel
    <3> QED BY <1>5, <2>2, <3>1, <3>2
  <2>5. OutCovers'
    <3> SUFFICES ASSUME NEW r \in Rows, NEW c \in Cols
                 PROVE  px'[r][c].added > 0 <=> c = bank'[r] \/ Pixel(c, r) \in Out'
      BY <1>3, <1>7 DEF OutCovers
    <3>1. CASE r = y /\ c = x
      BY <3>1, <1>2, <1>4, <1>6
    <3>2. CASE r # y \/ c # x
      <4>1. px[r][c].added > 0 <=> c = bank[r] \/ Pixel(c, r) \in Out
        BY DEF IInv, OutCovers
      <4>2. px'[r][c] = px[r][c]
        BY <3>2, <1>4
      <4>3. Pixel(c, r) = Pixel(bank[y], y) <=> r = y /\ c = bank[y]
        BY DEF Pixel
      <4>4. CASE r = y
        BY <4>1, <4>2, <4>3, <4>4, <3>2, <1>6, <2>2
      <4>5. CASE r # y
        BY <4>1, <4>2, <4>3, <4>5, <1>6, <2>2
      <4> QED BY <4>4, <4>5
    <3> QED BY <3>1, <3>2
  <2> QED BY <1>4, <2>2, <2>3, <2>4, <2>5 DEF IInv
<1>11. ASSUME NEW m \in 1 .. Len(outXY)
       PROVE  px'[outXY[m].y][outXY[m].x] = px[outXY[m].y][outXY[m].x]
  <2>1. outXY[m].y \in Rows /\ outXY[m].x \in Cols /\ outXY[m].x < bank[outXY[m].y]
    BY <1>8 DEF XY
  <2>2. outXY[m].y # y \/ outXY[m].x # x
    BY <2>1, <1>1, <1>3, <1>7 DEF Cols
  <2> QED BY <2>1, <2>2, <1>4
<1> QED BY <1>9, <1>10, <1>11

\* A late chunk changes the open pixel of its row, if it has one chunk after too.
LEMMA OpenPixelChanges ==
    ASSUME IInv, phase = "in", NEW y \in Rows, bank[y] \in Cols, NEW v, PixelOK(v),
           v.added > 0, Sets(y, bank[y], v), UNCHANGED <<phase, bank, outXY, flushRow>>
    PROVE  /\ IInv'
           /\ \A m \in 1 .. Len(outXY) :
                 px'[outXY[m].y][outXY[m].x] = px[outXY[m].y][outXY[m].x]
<1>1. /\ PixelsOK' /\ px'[y][bank[y]] = v
      /\ \A r \in Rows, c \in Cols : r # y \/ c # bank[y] => px'[r][c] = px[r][c]
  BY PixelChanges DEF IInv
<1>2. ControlOK' /\ OutBehind' /\ RowsRise' /\ Out' = Out
  BY DEF IInv, ControlOK, OutBehind, RowsRise, Out
<1>3. OutCovers'
  <2>1. ASSUME NEW r \in Rows, NEW c \in Cols
        PROVE  px'[r][c].added > 0 <=> c = bank[r] \/ Pixel(c, r) \in Out
    <3>1. CASE r = y /\ c = bank[y]
      BY <3>1, <1>1
    <3>2. CASE r # y \/ c # bank[y]
      BY <3>2, <1>1 DEF IInv, OutCovers
    <3> QED BY <3>1, <3>2
  <2>2. \A r \in Rows : r < flushRow => bank[r] = None \/ Pixel(bank[r], r) \in Out
    BY DEF IInv, OutCovers
  <2> QED BY <2>1, <2>2, <1>2 DEF OutCovers
<1>4. ASSUME NEW m \in 1 .. Len(outXY)
      PROVE  px'[outXY[m].y][outXY[m].x] = px[outXY[m].y][outXY[m].x]
  <2>1. outXY[m] \in XY
    BY DEF IInv, ControlOK
  <2>2. outXY[m].y \in Rows /\ outXY[m].x \in Cols
    BY <2>1 DEF XY
  <2>3. ~(outXY[m].y < flushRow)
    BY <2>2 DEF IInv, ControlOK, Rows
  <2>4. outXY[m].x < bank[outXY[m].y]
    BY <2>3 DEF IInv, OutBehind
  <2>5. outXY[m].y # y \/ outXY[m].x # bank[y]
    BY <2>2, <2>4 DEF Cols
  <2> QED BY <1>1, <2>2, <2>5
<1> QED BY <1>1, <1>2, <1>3, <1>4 DEF IInv

LEMMA LateChunkKeeps ==
    ASSUME IInv, NEW ch \in ChunkIn, AddToOpen(ch) \/ ThrowAway(ch)
    PROVE  /\ IInv'
           /\ \A m \in 1 .. Len(outXY) :
                 px'[outXY[m].y][outXY[m].x] = px[outXY[m].y][outXY[m].x]
<1> DEFINE y == ch.y
           open == px[y][bank[y]]
<1>1. y \in Rows /\ ch.x \in Cols
  BY ChunkTyped
<1>2. phase = "in" /\ ch.x <= bank[y] /\ UNCHANGED <<phase, bank, outXY, flushRow>>
  BY DEF AddToOpen, ThrowAway, Takes
<1>3. bank[y] \in Cols
  BY <1>1, <1>2 DEF IInv, ControlOK, Cols, None
<1>4. PixelOK(open) /\ open.added > 0
  BY <1>1, <1>3 DEF IInv, PixelsOK, OutCovers
<1>5. CASE AddToOpen(ch)
  <2> DEFINE v == Added(open, ch)
  <2>1. Sets(y, bank[y], v)
    BY <1>5 DEF AddToOpen, AddTo, TargetColumn, Sets
  <2>2. PixelOK(v) /\ v.added > 0
    BY <1>4, AddedOK
  <2> HIDE DEF v, y
  <2> QED BY <1>1, <1>2, <1>3, <2>1, <2>2, OpenPixelChanges
<1>6. CASE ThrowAway(ch)
  <2> DEFINE v == [open EXCEPT !.nest = ch.nest]
  <2>1. Sets(y, bank[y], v)
    BY <1>6 DEF ThrowAway, Sets
  <2>2. PixelOK(v) /\ v.added > 0
    BY <1>4, ChunkTyped, NestOK
  <2> HIDE DEF v, y
  <2> QED BY <1>1, <1>2, <1>3, <2>1, <2>2, OpenPixelChanges
<1> QED BY <1>5, <1>6

LEMMA FlushRowKeeps == ASSUME IInv, FlushRow PROVE IInv'
<1> DEFINE y == flushRow
<1>1. ImgV \in Nat
  BY SizesAssumption
<1>2. /\ phase = "flush" /\ phase' = phase /\ bank' = bank /\ px' = px
      /\ y \in Nat /\ y < ImgV /\ y \in Rows /\ flushRow' = y + 1
      /\ outXY' = outXY \o (IF bank[y] = None THEN << >> ELSE <<Pixel(bank[y], y)>>)
  BY <1>1 DEF FlushRow, Flushed, IInv, ControlOK, Rows
<1>3. PixelsOK'
  BY <1>2 DEF IInv, PixelsOK
<1>4. outXY \in Seq(XY) /\ Len(outXY) \in Nat /\ flushRow' \in 0 .. ImgV
  BY <1>1, <1>2 DEF IInv, ControlOK
<1>5. \A r \in Rows : r \in Int /\ (r < y + 1 <=> r < y \/ r = y)
  BY <1>2 DEF Rows
<1>6. \A m \in 1 .. Len(outXY) :
         /\ outXY[m].y \in Rows
         /\ outXY[m].x < bank[outXY[m].y]
               \/ (outXY[m].y < flushRow' /\ outXY[m].x = bank[outXY[m].y])
  <2> SUFFICES ASSUME NEW m \in 1 .. Len(outXY)
               PROVE  /\ outXY[m].y \in Rows
                      /\ outXY[m].x < bank[outXY[m].y]
                            \/ (outXY[m].y < flushRow' /\ outXY[m].x = bank[outXY[m].y])
    OBVIOUS
  <2>1. outXY[m] \in XY
    BY <1>4
  <2>2. outXY[m].y \in Rows
    BY <2>1 DEF XY
  <2> QED BY <2>2, <1>2, <1>5 DEF IInv, OutBehind
<1>7. CASE bank[y] = None
  <2>1. outXY' = outXY /\ Out' = Out
    BY <1>2, <1>4, <1>7 DEF Out
  <2>2. ControlOK'
    BY <1>2, <1>4, <2>1 DEF IInv, ControlOK
  <2>3. OutBehind' /\ RowsRise'
    BY <1>2, <1>6, <2>1 DEF IInv, OutBehind, RowsRise
  <2>4. OutCovers'
    BY <1>2, <1>5, <1>7, <2>1 DEF IInv, OutCovers
  <2> QED BY <1>3, <2>2, <2>3, <2>4 DEF IInv
<1>8. CASE bank[y] # None
  <2>1. outXY' = Append(outXY, Pixel(bank[y], y)) /\ ~(y < flushRow)
    BY <1>2, <1>4, <1>8
  <2>2. /\ outXY' \in Seq(XY) /\ RowsRise'
        /\ Out' = Out \cup {Pixel(bank[y], y)}
        /\ Len(outXY') = Len(outXY) + 1 /\ outXY'[Len(outXY) + 1] = Pixel(bank[y], y)
        /\ \A m \in 1 .. Len(outXY) : outXY'[m] = outXY[m]
    BY <1>2, <1>8, <2>1, OutGrows DEF IInv
  <2>3. ControlOK'
    BY <1>2, <1>4, <2>2 DEF IInv, ControlOK
  <2>4. OutBehind'
    <3> SUFFICES ASSUME NEW m \in 1 .. Len(outXY')
                 PROVE  \/ outXY'[m].x < bank[outXY'[m].y]
                        \/ outXY'[m].y < flushRow' /\ outXY'[m].x = bank[outXY'[m].y]
      BY <1>2 DEF OutBehind
    <3>1. CASE m \in 1 .. Len(outXY)
      BY <3>1, <1>6, <2>2
    <3>2. CASE m = Len(outXY) + 1
      BY <3>2, <1>2, <1>5, <2>2 DEF Pixel
    <3> QED BY <1>4, <2>2, <3>1, <3>2
  <2>5. OutCovers'
    <3>1. ASSUME NEW r \in Rows, NEW c \in Cols
          PROVE  px'[r][c].added > 0 <=> c = bank'[r] \/ Pixel(c, r) \in Out'
      <4>1. px[r][c].added > 0 <=> c = bank[r] \/ Pixel(c, r) \in Out
        BY DEF IInv, OutCovers
      <4>2. Pixel(c, r) = Pixel(bank[y], y) => c = bank[r]
        BY DEF Pixel
      <4> QED BY <4>1, <4>2, <1>2, <2>2
    <3>2. ASSUME NEW r \in Rows, r < flushRow'
          PROVE  bank'[r] = None \/ Pixel(bank'[r], r) \in Out'
      BY <3>2, <1>2, <1>5, <2>2 DEF IInv, OutCovers
    <3> QED BY <3>1, <3>2 DEF OutCovers
  <2> QED BY <1>3, <2>2, <2>3, <2>4, <2>5 DEF IInv
<1> QED BY <1>7, <1>8

\* A step keeps the invariant and leaves the pixels that were output alone.
LEMMA StepIInv ==
    ASSUME IInv, [Next]_vars
    PROVE  /\ IInv'
           /\ \A m \in 1 .. Len(outXY) :
                 px'[outXY[m].y][outXY[m].x] = px[outXY[m].y][outXY[m].x]
<1>1. ASSUME NEW ch \in ChunkIn, OpenColumn(ch) \/ AddToOpen(ch) \/ ThrowAway(ch)
      PROVE  /\ IInv'
             /\ \A m \in 1 .. Len(outXY) :
                   px'[outXY[m].y][outXY[m].x] = px[outXY[m].y][outXY[m].x]
  BY <1>1, OpenColumnKeeps, LateChunkKeeps
<1>2. CASE FlushRow
  <2>1. IInv'
    BY <1>2, FlushRowKeeps
  <2>2. px' = px
    BY <1>2 DEF FlushRow
  <2> QED BY <2>1, <2>2
<1>3. CASE EndOfInput \/ Finish \/ UNCHANGED vars
  <2>1. UNCHANGED <<bank, px, outXY, flushRow>>
    BY <1>3 DEF EndOfInput, Finish, vars
  <2>2. ControlOK'
    BY <1>3, <2>1 DEF EndOfInput, Finish, vars, IInv, ControlOK
  <2>3. PixelsOK' /\ OutBehind' /\ RowsRise'
    BY <2>1 DEF IInv, PixelsOK, OutBehind, RowsRise
  <2>4. OutCovers'
    BY <2>1 DEF IInv, OutCovers, Out
  <2> QED BY <2>1, <2>2, <2>3, <2>4 DEF IInv
<1> QED BY <1>1, <1>2, <1>3 DEF Next, Ended

-----------------------------------------------------------------------------
(* The theorems *)

\* The inductive invariant holds in every reachable state.
THEOREM IInvHolds == Spec => []IInv
<1>1. IInv /\ [Next]_vars => IInv'
  BY StepIInv
<1> QED BY <1>1, InitIInv, PTL DEF Spec

\* The state is well typed.
THEOREM TypeCorrect == Spec => []TypeOK
<1>1. IInv => TypeOK
  BY DEF IInv, ControlOK, PixelsOK, PixelOK, PxType, XY, TypeOK
<1> QED BY <1>1, IInvHolds, PTL

\* No counter exceeds cmaMaxSamples and no sum its counter, whatever chunks come.
THEOREM SamplesStayBounded == Spec => []SamplesBounded
<1>1. IInv => SamplesBounded
  BY DEF IInv, PixelsOK, PixelOK, SamplesOK, SamplesBounded
<1> QED BY <1>1, IInvHolds, PTL

\* The average IR value lies in the IR range, also when its counter is full.
THEOREM IrStaysInRange == Spec => []IrInRange
<1>1. IInv => IrInRange
  BY DEF IInv, PixelsOK, PixelOK, IrOK, IrInRange
<1> QED BY <1>1, IInvHolds, PTL

\* Pixels of different transmit modes are marked: a noise estimate is never zero.
THEOREM MixedAreMarked == Spec => []MixedModesMarked
<1>1. ASSUME IInv, InvalidateDiffTxRx, NEW y \in Rows, NEW x \in Cols,
             Cardinality(px[y][x].seen) > 1
      PROVE  px[y][x].mode = 3
  <2>1. px[y][x].mode = 3 \/ px[y][x].seen \subseteq {px[y][x].mode}
    BY <1>1 DEF IInv, PixelsOK, PixelOK, ModesOK
  <2>2. ASSUME px[y][x].seen \subseteq {px[y][x].mode} PROVE FALSE
    <3>1. px[y][x].seen = {} \/ px[y][x].seen = {px[y][x].mode}
      BY <2>2
    <3>2. Cardinality({}) = 0 /\ Cardinality({px[y][x].mode}) = 1
      BY FS_EmptySet, FS_Singleton
    <3>3. Cardinality(px[y][x].seen) \in {0, 1}
      BY <3>1, <3>2
    <3>4. \A c \in {0, 1} : ~(c > 1)
      OBVIOUS
    <3> QED BY <1>1, <3>3, <3>4
  <2> QED BY <2>1, <2>2
<1>2. IInv => MixedModesMarked
  BY <1>1 DEF MixedModesMarked
<1> QED BY <1>2, IInvHolds, PTL

\* Rows are output in rising columns, in whatever order chunks come and rows
\* interleave; no pixel is output twice.
THEOREM RowsAlwaysRise == Spec => []RowsRise
<1>1. IInv => RowsRise
  BY DEF IInv
<1> QED BY <1>1, IInvHolds, PTL

\* In the end the pixels that were output are those that have a chunk.
THEOREM AllPixelsOutput == Spec => []OutputComplete
<1>1. ASSUME IInv, phase = "done"
      PROVE  Out = {p \in XY : px[p.y][p.x].added > 0}
  <2>1. ASSUME NEW p \in Out PROVE p \in XY
    BY <1>1, <2>1 DEF IInv, ControlOK, Out
  <2>2. ASSUME NEW p \in XY PROVE p \in Out <=> px[p.y][p.x].added > 0
    <3>1. p.x \in Cols /\ p.y \in Rows /\ p = Pixel(p.x, p.y)
      BY DEF XY, Pixel
    <3>2. px[p.y][p.x].added > 0 <=> p.x = bank[p.y] \/ p \in Out
      BY <1>1, <3>1 DEF IInv, OutCovers
    <3>3. p.y < flushRow
      BY <1>1, <3>1, SizesAssumption DEF IInv, ControlOK, Rows
    <3>4. p.x = bank[p.y] => p \in Out
      BY <1>1, <3>1, <3>3 DEF IInv, OutCovers, Cols, None
    <3> QED BY <3>2, <3>4
  <2> QED BY <2>1, <2>2
<1>2. IInv => OutputComplete
  BY <1>1 DEF OutputComplete, Out, XY
<1> QED BY <1>2, IInvHolds, PTL

\* A late chunk never changes a pixel that was output.
THEOREM OutputStaysFinal == Spec => OutputFinal
<1>1. IInv /\ [Next]_vars =>
         [ \A m \in 1 .. Len(outXY) :
              LET p == outXY[m] IN px'[p.y][p.x] = px[p.y][p.x] ]_vars
  BY StepIInv
<1> QED BY <1>1, IInvHolds, PTL DEF Spec, OutputFinal
=============================================================================
