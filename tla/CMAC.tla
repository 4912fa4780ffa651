-------------------------------- MODULE CMAC --------------------------------
(***************************************************************************)
(* The accumulator of the RAST block: +Pipe/+RAST/CMAC.cpp, function       *)
(* buildCMAs.  Chunks arrive with the pixel the PCQ gave them.  Every row  *)
(* has one open column (cmaBank); a chunk of a later column closes it and  *)
(* outputs the pixel, a chunk that is one column late goes into the open   *)
(* pixel, an even later one is thrown away.                                *)
(*                                                                         *)
(* A pixel adds up, for every phase of the code, the samples and their     *)
(* number, and keeps the range and the sum of the IR values.  Whether a    *)
(* pixel has been started is read from its noise estimate being non-zero.  *)
(* The samples of one chunk are taken to be equal; time stamps and the     *)
(* statistics of late chunks are left out.  The PCQ makes no chunk with    *)
(* the end-of-frame flag, on which the loop would stop.                    *)
(***************************************************************************)
EXTENDS Integers, Sequences, FiniteSets

CONSTANTS
    ImgH, ImgV,    \* image size
    CodeLen,       \* cLenTemplate, phases of the code
    ChunkSize,     \* samples per chunk
    CmaMaxSamples, \* regs.cmaMaxSamples
    MaxIrCount,    \* largest value of the IR counter (65535)
    DiscardLate,   \* regs.discardLateChuncks
    InvalidateDiffTxRx,
    Offsets, Irs, Nests, Modes, Bits,  \* what chunks may carry
    MaxIn          \* bound on the number of chunks

ASSUME SizesAssumption ==
    /\ ImgH \in Nat /\ ImgV \in Nat /\ MaxIn \in Nat
    /\ ChunkSize \in Nat \ {0} /\ CodeLen \in Nat /\ ChunkSize <= CodeLen
    /\ CmaMaxSamples \in Nat /\ MaxIrCount \in Nat
ASSUME InputAssumption ==
    /\ DiscardLate \in BOOLEAN /\ InvalidateDiffTxRx \in BOOLEAN
    /\ Offsets \subseteq 0 .. CodeLen - 1 /\ Irs \subseteq Nat /\ Nests \subseteq Nat \ {0}
    /\ Modes \subseteq 0..3 /\ Bits \subseteq {0, 1}

Rows == 0 .. ImgV - 1
Cols == 0 .. ImgH - 1
Phases == 0 .. CodeLen - 1
None == -1

ChunkIn == [x : Cols, y : Rows, off : Offsets, bit : Bits, ir : Irs, nest : Nests, mode : Modes]

VARIABLES
    phase,    \* "in", "flush", "done"
    bank,     \* cmaBank: open column of every row
    px,       \* the output images, pixel by pixel
    outXY,    \* pixels output so far
    flushRow, \* row being flushed
    nIn,      \* chunks taken
    thrown    \* chunks thrown away (nThrownChunks, all pixels together)

vars == <<phase, bank, px, outXY, flushRow, nIn, thrown>>

\* added and seen are history: chunks added, and the modes they had
EmptyPixel ==
    [cmaA |-> [j \in Phases |-> 0], cmaC |-> [j \in Phases |-> 0],
     irA |-> 0, irC |-> 0, irMin |-> 0, irMax |-> 0, nest |-> 0, mode |-> 0,
     added |-> 0, seen |-> {}]

Init ==
    /\ phase = "in" /\ flushRow = 0 /\ nIn = 0 /\ thrown = 0
    /\ bank = [y \in Rows |-> None]
    /\ px = [y \in Rows |-> [x \in Cols |-> EmptyPixel]]
    /\ outXY = << >>

Least(a, b) == IF a < b THEN a ELSE b
Greatest(a, b) == IF a < b THEN b ELSE a

\* Phases a chunk covers: one conditional wrap at the end of the code
Covered(off) ==
    {IF off + k >= CodeLen THEN off + k - CodeLen ELSE off + k : k \in 0 .. ChunkSize - 1}

\* A phase takes a sample unless it has all it may have
TakesSample(p, ch, j) == j \in Covered(ch.off) /\ p.cmaC[j] # CmaMaxSamples

\* Mutant: a pixel's mode is never marked as mixed
ModeAfterKept(p, ch) == IF p.nest = 0 THEN ch.mode ELSE p.mode
\* out.flags: set by the first chunk, TxRx bits all set by a chunk of another mode
ModeAfter(p, ch) ==
    IF p.nest = 0 THEN ch.mode
    ELSE IF InvalidateDiffTxRx /\ p.mode # ch.mode THEN 3 ELSE p.mode

\* Mutant: the last IR value is taken for the largest
IrMaxAfterLast(p, ch) == ch.ir
IrMinAfter(p, ch) == IF p.nest = 0 THEN ch.ir ELSE Least(ch.ir, p.irMin)
IrMaxAfter(p, ch) == IF p.nest = 0 THEN ch.ir ELSE Greatest(ch.ir, p.irMax)
CountsIr(p, ch) == ch.ir # 0 /\ p.irC < MaxIrCount

Added(p, ch) ==
    [cmaA |-> [j \in Phases |-> IF TakesSample(p, ch, j) THEN p.cmaA[j] + ch.bit ELSE p.cmaA[j]],
     cmaC |-> [j \in Phases |-> IF TakesSample(p, ch, j) THEN p.cmaC[j] + 1 ELSE p.cmaC[j]],
     irA |-> IF CountsIr(p, ch) THEN p.irA + ch.ir ELSE p.irA,
     irC |-> IF CountsIr(p, ch) THEN p.irC + 1 ELSE p.irC,
     irMin |-> IrMinAfter(p, ch), irMax |-> IrMaxAfter(p, ch),
     nest |-> ch.nest, mode |-> ModeAfter(p, ch),
     added |-> p.added + 1, seen |-> p.seen \cup {ch.mode}]

AddTo(x, ch) == px' = [px EXCEPT ![ch.y][x] = Added(@, ch)]
Pixel(x, y) == [x |-> x, y |-> y]

Takes(ch) == phase = "in" /\ nIn < MaxIn /\ nIn' = nIn + 1

\* Mutant: a row's first pixel is output when it is opened
ClosedColumnToo(ch) == <<Pixel(bank[ch.y], ch.y), Pixel(ch.x, ch.y)>>
\* The pixel a chunk of a later column closes
ClosedColumn(ch) == IF bank[ch.y] = None THEN << >> ELSE <<Pixel(bank[ch.y], ch.y)>>

OpenColumn(ch) ==
    /\ Takes(ch) /\ ch.x > bank[ch.y]
    /\ outXY' = outXY \o ClosedColumn(ch)
    /\ bank' = [bank EXCEPT ![ch.y] = ch.x]
    /\ AddTo(ch.x, ch)
    /\ UNCHANGED <<phase, flushRow, thrown>>

\* More than one column behind the open one
TooLate(ch) == DiscardLate /\ ch.x + 1 < bank[ch.y]

\* Mutant: a late chunk goes to its own pixel, which is closed
TargetColumnOwn(ch) == ch.x
\* A late chunk is added to the column that is open
TargetColumn(ch) == bank[ch.y]

AddToOpen(ch) ==
    /\ Takes(ch) /\ ch.x <= bank[ch.y] /\ ~TooLate(ch)
    /\ AddTo(TargetColumn(ch), ch)
    /\ UNCHANGED <<phase, bank, outXY, flushRow, thrown>>

\* Of a chunk thrown away the noise estimate is kept, in the open pixel
ThrowAway(ch) ==
    /\ Takes(ch) /\ ch.x <= bank[ch.y] /\ TooLate(ch)
    /\ px' = [px EXCEPT ![ch.y][bank[ch.y]].nest = ch.nest]
    /\ thrown' = thrown + 1
    /\ UNCHANGED <<phase, bank, outXY, flushRow>>

EndOfInput ==
    /\ phase = "in"
    /\ phase' = "flush"
    /\ UNCHANGED <<bank, px, outXY, flushRow, nIn, thrown>>

\* Mutant: the rows' open pixels are not output at the end
FlushedNothing == << >>
Flushed == IF bank[flushRow] = None THEN << >> ELSE <<Pixel(bank[flushRow], flushRow)>>

FlushRow ==
    /\ phase = "flush" /\ flushRow < ImgV
    /\ outXY' = outXY \o Flushed
    /\ flushRow' = flushRow + 1
    /\ UNCHANGED <<phase, bank, px, nIn, thrown>>

Finish ==
    /\ phase = "flush" /\ flushRow = ImgV
    /\ phase' = "done"
    /\ UNCHANGED <<bank, px, outXY, flushRow, nIn, thrown>>

Ended == phase = "done" /\ UNCHANGED vars

Next ==
    \/ \E ch \in ChunkIn : OpenColumn(ch) \/ AddToOpen(ch) \/ ThrowAway(ch)
    \/ EndOfInput \/ FlushRow \/ Finish \/ Ended

Spec == Init /\ [][Next]_vars

-----------------------------------------------------------------------------
(* Properties *)

TypeOK ==
    /\ phase \in {"in", "flush", "done"}
    /\ bank \in [Rows -> Cols \cup {None}]
    /\ \A y \in Rows, x \in Cols :
          /\ px[y][x].cmaA \in [Phases -> Nat] /\ px[y][x].cmaC \in [Phases -> Nat]
          /\ px[y][x].irMin \in Nat /\ px[y][x].irMax \in Nat /\ px[y][x].nest \in Nat
          /\ px[y][x].mode \in 0..3
    /\ outXY \in Seq([x : Cols, y : Rows])
    /\ flushRow \in 0 .. ImgV

\* RAST.m asserts that no counter and no sum exceeds cmaMaxSamples; the sum of
\* binary samples never exceeds their number.
SamplesBounded ==
    \A y \in Rows, x \in Cols : \A j \in Phases :
        px[y][x].cmaA[j] <= px[y][x].cmaC[j] /\ px[y][x].cmaC[j] <= CmaMaxSamples

\* The pixels of a row are output in rising columns, as the CMA filter needs, and
\* none is output twice, for which RAST.m has a warning ("arrives twice").
RowsRise ==
    \A m, n \in 1 .. Len(outXY) :
        m < n /\ outXY[m].y = outXY[n].y => outXY[m].x < outXY[n].x

\* Every pixel that got a chunk is output, and no other one.
OutputComplete ==
    phase = "done" =>
        {outXY[m] : m \in 1 .. Len(outXY)} =
            {p \in [x : Cols, y : Rows] : px[p.y][p.x].added > 0}

\* A pixel that was output is final: no late chunk changes it.
OutputFinal ==
    [][ \A m \in 1 .. Len(outXY) :
            LET p == outXY[m] IN px'[p.y][p.x] = px[p.y][p.x] ]_vars

\* With invalidateDiffTxRx a pixel made of chunks of different transmit modes
\* carries mode 3, on which the CMA filter passes it through unsmoothed.
MixedModesMarked ==
    InvalidateDiffTxRx =>
        \A y \in Rows, x \in Cols :
            Cardinality(px[y][x].seen) > 1 => px[y][x].mode = 3

\* The average of the non-zero IR values, which RAST.m computes as irA / irC,
\* lies between irMin and irMax.
IrInRange ==
    \A y \in Rows, x \in Cols :
        LET p == px[y][x]
        IN  p.irC > 0 => p.irMin * p.irC <= p.irA /\ p.irA <= p.irMax * p.irC
=============================================================================
