----------------------------- MODULE PCQProofs -----------------------------
(***************************************************************************)
(* Proofs about the pixel-chunk queue, for every size of the ring, the     *)
(* code, the quads and the frame, in both modes.  The type invariant is    *)
(* the bounds check of Buffer::get: no slot number leaves the ring, though *)
(* slot numbers are added to and wrapped by one condition only.            *)
(*                                                                         *)
(* In the code a window is a pair of slot numbers, computed and moved on   *)
(* by conditional wraps.  The second half, outside range-finder mode,      *)
(* relates them to the chunks the window was meant to have, and concludes  *)
(* that pixels are delivered in order and whole (PixelDelivery), that the  *)
(* ring still has their chunks, and that pixels with others are reported.  *)
(***************************************************************************)
EXTENDS PCQ, SequenceTheorems, TLAPS

USE SizesAssumption, ImageAssumption, FlagAssumption, CapacityAssumption

\* TypeOK, a part for each group of variables that actions change together
ControlOK ==
    /\ pc \in {"pop", "write", "analyze"} \cup Terminal
    /\ i \in 0 .. NChunks /\ iClock \in 0 .. ChunkRate - 1
FlagsOK == eof \in BOOLEAN /\ failed \in BOOLEAN /\ stale \in BOOLEAN /\ toEmpty \in BOOLEAN
RingOK ==
    /\ ring \in [Slots -> [id : Nat, off : 0 .. CodeLen - 1, seq : Int]]
    /\ pushIndex \in Slots /\ pushes \in Nat
QueueOK == pxFifo \in Seq(PxInfoType)
CurrOK == pxCurr \in PxInfoType /\ k \in 0 .. QuadSize /\ outOff \in 0 .. CodeLen - 1
OutOK == out \in [chunks : Nat, quads : Nat, pxInfos : Nat]
LocalsType ==
    [p0 : Int, pLast : Int, pPrev : Point, tOffset : 0 .. CodeLen - 1,
     codeStartReceived : BOOLEAN, idxFirst : Int, n : Int,
     prevRoi : BOOLEAN, prevInRoi : BOOLEAN]
AnOK == an \in LocalsType
BeamOK == beam \in [x : Xs, still : 1 .. MinDwell, y : Ys, roi : RoiPhases]

\* A pixel that is open begins in the ring or, in range-finder mode, less than a
\* quad beyond its end, and has been counted from 0.
PixelOpenOK ==
    /\ seqFirst \in Int
    /\ an.prevInRoi =>
           /\ an.idxFirst \in 0 .. BufSize + QuadSize - 2
           /\ RangeFinder \/ an.n \in Nat

IInv ==
    /\ ControlOK /\ FlagsOK /\ RingOK /\ QueueOK /\ CurrOK /\ OutOK
    /\ AnOK /\ BeamOK /\ PixelOpenOK

LEMMA IInvImpliesTypeOK == IInv => TypeOK
BY DEF IInv, TypeOK, ControlOK, FlagsOK, RingOK, QueueOK, CurrOK, OutOK, AnOK, LocalsType, BeamOK,
       PixelOpenOK

-----------------------------------------------------------------------------
(* Arithmetic of slots and offsets *)

\* A code takes at least one chunk.
LEMMA CodeChunksNat == CodeChunks \in Nat
<1>1. (CodeLen - 1) \div ChunkSize \in Nat
  OBVIOUS
<1> QED BY <1>1 DEF CodeChunks

\* Buffer::next stays in the ring.
LEMMA NextSlotType ==
    ASSUME NEW s \in Slots
    PROVE  NextSlot(s) \in Slots
BY DEF NextSlot, Slots

\* One wrap is enough for a slot moved by less than the ring.
LEMMA ModSlotType ==
    ASSUME NEW s \in Int, -BufSize <= s, s < 2 * BufSize
    PROVE  ModSlot(s) \in Slots
BY DEF ModSlot, Slots

\* Offsets stay inside the code.
LEMMA OffsetType ==
    ASSUME NEW off \in 0 .. CodeLen - 1
    PROVE  AddOffset(off) \in 0 .. CodeLen - 1 /\ SubOffset(off) \in 0 .. CodeLen - 1
BY DEF AddOffset, SubOffset

\* In range-finder mode a pixel is moved on by less than a quad.
LEMMA MoveType ==
    ASSUME NEW ch \in ChunkIn, ChunkOffset(ch) \in Nat
    PROVE  ChunksToMove(ch) \in 0 .. QuadSize - 1
<1>1. ChunkOffset(ch) \div ChunkSize \in Nat
  OBVIOUS
<1>2. (ChunkOffset(ch) \div ChunkSize) % QuadSize \in 0 .. QuadSize - 1
  BY <1>1
<1>3. (QuadSize - ((ChunkOffset(ch) \div ChunkSize) % QuadSize)) % QuadSize \in 0 .. QuadSize - 1
  BY <1>2
<1> QED BY <1>3 DEF ChunksToMove

-----------------------------------------------------------------------------
(* The window of a pixel *)

\* The slot a pixel begins at, its length and the extra chunks around it.
LEMMA WindowParts ==
    ASSUME IInv, NEW ch \in ChunkIn
    PROVE  /\ FirstSlot \in 0 .. BufSize + QuadSize - 2 /\ FirstSeq \in Int
           /\ PxChunks \in Int /\ (RangeFinder \/ PxChunks \in Nat \ {0})
           /\ ExtraStart(ch) \in 0 .. BufSize - 1 /\ ExtraEnd(ch) \in 0 .. BufSize - 1
<1>a. an.idxFirst \in Int /\ an.n \in Int /\ seqFirst \in Int /\ pushes \in Nat /\ pushIndex \in Slots
  BY DEF IInv, AnOK, LocalsType, PixelOpenOK, RingOK
<1>b. an.prevInRoi => an.idxFirst \in 0 .. BufSize + QuadSize - 2 /\ (RangeFinder \/ an.n \in Nat)
  BY DEF IInv, PixelOpenOK
<1>1. FirstSlot \in 0 .. BufSize + QuadSize - 2 /\ FirstSeq \in Int
  <2>1. CASE an.prevInRoi
    BY <2>1, <1>a, <1>b DEF FirstSlot, FirstSeq
  <2>2. CASE ~an.prevInRoi
    BY <2>2, <1>a DEF FirstSlot, FirstSeq, Slots
  <2> QED BY <2>1, <2>2
<1>2. PxChunks \in Int /\ (RangeFinder \/ PxChunks \in Nat \ {0})
  <2>1. CASE RangeFinder
    BY <1>1, <1>a, <2>1 DEF PxChunks, Slots
  <2>2. CASE ~RangeFinder /\ an.prevInRoi
    BY <1>b, <2>2 DEF PxChunks
  <2>3. CASE ~RangeFinder /\ ~an.prevInRoi
    BY <2>3 DEF PxChunks
  <2> QED BY <2>1, <2>2, <2>3
<1>3. ExtraChunks \in 0 .. BufSize - 1
  BY <1>2, CodeChunksNat DEF ExtraChunks
<1>4. SmallLobe \in 0 .. BufSize - 1 /\ BigLobe \in 0 .. BufSize - 1
  BY <1>3 DEF SmallLobe, BigLobe
<1>5. ExtraStart(ch) \in 0 .. BufSize - 1 /\ ExtraEnd(ch) \in 0 .. BufSize - 1
  BY <1>4 DEF ExtraStart, ExtraEnd
<1> QED BY <1>1, <1>2, <1>5

\* A window's slot numbers are slots of the ring.
LEMMA PxInfoIsTyped ==
    ASSUME IInv, NEW ch \in ChunkIn
    PROVE  PxInfo(ch) \in PxInfoType
<1>1. /\ FirstSlot \in 0 .. BufSize + QuadSize - 2 /\ FirstSeq \in Int /\ PxChunks \in Int
      /\ ExtraStart(ch) \in 0 .. BufSize - 1 /\ ExtraEnd(ch) \in 0 .. BufSize - 1
  BY WindowParts
<1>2. pushIndex \in Slots /\ pushes \in Nat
  BY DEF IInv, RingOK
<1>3. ModSlot(FirstSlot - ExtraStart(ch)) \in Slots
  BY <1>1, ModSlotType
<1>4. ModSlot(pushIndex + ExtraEnd(ch)) \in Slots
  BY <1>1, <1>2, ModSlotType DEF Slots
<1>5. ch.tx \in 0..3
  BY DEF ChunkIn
<1> QED BY <1>1, <1>2, <1>3, <1>4, <1>5 DEF PxInfo, PxInfoType

-----------------------------------------------------------------------------
(* The steps *)

LEMMA InitIInv == Init => IInv
<1> SUFFICES ASSUME Init PROVE IInv
  OBVIOUS
<1> USE DEF Init
<1>1. ControlOK
  BY DEF ControlOK
<1>2. FlagsOK
  BY DEF FlagsOK
<1>3. RingOK
  BY DEF RingOK, Slots
<1>4. QueueOK
  BY DEF QueueOK
<1>5. CurrOK
  BY DEF CurrOK, NoPixel, PxInfoType, Slots
<1>6. OutOK
  BY DEF OutOK
<1>7. AnOK
  BY DEF AnOK, LocalsType, Point, P0
<1>8. BeamOK
  BY DEF BeamOK, RoiPhases
<1>9. PixelOpenOK
  BY DEF PixelOpenOK
<1> QED BY <1>1, <1>2, <1>3, <1>4, <1>5, <1>6, <1>7, <1>8, <1>9 DEF IInv

\* What a step leaves alone keeps its part of the invariant.
LEMMA Unchanged ==
    /\ RingOK /\ UNCHANGED ringVars => RingOK'
    /\ QueueOK /\ UNCHANGED pxFifo => QueueOK'
    /\ OutOK /\ UNCHANGED out => OutOK'
    /\ AnOK /\ PixelOpenOK /\ UNCHANGED pixelVars => AnOK' /\ PixelOpenOK'
    /\ BeamOK /\ UNCHANGED beam => BeamOK'
BY DEF RingOK, QueueOK, OutOK, AnOK, BeamOK, PixelOpenOK, ringVars, pixelVars

\* Steps of the Writer
LEMMA WriterKeeps == ASSUME IInv, Writer PROVE IInv'
<1>1. UNCHANGED <<i, iClock, eof, beam, ringVars, pixelVars, toEmpty>>
  BY DEF Writer, Finish, PopPixel, KeepPixel, WriteChunk, WriteFails, EndQuad, frameVars
<1>2. RingOK' /\ AnOK' /\ PixelOpenOK' /\ BeamOK'
  BY <1>1, Unchanged DEF IInv
<1>3. ControlOK'
  <2>1. pc' \in {"pop", "write", "analyze"} \cup Terminal
    BY DEF Writer, Finish, PopPixel, KeepPixel, WriteChunk, WriteFails, EndQuad, Terminal,
           IInv, ControlOK
  <2> QED BY <1>1, <2>1 DEF IInv, ControlOK
<1>4. FlagsOK'
  BY <1>1 DEF Writer, Finish, PopPixel, KeepPixel, WriteChunk, WriteFails, EndQuad, writerVars,
              IInv, FlagsOK
<1>5. QueueOK'
  <2>1. CASE PopPixel
    BY <2>1 DEF PopPixel, MayPop, IInv, QueueOK
  <2>2. CASE UNCHANGED pxFifo
    BY <2>2, Unchanged DEF IInv
  <2> QED BY <2>1, <2>2 DEF Writer, Finish, KeepPixel, WriteChunk, WriteFails, EndQuad
<1>6. CurrOK'
  <2>1. CASE PopPixel
    <3>1. Head(pxFifo) \in PxInfoType
      BY <2>1 DEF PopPixel, MayPop, IInv, QueueOK
    <3> QED BY <2>1, <3>1 DEF PopPixel, IInv, CurrOK
  <2>2. CASE WriteChunk
    <3>1. NextSlot(pxCurr.idxExtStart) \in Slots
      BY NextSlotType DEF IInv, CurrOK, PxInfoType
    <3>2. pxCurr' \in PxInfoType
      <4>1. pxCurr \in PxInfoType /\ pxCurr.seqPos + 1 \in Int
        BY DEF IInv, CurrOK, PxInfoType
      <4>2. pxCurr' = [pxCurr EXCEPT !.idxExtStart = NextSlot(pxCurr.idxExtStart),
                                     !.seqPos = pxCurr.seqPos + 1]
        BY <2>2 DEF WriteChunk
      <4> HIDE DEF NextSlot
      <4> QED BY <3>1, <4>1, <4>2 DEF PxInfoType
    <3>3. outOff' \in 0 .. CodeLen - 1
      BY <2>2, OffsetType DEF WriteChunk, OutOffset, IInv, CurrOK, RingOK, PxInfoType
    <3>4. k' \in 0 .. QuadSize
      BY <2>2 DEF WriteChunk, MoreToWrite, IInv, CurrOK
    <3> QED BY <3>2, <3>3, <3>4 DEF CurrOK
  <2>3. CASE KeepPixel
    BY <2>3 DEF KeepPixel, IInv, CurrOK
  <2>4. CASE UNCHANGED writerVars
    BY <2>4 DEF writerVars, IInv, CurrOK
  <2> QED BY <2>1, <2>2, <2>3, <2>4 DEF Writer, Finish, WriteFails, EndQuad
<1>7. OutOK'
  <2>1. CASE WriteChunk
    BY <2>1 DEF WriteChunk, IInv, OutOK
  <2>2. CASE EndQuad
    BY <2>2 DEF EndQuad, IInv, OutOK
  <2>3. CASE UNCHANGED out
    BY <2>3, Unchanged DEF IInv
  <2> QED BY <2>1, <2>2, <2>3 DEF Writer, Finish, PopPixel, KeepPixel, WriteFails
<1> QED BY <1>2, <1>3, <1>4, <1>5, <1>6, <1>7 DEF IInv

\* A chunk that is taken keeps the control and the environment typed.
LEMMA TakenChunk ==
    ASSUME IInv, NEW ch \in ChunkIn, TakeChunk(ch)
    PROVE  /\ i' \in 0 .. NChunks /\ iClock' \in 0 .. ChunkRate - 1
           /\ eof' \in BOOLEAN /\ BeamOK'
<1>1. i' \in 0 .. NChunks /\ iClock' \in 0 .. ChunkRate - 1
  BY DEF TakeChunk, IInv, ControlOK
<1>2. eof' \in BOOLEAN
  BY DEF TakeChunk, Ends, ChunkIn, IInv, FlagsOK
<1>3. Still(ch.x) \in 1 .. MinDwell
  BY DEF Still, IInv, BeamOK
<1>4. NextRoi(ch.roi) \in RoiPhases
  BY DEF NextRoi, RoiPhases
<1>5. BeamOK'
  BY <1>3, <1>4 DEF TakeChunk, BeamOK, ChunkIn
<1> QED BY <1>1, <1>2, <1>5

\* Offsets the Analyzer computes for a chunk are offsets of the code.
LEMMA ChunkOffsets ==
    ASSUME IInv, NEW ch \in ChunkIn
    PROVE  CodeOffset(ch) \in 0 .. CodeLen - 1 /\ ChunkOffset(ch) \in 0 .. CodeLen - 1
<1>1. CodeOffset(ch) \in 0 .. CodeLen - 1
  BY DEF CodeOffset, IInv, AnOK, LocalsType
<1> QED BY <1>1, OffsetType DEF ChunkOffset

\* A chunk goes into a slot of the ring.
LEMMA PushKeepsRing ==
    ASSUME IInv, NEW ch \in ChunkIn, PushChunk(ch)
    PROVE  RingOK'
<1>1. ring' \in [Slots -> [id : Nat, off : 0 .. CodeLen - 1, seq : Int]]
  BY ChunkOffsets DEF PushChunk, IInv, RingOK, ControlOK
<1>2. pushIndex' \in Slots /\ pushes' \in Nat
  BY NextSlotType DEF PushChunk, IInv, RingOK
<1> QED BY <1>1, <1>2 DEF RingOK

\* The locals after a chunk in the region of interest
LEMMA AfterChunkTyped ==
    ASSUME IInv, NEW ch \in ChunkIn
    PROVE  AfterChunk(ch) \in LocalsType
<1>1. AddOffset(CodeOffset(ch)) \in 0 .. CodeLen - 1
  BY ChunkOffsets, OffsetType
<1>2. ch.x \in Int /\ ch.roi \in BOOLEAN
  BY DEF ChunkIn
<1>3. an \in LocalsType
  BY DEF IInv, AnOK
<1> QED BY <1>1, <1>2, <1>3 DEF AfterChunk, LocalsType

LEMMA StartPixelTyped ==
    ASSUME IInv, NEW ch \in ChunkIn, NEW first \in 0 .. BufSize + QuadSize - 2,
           an' = StartPixel(ch, first), seqFirst' \in Int
    PROVE  AnOK' /\ PixelOpenOK'
<1>1. ch.x \in Int /\ [x |-> ch.x, y |-> ch.y] \in Point
  BY DEF ChunkIn, Point
<1>2. AnOK'
  <2> DEFINE a == AfterChunk(ch)
  <2>1. an' = [a EXCEPT !.p0 = ch.x, !.pPrev = [x |-> ch.x, y |-> ch.y],
                        !.n = 0, !.idxFirst = first]
    BY DEF StartPixel
  <2>2. a \in LocalsType
    BY AfterChunkTyped
  <2> HIDE DEF a
  <2>3. an' = [p0 |-> ch.x, pLast |-> a.pLast, pPrev |-> [x |-> ch.x, y |-> ch.y],
               tOffset |-> a.tOffset, codeStartReceived |-> a.codeStartReceived,
               idxFirst |-> first, n |-> 0, prevRoi |-> a.prevRoi, prevInRoi |-> a.prevInRoi]
    BY <2>1, <2>2 DEF LocalsType
  <2> QED BY <1>1, <2>2, <2>3 DEF AnOK, LocalsType
<1>3. an'.idxFirst = first /\ an'.n = 0
  BY AfterChunkTyped DEF StartPixel, LocalsType
<1> QED BY <1>2, <1>3 DEF PixelOpenOK

\* Steps of the Analyzer that take a chunk
LEMMA AnalyzerKeeps == ASSUME IInv, NEW ch \in ChunkIn, AnalyzeChunk(ch) PROVE IInv'
<1>1. TakeChunk(ch) /\ UNCHANGED writerVars
  BY DEF AnalyzeChunk, IgnoreChunk, OutsideRoi, ContinuePixel, QueuePixel, QueueFails,
         DropPixel, Analyze
<1>2. CurrOK' /\ failed' \in BOOLEAN /\ stale' \in BOOLEAN
  BY <1>1 DEF writerVars, IInv, CurrOK, FlagsOK
<1>3. /\ i' \in 0 .. NChunks /\ iClock' \in 0 .. ChunkRate - 1
      /\ eof' \in BOOLEAN /\ BeamOK'
  BY <1>1, TakenChunk
<1>4. pc' \in {"pop", "write", "analyze"} \cup Terminal
  BY DEF AnalyzeChunk, IgnoreChunk, OutsideRoi, ContinuePixel, QueuePixel, QueueFails,
         DropPixel, Terminal
<1>5. toEmpty' \in BOOLEAN
  BY DEF AnalyzeChunk, IgnoreChunk, OutsideRoi, ContinuePixel, QueuePixel, QueueFails,
         DropPixel, IInv, FlagsOK
<1>6. RingOK'
  <2>1. CASE IgnoreChunk(ch) \/ OutsideRoi(ch)
    BY <2>1, Unchanged DEF IgnoreChunk, OutsideRoi, IInv
  <2>2. CASE PushChunk(ch)
    BY <2>2, PushKeepsRing
  <2> QED BY <2>1, <2>2 DEF AnalyzeChunk, ContinuePixel, QueuePixel, QueueFails, DropPixel
<1>7. QueueOK'
  <2>1. CASE pxFifo' = Append(pxFifo, PxInfo(ch))
    BY <2>1, PxInfoIsTyped DEF IInv, QueueOK
  <2>2. CASE UNCHANGED pxFifo
    BY <2>2, Unchanged DEF IInv
  <2> QED BY <2>1, <2>2 DEF AnalyzeChunk, IgnoreChunk, OutsideRoi, ContinuePixel, QueuePixel,
                            QueueFails, DropPixel
<1>8. OutOK'
  <2>1. CASE out' = [out EXCEPT !.pxInfos = out.pxInfos + 1]
    <3>1. out \in [chunks : Nat, quads : Nat, pxInfos : Nat] /\ out.pxInfos + 1 \in Nat
      BY DEF IInv, OutOK
    <3> QED BY <2>1, <3>1 DEF OutOK
  <2>2. CASE UNCHANGED out
    BY <2>2, Unchanged DEF IInv
  <2> QED BY <2>1, <2>2 DEF AnalyzeChunk, IgnoreChunk, OutsideRoi, ContinuePixel, QueuePixel,
                            QueueFails, DropPixel
<1>9. AnOK' /\ PixelOpenOK'
  <2>1. CASE IgnoreChunk(ch)
    BY <2>1, Unchanged DEF IgnoreChunk, IInv
  <2>2. CASE OutsideRoi(ch)
    <3>1. AddOffset(CodeOffset(ch)) \in 0 .. CodeLen - 1 /\ ch.roi \in BOOLEAN
      BY ChunkOffsets, OffsetType DEF ChunkIn
    <3>2. AnOK' /\ ~an'.prevInRoi
      BY <2>2, <3>1 DEF OutsideRoi, IInv, AnOK, LocalsType
    <3>3. seqFirst' \in Int
      BY <2>2 DEF OutsideRoi, IInv, PixelOpenOK
    <3> QED BY <3>2, <3>3 DEF PixelOpenOK
  <2>3. CASE ContinuePixel(ch)
    <3>1. /\ FirstSlot \in 0 .. BufSize + QuadSize - 2 /\ FirstSeq \in Int
          /\ PxChunks \in Int /\ (RangeFinder \/ PxChunks \in Nat)
      BY WindowParts
    <3> DEFINE a == AfterChunk(ch)
    <3>2. an' = [a EXCEPT !.idxFirst = FirstSlot, !.n = PxChunks] /\ seqFirst' = FirstSeq
      BY <2>3 DEF ContinuePixel
    <3>3. a \in LocalsType
      BY AfterChunkTyped
    <3> HIDE DEF a
    <3>4. an'.idxFirst = FirstSlot /\ an'.n = PxChunks
      BY <3>2, <3>3 DEF LocalsType
    <3>5. an' = [p0 |-> a.p0, pLast |-> a.pLast, pPrev |-> a.pPrev, tOffset |-> a.tOffset,
                 codeStartReceived |-> a.codeStartReceived, idxFirst |-> FirstSlot,
                 n |-> PxChunks, prevRoi |-> a.prevRoi, prevInRoi |-> a.prevInRoi]
      BY <3>2, <3>3 DEF LocalsType
    <3>6. FirstSlot \in Int /\ PxChunks \in Int
      BY <3>1
    <3>7. AnOK'
      BY <3>3, <3>5, <3>6 DEF AnOK, LocalsType
    <3> QED BY <3>1, <3>2, <3>4, <3>7 DEF PixelOpenOK
  <2>4. CASE QueuePixel(ch)
    <3>1. pushIndex \in 0 .. BufSize + QuadSize - 2 /\ pushes \in Int
      BY DEF IInv, RingOK, Slots
    <3> QED BY <2>4, <3>1, StartPixelTyped DEF QueuePixel
  <2>5. CASE QueueFails(ch)
    <3>1. pushes \in Int /\ AnOK /\ PixelOpenOK
      BY DEF IInv, RingOK
    <3> QED BY <2>5, <3>1 DEF QueueFails, AnOK, PixelOpenOK
  <2>6. CASE DropPixel(ch)
    <3>1. ChunksToMove(ch) \in 0 .. QuadSize - 1
      BY MoveType, ChunkOffsets
    <3>2. pushIndex \in 0 .. BufSize - 1 /\ pushes \in Int
      BY DEF IInv, RingOK, Slots
    <3>3. pushIndex + ChunksToMove(ch) \in 0 .. BufSize + QuadSize - 2
      BY <3>1, <3>2
    <3>4. pushes + ChunksToMove(ch) \in Int
      BY <3>1, <3>2
    <3> QED BY <2>6, <3>3, <3>4, StartPixelTyped DEF DropPixel
  <2> QED BY <2>1, <2>2, <2>3, <2>4, <2>5, <2>6 DEF AnalyzeChunk
<1> QED BY <1>2, <1>3, <1>4, <1>5, <1>6, <1>7, <1>8, <1>9 DEF IInv, ControlOK, FlagsOK

LEMMA StepIInv == IInv /\ [Next]_vars => IInv'
<1> SUFFICES ASSUME IInv, [Next]_vars PROVE IInv'
  OBVIOUS
<1>1. CASE Writer
  BY <1>1, WriterKeeps
<1>2. CASE EndOfInput \/ WaitForChunk
  <2>1. /\ UNCHANGED <<i, beam, ringVars, pxFifo, out, writerVars, pixelVars, toEmpty>>
        /\ pc' = "pop"
    BY <1>2 DEF EndOfInput, WaitForChunk
  <2>2. iClock' \in 0 .. ChunkRate - 1
    BY <1>2 DEF EndOfInput, WaitForChunk, IInv, ControlOK
  <2>3. eof' \in BOOLEAN
    BY <1>2 DEF EndOfInput, WaitForChunk, IInv, FlagsOK
  <2>4. ControlOK'
    BY <2>1, <2>2 DEF IInv, ControlOK
  <2>5. FlagsOK' /\ CurrOK'
    BY <2>1, <2>3 DEF IInv, FlagsOK, CurrOK, writerVars
  <2> QED BY <2>1, <2>4, <2>5, Unchanged DEF IInv
<1>3. CASE \E ch \in ChunkIn : AnalyzeChunk(ch)
  BY <1>3, AnalyzerKeeps
<1>4. CASE UNCHANGED vars
  <2>1. ControlOK' /\ FlagsOK' /\ CurrOK'
    BY <1>4 DEF vars, frameVars, writerVars, IInv, ControlOK, FlagsOK, CurrOK
  <2> QED BY <1>4, <2>1, Unchanged DEF vars, frameVars, IInv
<1> QED BY <1>1, <1>2, <1>3, <1>4 DEF Next, Analyzer, Ended

\* The inductive invariant holds in every reachable state.
THEOREM IInvHolds == Spec => []IInv
BY InitIInv, StepIInv, PTL DEF Spec

\* The state is well typed: every slot number the Writer reads with is a slot of
\* the ring, which is Buffer::get's check.
THEOREM TypeCorrect == Spec => []TypeOK
BY IInvHolds, IInvImpliesTypeOK, PTL

-----------------------------------------------------------------------------
(* The output arrays *)

LEMMA ArraySizes ==
    /\ MaxQuads \in Nat /\ MaxChunks = 4 * MaxQuads /\ MaxPxInfos = NChunks + 1
<1>1. CASE TxFactor = 1
  BY <1>1 DEF MaxQuads, MaxChunks, MaxPxInfos
<1>2. CASE TxFactor = 2
  BY <1>2 DEF MaxQuads, MaxChunks, MaxPxInfos
<1>3. CASE TxFactor = 4
  BY <1>3 DEF MaxQuads, MaxChunks, MaxPxInfos
<1> QED BY <1>1, <1>2, <1>3

\* A quad counts for four chunks, though it may hold fewer; an iteration writes
\* chunks only if there is a quad left; a pixel is queued by a chunk.
LimitInv ==
    /\ out.quads <= MaxQuads
    /\ pc = "write" => /\ out.chunks <= 4 * out.quads + k
                       /\ k > 0 => out.quads < MaxQuads
    /\ pc \in {"pop", "analyze"} => out.chunks <= 4 * out.quads
    /\ out.pxInfos <= i
    /\ LimitsTogether

LEMMA LimitInit == Init => LimitInv
BY ArraySizes DEF Init, LimitInv, LimitsTogether

\* Every step keeps what is known of the counters.
LEMMA LimitStep == IInv /\ LimitInv /\ [Next]_vars => LimitInv'
<1> SUFFICES ASSUME IInv, LimitInv, [Next]_vars PROVE LimitInv'
  OBVIOUS
<1>1. /\ out.chunks \in Nat /\ out.quads \in Nat /\ out.pxInfos \in Nat
      /\ k \in Nat /\ i \in Nat /\ k <= QuadSize
      /\ out \in [chunks : Nat, quads : Nat, pxInfos : Nat]
  BY DEF IInv, OutOK, CurrOK, ControlOK
<1>2. CASE Finish \/ KeepPixel \/ PopPixel
  <2>1. pc = "pop" /\ UNCHANGED <<out, i>>
    BY <1>2 DEF Finish, KeepPixel, PopPixel, frameVars
  <2>2. pc' = "done" \/ (pc' = "write" /\ k' = 0)
    BY <1>2 DEF Finish, KeepPixel, PopPixel
  <2> QED BY <1>1, <2>1, <2>2 DEF LimitInv, LimitsTogether
<1>3. CASE WriteChunk
  <2>1. /\ pc = "write" /\ pc' = pc /\ i' = i /\ k' = k + 1 /\ out.quads # MaxQuads
        /\ out' = [out EXCEPT !.chunks = out.chunks + 1]
    BY <1>3 DEF WriteChunk, MoreToWrite, frameVars
  <2>2. out'.chunks = out.chunks + 1 /\ out'.quads = out.quads /\ out'.pxInfos = out.pxInfos
    BY <1>1, <2>1
  <2> QED BY <1>1, <2>1, <2>2, ArraySizes DEF LimitInv, LimitsTogether
<1>4. CASE WriteFails
  <2>1. /\ pc = "write" /\ k < QuadSize /\ UNCHANGED <<out, i>>
        /\ \/ out.chunks = MaxChunks /\ pc' = "errChunks"
           \/ pc' = "errQuads"
    BY <1>4 DEF WriteFails, MoreToWrite, frameVars
  <2> QED BY <1>1, <2>1, ArraySizes DEF LimitInv, LimitsTogether
<1>5. CASE EndQuad
  <2>1. pc = "write" /\ i' = i /\ (pc' = "undefined" \/ pc' = "analyze")
    BY <1>5 DEF EndQuad, frameVars
  <2>2. CASE k > 0
    <3>1. out' = [out EXCEPT !.quads = out.quads + 1]
      BY <1>5, <2>2 DEF EndQuad
    <3>2. out'.chunks = out.chunks /\ out'.quads = out.quads + 1 /\ out'.pxInfos = out.pxInfos
      BY <1>1, <3>1
    <3> QED BY <1>1, <2>1, <2>2, <3>2, ArraySizes DEF LimitInv, LimitsTogether
  <2>3. CASE ~(k > 0)
    <3>1. out' = out
      BY <1>5, <2>3 DEF EndQuad
    <3> QED BY <1>1, <2>1, <2>3, <3>1 DEF LimitInv, LimitsTogether
  <2> QED BY <2>2, <2>3
<1>6. CASE EndOfInput \/ WaitForChunk
  <2>1. pc = "analyze" /\ pc' = "pop" /\ UNCHANGED <<out, i>>
    BY <1>6 DEF EndOfInput, WaitForChunk
  <2> QED BY <2>1 DEF LimitInv, LimitsTogether
<1>7. ASSUME NEW ch \in ChunkIn, AnalyzeChunk(ch) PROVE LimitInv'
  <2>1. pc = "analyze" /\ i < NChunks /\ i' = i + 1
    BY <1>7 DEF AnalyzeChunk, IgnoreChunk, OutsideRoi, ContinuePixel, QueuePixel, QueueFails,
                DropPixel, Analyze, TakeChunk
  <2>2. CASE QueuePixel(ch)
    <3>1. out' = [out EXCEPT !.pxInfos = out.pxInfos + 1] /\ pc' = "pop"
      BY <2>2 DEF QueuePixel
    <3>2. out'.chunks = out.chunks /\ out'.quads = out.quads /\ out'.pxInfos = out.pxInfos + 1
      BY <1>1, <3>1
    <3> QED BY <1>1, <2>1, <3>1, <3>2 DEF LimitInv, LimitsTogether
  <2>3. CASE QueueFails(ch)
    <3>1. out' = out /\ (pc' = "errFifo" \/ out.pxInfos = MaxPxInfos)
      BY <2>3 DEF QueueFails
    <3>2. out.pxInfos # MaxPxInfos
      BY <1>1, <2>1, ArraySizes DEF LimitInv
    <3> QED BY <1>1, <2>1, <3>1, <3>2 DEF LimitInv, LimitsTogether
  <2>4. CASE out' = out /\ pc' = "pop"
    BY <1>1, <2>1, <2>4 DEF LimitInv, LimitsTogether
  <2> QED BY <1>7, <2>2, <2>3, <2>4 DEF AnalyzeChunk, IgnoreChunk, OutsideRoi, ContinuePixel,
                                        DropPixel
<1>8. CASE UNCHANGED vars
  BY <1>8 DEF vars, frameVars, writerVars, LimitInv, LimitsTogether
<1> QED BY <1>2, <1>3, <1>4, <1>5, <1>6, <1>7, <1>8 DEF Next, Writer, Analyzer, Ended

\* A frame that is stopped by the limit on chunks has used up its quads, and the
\* array of pixel infos never fills up: mexFunction sizes the three to fit.
THEOREM LimitsAgree == Spec => []LimitsTogether
<1>1. LimitInv => LimitsTogether
  BY DEF LimitInv
<1> QED BY <1>1, IInvHolds, LimitInit, LimitStep, PTL DEF Spec

-----------------------------------------------------------------------------
(* The length of a pixel *)

LobeInv ==
    /\ an.prevInRoi => an.n <= MaxPxChunks - 1
    /\ \A j \in 1 .. Len(pxFifo) : pxFifo[j].main <= MaxPxChunks

\* The count of an open pixel, with the chunk at hand, is within the limit.
LEMMA CountWithinLimit ==
    ASSUME IInv, LobeInv, ~RangeFinder
    PROVE  PxChunks \in Nat /\ PxChunks <= MaxPxChunks
<1>1. CASE an.prevInRoi
  BY <1>1 DEF PxChunks, IInv, PixelOpenOK, LobeInv
<1>2. CASE ~an.prevInRoi
  BY <1>2 DEF PxChunks
<1> QED BY <1>1, <1>2

LEMMA LobeStep == ASSUME ~RangeFinder PROVE IInv /\ LobeInv /\ [Next]_vars => LobeInv'
<1> SUFFICES ASSUME IInv, LobeInv, [Next]_vars PROVE LobeInv'
  OBVIOUS
<1>1. CASE PopPixel
  <2>1. pxFifo \in Seq(PxInfoType) /\ pxFifo # << >> /\ pxFifo' = Tail(pxFifo) /\ an' = an
    BY <1>1 DEF PopPixel, MayPop, pixelVars, IInv, QueueOK
  <2>2. /\ Len(pxFifo') = Len(pxFifo) - 1
        /\ \A j \in 1 .. Len(pxFifo') : pxFifo'[j] = pxFifo[j + 1]
    BY <2>1
  <2> QED BY <2>1, <2>2 DEF LobeInv
<1>2. CASE UNCHANGED <<an, pxFifo>>
  BY <1>2 DEF LobeInv
<1>3. ASSUME NEW ch \in ChunkIn, AnalyzeChunk(ch) PROVE LobeInv'
  <2>1. PxChunks \in Nat /\ PxChunks <= MaxPxChunks
    BY CountWithinLimit
  <2>2. an'.prevInRoi => an'.n <= MaxPxChunks - 1
    <3>1. CASE IgnoreChunk(ch) \/ QueueFails(ch)
      BY <3>1 DEF IgnoreChunk, QueueFails, pixelVars, LobeInv
    <3>2. CASE OutsideRoi(ch)
      BY <3>2 DEF OutsideRoi, IInv, AnOK, LocalsType
    <3>3. CASE ContinuePixel(ch)
      <4>1. PxChunks # MaxPxChunks
        BY <3>3 DEF ContinuePixel, NewPixel
      <4>2. an'.n = PxChunks
        BY <3>3, AfterChunkTyped DEF ContinuePixel, LocalsType
      <4> QED BY <2>1, <4>1, <4>2
    <3>4. CASE QueuePixel(ch) \/ DropPixel(ch)
      <4>1. an'.n = 0
        BY <3>4, AfterChunkTyped DEF QueuePixel, DropPixel, StartPixel, LocalsType
      <4> QED BY <4>1
    <3> QED BY <1>3, <3>1, <3>2, <3>3, <3>4 DEF AnalyzeChunk
  <2>3. \A j \in 1 .. Len(pxFifo') : pxFifo'[j].main <= MaxPxChunks
    <3>1. CASE pxFifo' = Append(pxFifo, PxInfo(ch))
      <4>1. pxFifo \in Seq(PxInfoType) /\ PxInfo(ch) \in PxInfoType
        BY PxInfoIsTyped DEF IInv, QueueOK
      <4>2. PxInfo(ch).main = PxChunks
        BY DEF PxInfo
      <4> QED BY <2>1, <3>1, <4>1, <4>2 DEF LobeInv
    <3>2. CASE pxFifo' = pxFifo
      BY <3>2 DEF LobeInv
    <3> QED BY <1>3, <3>1, <3>2 DEF AnalyzeChunk, IgnoreChunk, OutsideRoi, ContinuePixel,
                                    QueuePixel, QueueFails, DropPixel
  <2> QED BY <2>2, <2>3 DEF LobeInv
<1> QED BY <1>1, <1>2, <1>3 DEF Next, Writer, Analyzer, Ended, Finish, KeepPixel, WriteChunk,
            WriteFails, EndQuad, EndOfInput, WaitForChunk, vars, pixelVars

\* Outside range-finder mode no pixel is longer than cMaxPxChunks, whatever way the
\* mirror moves; the CHECK that says so is commented out (PCQ.cpp line 387).  In
\* range-finder mode it depends on how long the mirror stays in a column.
THEOREM LobeBounded == ASSUME ~RangeFinder PROVE Spec => []MainLobeBounded
<1>1. Init => LobeInv
  BY DEF Init, LobeInv
<1>2. IInv /\ LobeInv => MainLobeBounded
  BY DEF LobeInv, MainLobeBounded, Queued
<1> QED BY <1>1, <1>2, LobeStep, IInvHolds, PTL DEF Spec

-----------------------------------------------------------------------------
(* The end of the frame *)

\* The flag that ended the frame is remembered as off, unless the input ended
\* before it or the run has failed.
StopInv ==
    /\ an.prevRoi => an.codeStartReceived
    /\ eof => ~an.prevRoi \/ i >= NChunks \/ pc \in Terminal

LEMMA StopStep == IInv /\ StopInv /\ [Next]_vars => StopInv'
<1> SUFFICES ASSUME IInv, StopInv, [Next]_vars PROVE StopInv'
  OBVIOUS
<1>1. i \in Nat /\ NChunks \in Nat
  BY DEF IInv, ControlOK
<1>2. CASE UNCHANGED <<an, i, eof>> /\ (pc \in Terminal => pc' \in Terminal)
  BY <1>2 DEF StopInv
<1>3. CASE Writer \/ WaitForChunk
  <2>1. UNCHANGED <<an, i, eof>> /\ pc \notin Terminal
    BY <1>3 DEF Writer, Finish, PopPixel, KeepPixel, WriteChunk, WriteFails, EndQuad, MoreToWrite,
                WaitForChunk, frameVars, pixelVars, Terminal
  <2> QED BY <1>2, <2>1
<1>4. CASE EndOfInput
  BY <1>4 DEF EndOfInput, pixelVars, StopInv
<1>5. ASSUME NEW ch \in ChunkIn, IgnoreChunk(ch) PROVE StopInv'
  <2>1. /\ an' = an /\ i' = i + 1 /\ i < NChunks /\ pc \notin Terminal
        /\ eof' = (eof \/ Ends(ch)) /\ (Ignored \/ ~Received(ch))
    BY <1>5 DEF IgnoreChunk, TakeChunk, pixelVars, Terminal
  <2>2. ~an.prevRoi
    BY <2>1 DEF Ignored, Received, StopInv
  <2> QED BY <2>1, <2>2 DEF StopInv
<1>6. ASSUME NEW ch \in ChunkIn, QueueFails(ch) PROVE StopInv'
  <2>1. an' = an /\ pc' \in Terminal
    BY <1>6 DEF QueueFails, Terminal
  <2> QED BY <2>1 DEF StopInv
<1>7. ASSUME NEW ch \in ChunkIn,
             OutsideRoi(ch) \/ ContinuePixel(ch) \/ QueuePixel(ch) \/ DropPixel(ch)
      PROVE  StopInv'
  <2>1. /\ i < NChunks /\ pc \notin Terminal /\ eof' = (eof \/ Ends(ch)) /\ ~Ignored
    BY <1>7 DEF OutsideRoi, ContinuePixel, QueuePixel, DropPixel, Analyze, TakeChunk, Terminal
  <2>2. an'.prevRoi = ch.roi /\ an'.codeStartReceived
    <3>1. CASE OutsideRoi(ch)
      BY <3>1 DEF OutsideRoi, IInv, AnOK, LocalsType
    <3>2. /\ AfterChunk(ch) \in LocalsType
          /\ AfterChunk(ch).prevRoi = ch.roi /\ AfterChunk(ch).codeStartReceived
      BY AfterChunkTyped DEF AfterChunk, IInv, AnOK, LocalsType
    <3>3. CASE ContinuePixel(ch)
      <4>1. an' = [AfterChunk(ch) EXCEPT !.idxFirst = FirstSlot, !.n = PxChunks]
        BY <3>3 DEF ContinuePixel
      <4> QED BY <3>2, <4>1 DEF LocalsType
    <3>4. CASE QueuePixel(ch) \/ DropPixel(ch)
      <4>1. PICK first : an' = StartPixel(ch, first)
        BY <3>4 DEF QueuePixel, DropPixel
      <4> QED BY <3>2, <4>1 DEF StartPixel, LocalsType
    <3> QED BY <1>7, <3>1, <3>3, <3>4
  <2>3. ~eof
    BY <1>1, <2>1 DEF Ignored, StopInv
  <2>4. eof' => ~ch.roi
    BY <2>1, <2>3 DEF Ends
  <2> QED BY <2>2, <2>4 DEF StopInv
<1>8. CASE UNCHANGED vars
  BY <1>2, <1>8 DEF vars, frameVars, pixelVars
<1> QED BY <1>3, <1>4, <1>5, <1>6, <1>7, <1>8 DEF Next, Analyzer, AnalyzeChunk, Ended

\* Once the frame has ended, by its flag or with the input, the ring, the locals of
\* the Analyzer and the pixels it reported do not change any more.
THEOREM StopsAtFrameEnd == Spec => AnalyzerStops
<1>1. Init => StopInv
  BY DEF Init, StopInv
<1>2. IInv /\ StopInv /\ [Next]_vars
          => [eof => UNCHANGED <<ringVars, an, out.pxInfos>>]_vars
  <2> SUFFICES ASSUME IInv, StopInv, Next, eof PROVE UNCHANGED <<ringVars, an, out.pxInfos>>
    OBVIOUS
  <2>1. i \in Nat /\ NChunks \in Nat /\ out \in [chunks : Nat, quads : Nat, pxInfos : Nat]
    BY DEF IInv, ControlOK, OutOK
  <2>2. CASE Writer
    <3>1. UNCHANGED <<ringVars, an>>
      BY <2>2 DEF Writer, Finish, PopPixel, KeepPixel, WriteChunk, WriteFails, EndQuad, pixelVars
    <3>2. out'.pxInfos = out.pxInfos
      <4>1. CASE WriteChunk
        BY <2>1, <4>1 DEF WriteChunk
      <4>2. CASE EndQuad
        BY <2>1, <4>2 DEF EndQuad
      <4> QED BY <2>2, <4>1, <4>2 DEF Writer, Finish, PopPixel, KeepPixel, WriteFails
    <3> QED BY <3>1, <3>2
  <2>3. CASE EndOfInput \/ WaitForChunk
    BY <2>3 DEF EndOfInput, WaitForChunk, pixelVars
  <2>4. ASSUME NEW ch \in ChunkIn, AnalyzeChunk(ch)
        PROVE  UNCHANGED <<ringVars, an, out.pxInfos>>
    <3>1. i < NChunks /\ pc \notin Terminal
      BY <2>4 DEF AnalyzeChunk, IgnoreChunk, OutsideRoi, ContinuePixel, QueuePixel, QueueFails,
                  DropPixel, Analyze, TakeChunk, Terminal
    <3>2. Ignored
      BY <2>1, <3>1 DEF Ignored, StopInv
    <3>3. IgnoreChunk(ch)
      BY <2>4, <3>2 DEF AnalyzeChunk, OutsideRoi, ContinuePixel, QueuePixel, QueueFails,
                        DropPixel, Analyze
    <3> QED BY <3>3 DEF IgnoreChunk, pixelVars
  <2>5. CASE Ended
    BY <2>5 DEF Ended, vars, ringVars, pixelVars
  <2> QED BY <2>2, <2>3, <2>4, <2>5 DEF Next, Analyzer
<1> QED BY <1>1, <1>2, StopStep, IInvHolds, PTL DEF Spec, AnalyzerStops

-----------------------------------------------------------------------------
(* The loop ends *)

\* Turns of the loop until the input is used up
Turns == (NChunks - i) * ChunkRate - iClock
\* What a turn uses up: input, quads of the output, or pixels of the FIFO.  A chunk may
\* queue a pixel, so that a turn of the input counts twice.
Unended == IF eof THEN 0 ELSE 2
Budget ==
    2 * Turns + Unended + (MaxQuads - out.quads) + Len(pxFifo)
\* Steps left in the turn; after the end of the frame the Writer has to pay for the
\* turn, before it only the Analyzer is sure to.
TurnOver == IF eof THEN QuadSize + 4 ELSE 1
ToWrite == IF eof /\ DoneCurrent /\ k = 0 THEN QuadSize + 5 ELSE QuadSize - k + 2
Stage ==
    IF pc = "pop" THEN QuadSize + 3
    ELSE IF pc = "write" THEN ToWrite
    ELSE IF pc = "analyze" THEN TurnOver ELSE 0
Remaining == 10 * Budget + Stage

ClockInv == i = NChunks => iClock = 0

LEMMA TurnsDrop ==
    ASSUME IInv, ClockInv
    PROVE  /\ Turns \in Nat
           /\ (i' = i /\ iClock' = iClock) => Turns' = Turns
           /\ (i < NChunks /\ i' = i /\ iClock' = iClock + 1) => Turns' = Turns - 1
           /\ (i < NChunks /\ i' = i + 1 /\ iClock' = 0 /\ iClock + 1 = ChunkRate) => Turns' = Turns - 1
<1>1. /\ i \in 0 .. NChunks /\ iClock \in 0 .. ChunkRate - 1 /\ NChunks \in Nat
      /\ i = NChunks => iClock = 0
  BY DEF IInv, ControlOK, ClockInv
<1>2. CASE ChunkRate = 1
  BY <1>1, <1>2 DEF Turns
<1>3. CASE ChunkRate = 2
  BY <1>1, <1>3 DEF Turns
<1>4. CASE ChunkRate = 3
  BY <1>1, <1>4 DEF Turns
<1>5. CASE ChunkRate = 4
  BY <1>1, <1>5 DEF Turns
<1> QED BY <1>2, <1>3, <1>4, <1>5

LEMMA ClockStep == IInv /\ ClockInv /\ [Next]_vars => ClockInv'
<1> SUFFICES ASSUME IInv, ClockInv, [Next]_vars PROVE ClockInv'
  OBVIOUS
<1>1. CASE UNCHANGED <<i, iClock>>
  BY <1>1 DEF ClockInv
<1>2. CASE WaitForChunk
  BY <1>2 DEF WaitForChunk, ClockInv
<1>3. ASSUME NEW ch \in ChunkIn, AnalyzeChunk(ch) PROVE ClockInv'
  BY <1>3 DEF AnalyzeChunk, IgnoreChunk, OutsideRoi, ContinuePixel, QueuePixel, QueueFails,
              DropPixel, Analyze, TakeChunk, ClockInv
<1> QED BY <1>1, <1>2, <1>3 DEF Next, Writer, Analyzer, Ended, Finish, PopPixel, KeepPixel,
           WriteChunk, WriteFails, EndQuad, EndOfInput, vars, frameVars

\* What depends on the end of the frame
LEMMA EndedOrNot ==
    /\ eof => Unended = 0 /\ TurnOver = QuadSize + 4
    /\ ~eof => Unended = 2 /\ TurnOver = 1
    /\ eof /\ DoneCurrent /\ k = 0 => ToWrite = QuadSize + 5
    /\ ~(eof /\ DoneCurrent /\ k = 0) => ToWrite = QuadSize - k + 2
BY DEF Unended, TurnOver, ToWrite

\* What all steps have in common
LEMMA BudgetTyped ==
    ASSUME IInv, ClockInv, LimitInv
    PROVE  /\ Budget \in Nat /\ Turns \in Nat /\ Stage \in 0 .. QuadSize + 5
           /\ Unended \in {0, 2} /\ TurnOver \in 1 .. QuadSize + 4 /\ ToWrite \in 2 .. QuadSize + 5
           /\ QuadSize \in 1 .. 4 /\ k \in 0 .. QuadSize
           /\ MaxQuads - out.quads \in Nat /\ Len(pxFifo) \in Nat
           /\ MaxQuads \in Nat /\ out.quads \in Nat
<1>1. /\ QuadSize \in 1 .. 4 /\ k \in 0 .. QuadSize /\ eof \in BOOLEAN
      /\ pxFifo \in Seq(PxInfoType) /\ out.quads \in Nat /\ Turns \in Nat
  BY TurnsDrop DEF IInv, CurrOK, FlagsOK, QueueOK, OutOK
<1>2. Len(pxFifo) \in Nat /\ MaxQuads - out.quads \in Nat
  BY <1>1, ArraySizes DEF LimitInv
<1>3. Unended \in {0, 2} /\ TurnOver \in 1 .. QuadSize + 4 /\ ToWrite \in 2 .. QuadSize + 5
  <2>1. CASE eof /\ DoneCurrent /\ k = 0
    BY <1>1, <2>1, EndedOrNot
  <2>2. CASE eof /\ ~(DoneCurrent /\ k = 0)
    BY <1>1, <2>2, EndedOrNot
  <2>3. CASE ~eof
    BY <1>1, <2>3, EndedOrNot
  <2> QED BY <2>1, <2>2, <2>3
<1>4. Budget \in Nat
  BY <1>1, <1>2, <1>3 DEF Budget
<1>5. Stage \in 0 .. QuadSize + 5
  BY <1>1, <1>3 DEF Stage
<1> QED BY <1>1, <1>2, <1>3, <1>4, <1>5, ArraySizes

LEMMA RemainingIsNat == IInv /\ ClockInv /\ LimitInv => Remaining \in Nat
<1> SUFFICES ASSUME IInv, ClockInv, LimitInv PROVE Remaining \in Nat
  OBVIOUS
<1>1. Budget \in Nat /\ Stage \in 0 .. QuadSize + 5 /\ QuadSize \in 1 .. 4
  BY BudgetTyped
<1>2. Stage \in Nat
  BY <1>1
<1> QED BY <1>1, <1>2 DEF Remaining

\* A step uses up some of the budget, or of the stage and none of the budget.
LEMMA LessRemains ==
    ASSUME Budget \in Int, Budget' \in Int, Stage \in 0 .. 9, Stage' \in 0 .. 9,
           Budget' <= Budget - 1 \/ (Budget' = Budget /\ Stage' < Stage)
    PROVE  Remaining' < Remaining
<1> DEFINE b == Budget
           c == Budget'
           s == Stage
           t == Stage'
<1>1. /\ b \in Int /\ c \in Int /\ s \in 0 .. 9 /\ t \in 0 .. 9
      /\ c <= b - 1 \/ (c = b /\ t < s)
  OBVIOUS
<1>2. Remaining = 10 * b + s /\ Remaining' = 10 * c + t
  BY DEF Remaining
<1> HIDE DEF b, c, s, t
<1>3. 10 * c + t < 10 * b + s
  BY <1>1
<1> QED BY <1>2, <1>3

LEMMA WriterShrinks ==
    ASSUME IInv, ClockInv, LimitInv, Writer
    PROVE  Remaining' < Remaining
<1>1. /\ Budget \in Nat /\ Turns \in Nat /\ QuadSize \in 1 .. 4 /\ k \in 0 .. QuadSize
      /\ Unended \in {0, 2} /\ TurnOver \in 1 .. QuadSize + 4 /\ ToWrite \in 2 .. QuadSize + 5
      /\ MaxQuads \in Nat /\ out.quads \in Nat /\ Len(pxFifo) \in Nat
  BY BudgetTyped
<1>2. UNCHANGED <<i, iClock, eof>>
  BY DEF Writer, Finish, PopPixel, KeepPixel, WriteChunk, WriteFails, EndQuad, frameVars
<1>3. Turns' = Turns /\ Unended' = Unended /\ TurnOver' = TurnOver
  BY <1>2, TurnsDrop DEF Unended, TurnOver
<1>4. CASE Finish
  <2>1. Budget' = Budget /\ Stage = QuadSize + 3 /\ Stage' = 0
    BY <1>2, <1>3, <1>4 DEF Finish, Budget, Stage
  <2> QED BY <1>1, <2>1 DEF Remaining
<1>5. CASE PopPixel
  <2>1. pc = "pop" /\ pc' = "write" /\ k' = 0 /\ out' = out
    BY <1>5 DEF PopPixel
  <2>2. Len(pxFifo') = Len(pxFifo) - 1
    BY <1>5 DEF PopPixel, MayPop, IInv, QueueOK
  <2>3. Budget' = Budget - 1
    BY <1>1, <1>2, <1>3, <2>1, <2>2 DEF Budget
  <2>4. Stage = QuadSize + 3 /\ Stage' = ToWrite'
    BY <2>1 DEF Stage
  <2>5. ToWrite' \in {QuadSize + 5, QuadSize - 0 + 2}
    BY <2>1 DEF ToWrite
  <2>6. Stage \in 0 .. 9 /\ Stage' \in 0 .. 9
    BY <1>1, <2>4, <2>5
  <2> QED BY <1>1, <2>3, <2>6, LessRemains
<1>6. CASE KeepPixel
  <2>1. pc = "pop" /\ pc' = "write" /\ k' = 0 /\ UNCHANGED <<out, pxFifo, pxCurr>>
    BY <1>6 DEF KeepPixel
  <2>2. ~(eof /\ DoneCurrent)'
    BY <1>2, <1>6, <2>1 DEF KeepPixel, MayPop, DoneCurrent
  <2>3. Budget' = Budget
    BY <1>2, <1>3, <2>1 DEF Budget
  <2>4. Stage = QuadSize + 3 /\ Stage' = ToWrite'
    BY <2>1 DEF Stage
  <2>5. ToWrite' = QuadSize - 0 + 2
    BY <2>1, <2>2 DEF ToWrite
  <2> QED BY <1>1, <2>3, <2>4, <2>5 DEF Remaining
<1>7. CASE WriteChunk
  <2>1. pc = "write" /\ pc' = "write" /\ k' = k + 1 /\ pxFifo' = pxFifo /\ ~DoneCurrent /\ k < QuadSize
    BY <1>7 DEF WriteChunk, MoreToWrite
  <2>2. out'.quads = out.quads
    BY <1>7 DEF WriteChunk, IInv, OutOK
  <2>3. Budget' = Budget
    BY <1>2, <1>3, <2>1, <2>2 DEF Budget
  <2>4. Stage = ToWrite /\ Stage' = ToWrite'
    BY <2>1 DEF Stage
  <2>5. ToWrite = QuadSize - k + 2
    BY <2>1 DEF ToWrite
  <2>6. k' # 0
    BY <1>1, <2>1
  <2>7. ToWrite' = QuadSize - (k + 1) + 2
    BY <2>1, <2>6 DEF ToWrite
  <2> QED BY <1>1, <2>3, <2>4, <2>5, <2>7 DEF Remaining
<1>8. CASE WriteFails
  <2>1. pc = "write" /\ pc' \in {"errChunks", "errQuads"} /\ UNCHANGED <<out, pxFifo>>
    BY <1>8 DEF WriteFails, MoreToWrite
  <2>2. Budget' = Budget
    BY <1>2, <1>3, <2>1 DEF Budget
  <2>3. Stage = ToWrite /\ Stage' = 0
    BY <2>1 DEF Stage
  <2> QED BY <1>1, <2>2, <2>3 DEF Remaining
<1>9. CASE EndQuad
  <2>1. /\ pc = "write" /\ pc' \in {"undefined", "analyze"} /\ UNCHANGED <<pxFifo, k, pxCurr>>
        /\ k = QuadSize \/ DoneCurrent
    BY <1>9 DEF EndQuad, writerVars
  <2>2. Stage = ToWrite /\ Stage' \in {0, TurnOver}
    BY <1>3, <2>1 DEF Stage
  <2>3. Stage \in 0 .. 9 /\ Stage' \in 0 .. 9
    BY <1>1, <2>2
  <2>4. CASE k > 0
    <3>1. out'.quads = out.quads + 1
      BY <1>9, <2>4 DEF EndQuad, IInv, OutOK
    <3>2. Budget' = Budget - 1
      BY <1>1, <1>2, <1>3, <2>1, <3>1 DEF Budget
    <3> QED BY <1>1, <2>3, <3>2, LessRemains
  <2>5. CASE k = 0
    <3>0. k # QuadSize /\ ~(k > 0)
      BY <1>1, <2>5
    <3>1. out' = out /\ DoneCurrent
      BY <1>9, <2>1, <3>0 DEF EndQuad
    <3>2. Budget' = Budget
      BY <1>2, <1>3, <2>1, <3>1 DEF Budget
    <3>3. TurnOver < ToWrite
      <4>1. CASE eof
        BY <1>1, <2>5, <3>1, <4>1, EndedOrNot
      <4>2. CASE ~eof
        BY <1>1, <2>5, <4>2, EndedOrNot
      <4> QED BY <4>1, <4>2
    <3>4. Stage' < Stage
      BY <1>1, <2>2, <3>3
    <3> QED BY <1>1, <2>3, <3>2, <3>4, LessRemains
  <2> QED BY <1>1, <2>4, <2>5
<1> QED BY <1>4, <1>5, <1>6, <1>7, <1>8, <1>9 DEF Writer

LEMMA AnalyzerShrinks ==
    ASSUME IInv, ClockInv, LimitInv, Analyzer
    PROVE  Remaining' < Remaining
<1>1. /\ Budget \in Nat /\ Turns \in Nat /\ QuadSize \in 1 .. 4
      /\ Unended \in {0, 2} /\ TurnOver \in 1 .. QuadSize + 4
      /\ MaxQuads \in Nat /\ out.quads \in Nat /\ Len(pxFifo) \in Nat
  BY BudgetTyped
<1>2. CASE EndOfInput
  <2>1. /\ pc = "analyze" /\ pc' = "pop" /\ eof' = TRUE
        /\ UNCHANGED <<i, iClock, out, pxFifo>>
    BY <1>2 DEF EndOfInput
  <2>2. Turns' = Turns
    BY <2>1, TurnsDrop
  <2>3. Unended' = 0 /\ Stage = TurnOver /\ Stage' = QuadSize + 3
    BY <2>1 DEF Stage, Unended
  <2>4. Budget' = Budget - Unended
    BY <1>1, <2>1, <2>2, <2>3 DEF Budget
  <2>5. CASE eof
    BY <1>1, <2>3, <2>4, <2>5, EndedOrNot DEF Remaining
  <2>6. CASE ~eof
    BY <1>1, <2>3, <2>4, <2>6, EndedOrNot DEF Remaining
  <2> QED BY <2>5, <2>6
<1>3. CASE WaitForChunk
  <2>1. /\ pc = "analyze" /\ pc' = "pop" /\ UNCHANGED <<i, eof, out, pxFifo>>
        /\ i < NChunks /\ iClock' = iClock + 1
    BY <1>3 DEF WaitForChunk
  <2>2. Turns' = Turns - 1 /\ Unended' = Unended
    BY <2>1, TurnsDrop DEF Unended
  <2>3. Budget' = Budget - 2
    BY <1>1, <2>1, <2>2 DEF Budget
  <2>4. Stage = TurnOver /\ Stage' = QuadSize + 3
    BY <2>1 DEF Stage
  <2> QED BY <1>1, <2>3, <2>4 DEF Remaining
<1>4. ASSUME NEW ch \in ChunkIn, AnalyzeChunk(ch) PROVE Remaining' < Remaining
  <2>1. /\ pc = "analyze" /\ i < NChunks /\ i' = i + 1 /\ iClock' = 0 /\ iClock + 1 = ChunkRate
        /\ eof' = (eof \/ Ends(ch))
    BY <1>4 DEF AnalyzeChunk, IgnoreChunk, OutsideRoi, ContinuePixel, QueuePixel, QueueFails,
                DropPixel, Analyze, TakeChunk
  <2>2. pc' = "pop" \/ pc' \in {"errFifo", "errPxInfos"}
    BY <1>4 DEF AnalyzeChunk, IgnoreChunk, OutsideRoi, ContinuePixel, QueuePixel, QueueFails,
                DropPixel
  <2>3. pxFifo' = pxFifo \/ pxFifo' = Append(pxFifo, PxInfo(ch))
    BY <1>4 DEF AnalyzeChunk, IgnoreChunk, OutsideRoi, ContinuePixel, QueuePixel, QueueFails,
                DropPixel
  <2>4. Len(pxFifo') \in {Len(pxFifo), Len(pxFifo) + 1}
    BY <2>3 DEF IInv, QueueOK
  <2>5. out' = out \/ out' = [out EXCEPT !.pxInfos = @ + 1]
    BY <1>4 DEF AnalyzeChunk, IgnoreChunk, OutsideRoi, ContinuePixel, QueuePixel, QueueFails,
                DropPixel
  <2>6. out'.quads = out.quads
    BY <2>5 DEF IInv, OutOK
  <2>7. Turns' = Turns - 1
    BY <2>1, TurnsDrop
  <2>8. Budget' \in Int /\ Budget' <= Budget - 1
    <3>1. Unended' \in {0, Unended}
      BY <2>1 DEF Unended
    <3> DEFINE f == Unended
               g == Unended'
               l == Len(pxFifo)
               m == Len(pxFifo')
               q == MaxQuads - out.quads
    <3>2. /\ Budget = 2 * Turns + f + q + l
          /\ Budget' = 2 * (Turns - 1) + g + q + m
      BY <2>6, <2>7 DEF Budget
    <3>3. /\ m = l \/ m = l + 1
          /\ g = 0 \/ g = f
          /\ f \in {0, 2} /\ l \in Nat /\ q \in Int
      BY <1>1, <2>4, <3>1
    <3> HIDE DEF f, g, l, m, q
    <3> QED BY <1>1, <3>2, <3>3
  <2>9. Stage = TurnOver /\ Stage' \in {0, QuadSize + 3}
    BY <2>1, <2>2 DEF Stage
  <2>10. Stage \in 0 .. 9 /\ Stage' \in 0 .. 9
    BY <1>1, <2>9
  <2> QED BY <1>1, <2>8, <2>10, LessRemains
<1> QED BY <1>2, <1>3, <1>4 DEF Analyzer

\* Every step of the loop leaves fewer steps to be taken, a natural number, in both
\* modes: each turn uses up input, output or a waiting pixel, also when a window is
\* empty and when nothing but a window is left after the end of the frame.
THEOREM EndsInBoundedSteps ==
    Spec => [](Remaining \in Nat) /\ [][Remaining' < Remaining]_vars
<1>1. Init => ClockInv
  BY DEF Init, ClockInv
<1>2. IInv /\ ClockInv /\ LimitInv /\ [Next]_vars => [Remaining' < Remaining]_vars
  BY WriterShrinks, AnalyzerShrinks DEF Next, Ended
<1> QED BY IInvHolds, LimitInit, LimitStep, <1>1, <1>2, ClockStep, RemainingIsNat, PTL DEF Spec

-----------------------------------------------------------------------------
(* Template offsets *)

\* A slot that a chunk was put into
Written(s) == ring[s].seq >= 0

\* Slots that are not written read as chunk 0; input numbers and push numbers order
\* the chunks of the ring alike.
IdInv ==
    /\ \A s \in Slots : /\ ~Written(s) => ring[s].id = 0 /\ ring[s].seq = -BufSize
                        /\ Written(s) => ring[s].seq < pushes /\ ring[s].id < i
    /\ \A s \in Slots, t \in Slots :
           Written(s) /\ Written(t) => (ring[s].seq <= ring[t].seq <=> ring[s].id <= ring[t].id)

\* Neighbours of the input have neighbouring offsets, the chunk to come included.
OffsetInv ==
    /\ \A s \in Slots, t \in Slots :
           Written(s) /\ Written(t) /\ ring[t].id = ring[s].id + 1 /\ ~LastOfFrame(t)
               => ring[t].off = AddOffset(ring[s].off)
    /\ pc \notin Terminal /\ ~eof =>
           \A s \in Slots : Written(s) /\ ring[s].id + 1 = i => an.tOffset = AddOffset(ring[s].off)

\* No window begins a whole ring before the first chunk.
BeginInv ==
    /\ an.prevInRoi /\ pc \notin Terminal => seqFirst >= 0
    /\ pxCurr.seqPos > -BufSize
    /\ \A j \in 1 .. Len(pxFifo) : pxFifo[j].seqPos > -BufSize

\* In the middle of a quad the chunk to be copied is the neighbour of the last one.
QuadInv ==
    pc = "write" /\ k > 0 /\ ~DoneCurrent /\ ~failed /\ ~stale =>
        \E s \in Slots : /\ Written(s) /\ ring[pxCurr.idxExtStart].id = ring[s].id + 1
                         /\ outOff = ring[s].off

LEMMA OffsetInit == Init => IdInv /\ OffsetInv /\ BeginInv /\ QuadInv
<1> SUFFICES ASSUME Init PROVE IdInv /\ OffsetInv /\ BeginInv /\ QuadInv
  OBVIOUS
<1>1. \A s \in Slots : ~Written(s) /\ ring[s].id = 0 /\ ring[s].seq = -BufSize
  BY DEF Init, Written
<1>2. IdInv /\ OffsetInv
  BY <1>1 DEF IdInv, OffsetInv
<1>3. BeginInv
  BY DEF Init, BeginInv, NoPixel
<1> QED BY <1>2, <1>3 DEF Init, QuadInv

\* What the proofs below use of the types
LEMMA OffsetTypes ==
    ASSUME IInv
    PROVE  /\ ring \in [Slots -> [id : Nat, off : 0 .. CodeLen - 1, seq : Int]]
           /\ pushIndex \in Slots /\ pushes \in Nat /\ i \in Nat /\ NChunks \in Nat
           /\ pxCurr \in PxInfoType /\ pxFifo \in Seq(PxInfoType) /\ k \in Nat
           /\ an \in LocalsType /\ seqFirst \in Int
           /\ eof \in BOOLEAN /\ failed \in BOOLEAN /\ stale \in BOOLEAN
           /\ \A s \in Slots : ring[s].id \in Nat /\ ring[s].seq \in Int
BY DEF IInv, ControlOK, FlagsOK, RingOK, QueueOK, CurrOK, AnOK, PixelOpenOK

\* A chunk is pushed: it is the neighbour of the last one, if that was kept, and so is
\* its offset, because a code starts where the count says.
LEMMA OffsetPush ==
    ASSUME IInv, IdInv, OffsetInv, NEW ch \in ChunkIn, Analyze(ch), PushChunk(ch), ~eof,
           \/ pc' \in Terminal
           \/ an'.tOffset = AddOffset(CodeOffset(ch))
    PROVE  IdInv' /\ OffsetInv'
<1>1. /\ ring \in [Slots -> [id : Nat, off : 0 .. CodeLen - 1, seq : Int]]
      /\ pushIndex \in Slots /\ pushes \in Nat /\ i \in Nat
      /\ \A s \in Slots : ring[s].id \in Nat /\ ring[s].seq \in Int
  BY OffsetTypes
<1>2. /\ pushes' = pushes + 1 /\ i' = i + 1 /\ (~eof' => ~Ends(ch)) /\ pc \notin Terminal
      /\ Frame(ch)
  BY DEF PushChunk, Analyze, TakeChunk, Terminal
<1>3. /\ ring'[pushIndex].id = i /\ ring'[pushIndex].seq = pushes
      /\ ring'[pushIndex].off = ChunkOffset(ch)
      /\ \A s \in Slots : s # pushIndex => ring'[s] = ring[s]
  BY <1>1 DEF PushChunk
<1>4. CodeOffset(ch) = an.tOffset /\ (~eof' => ChunkOffset(ch) = CodeOffset(ch))
  BY <1>2 DEF CodeOffset, ChunkOffset, Frame
<1>5. \A s \in Slots : s = pushIndex => Written(s)'
  BY <1>1, <1>3 DEF Written
<1>6. ASSUME NEW s \in Slots, s # pushIndex
      PROVE  /\ ring'[s] = ring[s] /\ (Written(s)' <=> Written(s))
             /\ Written(s) => ring[s].id < i /\ ring[s].seq < pushes
             /\ ~Written(s) => ring[s].id = 0 /\ ring[s].seq = -BufSize
  BY <1>3, <1>6 DEF Written, IdInv
<1>7. ASSUME NEW s \in Slots
      PROVE  /\ ~Written(s)' => ring'[s].id = 0 /\ ring'[s].seq = -BufSize
             /\ Written(s)' => ring'[s].seq < pushes' /\ ring'[s].id < i'
  BY <1>1, <1>2, <1>3, <1>5, <1>6
<1>8. ASSUME NEW s \in Slots, NEW t \in Slots, Written(s)', Written(t)'
      PROVE  ring'[s].seq <= ring'[t].seq <=> ring'[s].id <= ring'[t].id
  <2>1. CASE s # pushIndex /\ t # pushIndex
    BY <1>6, <1>8, <2>1 DEF IdInv
  <2>2. CASE s = pushIndex /\ t # pushIndex
    BY <1>1, <1>3, <1>6, <1>8, <2>2
  <2>3. CASE s # pushIndex /\ t = pushIndex
    BY <1>1, <1>3, <1>6, <1>8, <2>3
  <2>4. CASE s = pushIndex /\ t = pushIndex
    BY <1>1, <1>3, <2>4
  <2> QED BY <2>1, <2>2, <2>3, <2>4
<1>9. ASSUME NEW s \in Slots, NEW t \in Slots, Written(s)', Written(t)',
             ring'[t].id = ring'[s].id + 1, ~LastOfFrame(t)'
      PROVE  ring'[t].off = AddOffset(ring'[s].off)
  <2>1. s # pushIndex
    BY <1>1, <1>2, <1>3, <1>7, <1>9
  <2>2. CASE t = pushIndex
    <3>1. ~eof'
      BY <1>1, <1>2, <1>3, <1>9, <2>2 DEF LastOfFrame
    <3>2. ring[s].id + 1 = i /\ Written(s) /\ ring'[s] = ring[s]
      BY <1>3, <1>6, <1>9, <2>1, <2>2
    <3>3. an.tOffset = AddOffset(ring[s].off)
      BY <1>2, <3>2 DEF OffsetInv
    <3> QED BY <1>3, <1>4, <2>2, <3>1, <3>2, <3>3
  <2>3. CASE t # pushIndex
    BY <1>6, <1>9, <2>1, <2>3 DEF OffsetInv, LastOfFrame
  <2> QED BY <2>2, <2>3
<1>10. ASSUME pc' \notin Terminal, ~eof', NEW s \in Slots, Written(s)', ring'[s].id + 1 = i'
       PROVE  an'.tOffset = AddOffset(ring'[s].off)
  <2>1. s = pushIndex
    BY <1>1, <1>2, <1>6, <1>10
  <2> QED BY <1>3, <1>4, <1>10, <2>1
<1> QED BY <1>7, <1>8, <1>9, <1>10 DEF IdInv, OffsetInv

\* The ring and the offset count through the steps of the Analyzer
LEMMA OffsetChunk ==
    ASSUME IInv, StopInv, IdInv, OffsetInv, NEW ch \in ChunkIn, AnalyzeChunk(ch)
    PROVE  IdInv' /\ OffsetInv'
<1>1. TakeChunk(ch) /\ pc \notin Terminal /\ i' = i + 1 /\ i < NChunks /\ (eof => eof')
  BY DEF AnalyzeChunk, IgnoreChunk, OutsideRoi, ContinuePixel, QueuePixel, QueueFails, DropPixel,
         Analyze, TakeChunk, Terminal
<1>2. /\ pushes \in Nat /\ i \in Nat /\ NChunks \in Nat /\ eof \in BOOLEAN
      /\ \A s \in Slots : ring[s].id \in Nat /\ ring[s].seq \in Int
  BY OffsetTypes
<1>3. CASE IgnoreChunk(ch) \/ OutsideRoi(ch)
  <2>1. UNCHANGED <<ring, pushes>>
    BY <1>3 DEF IgnoreChunk, OutsideRoi, ringVars
  <2>2. IdInv'
    BY <1>1, <1>2, <2>1 DEF IdInv, Written
  <2>3. \A s \in Slots : Written(s) => ring[s].id + 1 # i'
    BY <1>1, <1>2 DEF IdInv
  <2>4. OffsetInv'
    BY <1>1, <2>1, <2>3 DEF OffsetInv, Written, LastOfFrame
  <2> QED BY <2>2, <2>4
<1>4. CASE ContinuePixel(ch) \/ QueuePixel(ch) \/ QueueFails(ch) \/ DropPixel(ch)
  <2>1. Analyze(ch) /\ PushChunk(ch)
    BY <1>4 DEF ContinuePixel, QueuePixel, QueueFails, DropPixel
  <2>2. ~eof
    BY <1>1, <1>2, <2>1 DEF Analyze, Ignored, StopInv
  <2>3. AfterChunk(ch) \in LocalsType /\ AfterChunk(ch).tOffset = AddOffset(CodeOffset(ch))
    BY OffsetTypes, AfterChunkTyped DEF AfterChunk, LocalsType
  <2>4. CASE ContinuePixel(ch)
    <3>1. an' = [AfterChunk(ch) EXCEPT !.idxFirst = FirstSlot, !.n = PxChunks]
      BY <2>4 DEF ContinuePixel
    <3>2. an'.tOffset = AddOffset(CodeOffset(ch))
      BY <2>3, <3>1 DEF LocalsType
    <3> QED BY <2>1, <2>2, <3>2, OffsetPush
  <2>5. CASE QueuePixel(ch) \/ DropPixel(ch)
    <3>1. PICK first : an' = StartPixel(ch, first)
      BY <2>5 DEF QueuePixel, DropPixel
    <3>2. an'.tOffset = AddOffset(CodeOffset(ch))
      BY <2>3, <3>1 DEF StartPixel, LocalsType
    <3> QED BY <2>1, <2>2, <3>2, OffsetPush
  <2>6. CASE QueueFails(ch)
    <3>1. pc' \in Terminal
      BY <2>6 DEF QueueFails, Terminal
    <3> QED BY <2>1, <2>2, <3>1, OffsetPush
  <2> QED BY <1>4, <2>4, <2>5, <2>6
<1> QED BY <1>3, <1>4 DEF AnalyzeChunk

LEMMA OffsetStep ==
    IInv /\ StopInv /\ IdInv /\ OffsetInv /\ [Next]_vars => IdInv' /\ OffsetInv'
<1> SUFFICES ASSUME IInv, StopInv, IdInv, OffsetInv, [Next]_vars PROVE IdInv' /\ OffsetInv'
  OBVIOUS
<1>1. ASSUME UNCHANGED <<ringVars, i, an>>, eof => eof', pc \in Terminal => pc' \in Terminal
      PROVE  IdInv' /\ OffsetInv'
  BY <1>1 DEF ringVars, IdInv, OffsetInv, Written, LastOfFrame
<1>2. CASE UNCHANGED vars
  BY <1>1, <1>2 DEF vars, frameVars, pixelVars
<1>3. CASE Writer \/ EndOfInput \/ WaitForChunk
  <2>1. UNCHANGED <<ringVars, i, an>> /\ (eof => eof') /\ pc \notin Terminal
    BY <1>3 DEF Writer, Finish, PopPixel, KeepPixel, WriteChunk, WriteFails, EndQuad, MoreToWrite,
                EndOfInput, WaitForChunk, frameVars, pixelVars, Terminal
  <2> QED BY <1>1, <2>1
<1> QED BY <1>2, <1>3, OffsetChunk DEF Next, Analyzer, Ended

LEMMA BeginStep == IInv /\ BeginInv /\ [Next]_vars => BeginInv'
<1> SUFFICES ASSUME IInv, BeginInv, [Next]_vars PROVE BeginInv'
  OBVIOUS
<1>1. /\ pxCurr \in PxInfoType /\ pxFifo \in Seq(PxInfoType) /\ pushes \in Nat
      /\ an \in LocalsType /\ seqFirst \in Int
  BY OffsetTypes
<1>2. CASE PopPixel
  <2>1. /\ pxFifo # << >> /\ pxCurr' = Head(pxFifo) /\ pxFifo' = Tail(pxFifo)
        /\ UNCHANGED <<an, seqFirst>> /\ pc \notin Terminal
    BY <1>2 DEF PopPixel, MayPop, pixelVars, Terminal
  <2>2. /\ pxCurr' = pxFifo[1] /\ 1 \in 1 .. Len(pxFifo)
        /\ Len(pxFifo') = Len(pxFifo) - 1 /\ Len(pxFifo) \in Nat
        /\ \A j \in 1 .. Len(pxFifo') : pxFifo'[j] = pxFifo[j + 1]
    BY <1>1, <2>1
  <2> QED BY <2>1, <2>2 DEF BeginInv
<1>3. CASE WriteChunk
  <2>1. UNCHANGED <<pc, an, seqFirst, pxFifo>> /\ pxCurr'.seqPos = pxCurr.seqPos + 1
    BY <1>1, <1>3 DEF WriteChunk, pixelVars, PxInfoType
  <2> QED BY <1>1, <2>1 DEF BeginInv, PxInfoType
<1>4. CASE /\ UNCHANGED <<pxCurr, pxFifo, seqFirst>>
           /\ an'.prevInRoi /\ pc' \notin Terminal => an.prevInRoi /\ pc \notin Terminal
  BY <1>4 DEF BeginInv
<1>5. CASE Finish \/ KeepPixel \/ WriteFails \/ EndQuad \/ EndOfInput \/ WaitForChunk \/ UNCHANGED vars
  <2>1. UNCHANGED <<pxCurr, pxFifo, seqFirst, an>> /\ (pc \notin Terminal \/ pc' = pc)
    BY <1>5 DEF Finish, KeepPixel, WriteFails, EndQuad, MoreToWrite, EndOfInput, WaitForChunk, vars,
                writerVars, pixelVars, Terminal
  <2> QED BY <1>4, <2>1
<1>6. ASSUME NEW ch \in ChunkIn, IgnoreChunk(ch) \/ OutsideRoi(ch) PROVE BeginInv'
  <2>1. CASE IgnoreChunk(ch)
    BY <1>4, <2>1 DEF IgnoreChunk, TakeChunk, writerVars, pixelVars, Terminal
  <2>2. CASE OutsideRoi(ch)
    <3>1. ~an'.prevInRoi
      BY <1>1, <2>2 DEF OutsideRoi, LocalsType
    <3> QED BY <1>4, <2>2, <3>1 DEF OutsideRoi, Analyze, writerVars
  <2> QED BY <1>6, <2>1, <2>2
<1>7. ASSUME NEW ch \in ChunkIn,
             \/ ContinuePixel(ch) \/ QueuePixel(ch) \/ QueueFails(ch) \/ DropPixel(ch)
      PROVE  BeginInv'
  <2>1. pc \notin Terminal /\ pxCurr' = pxCurr
    BY <1>7 DEF ContinuePixel, QueuePixel, QueueFails, DropPixel, Analyze, TakeChunk, writerVars, Terminal
  <2>2. FirstSeq \in Int /\ FirstSeq >= 0
    BY <1>1, <2>1 DEF FirstSeq, BeginInv
  <2>3. seqFirst' >= 0
    <3>1. ChunksToMove(ch) \in Nat
      BY ChunkOffsets, MoveType
    <3> QED BY <1>1, <1>7, <2>2, <3>1 DEF ContinuePixel, QueuePixel, QueueFails, DropPixel
  <2>4. CASE pxFifo' = pxFifo
    BY <2>1, <2>3, <2>4 DEF BeginInv
  <2>5. CASE pxFifo' = Append(pxFifo, PxInfo(ch))
    <3> DEFINE px == PxInfo(ch)
               n == Len(pxFifo)
    <3>1. px \in PxInfoType /\ px.seqPos = FirstSeq - ExtraStart(ch)
      BY PxInfoIsTyped DEF PxInfo
    <3>2. px.seqPos > -BufSize
      BY <2>2, <3>1, WindowParts
    <3>3. /\ n \in Nat /\ Len(pxFifo') = n + 1 /\ pxFifo'[n + 1] = px
          /\ \A j \in 1 .. n : pxFifo'[j] = pxFifo[j]
          /\ \A j \in 1 .. n + 1 : j \in 1 .. n \/ j = n + 1
      BY <1>1, <2>5, <3>1
    <3> HIDE DEF px
    <3> QED BY <2>1, <2>3, <3>2, <3>3 DEF BeginInv
  <2> QED BY <1>7, <2>4, <2>5 DEF ContinuePixel, QueuePixel, QueueFails, DropPixel
<1> QED BY <1>2, <1>3, <1>5, <1>6, <1>7 DEF Next, Writer, Analyzer, AnalyzeChunk, Ended

\* The offset of a chunk that is copied, and the chunk that comes after it
LEMMA OffsetWrite ==
    ASSUME IInv, IdInv, OffsetInv, BeginInv, QuadInv, WriteChunk
    PROVE  /\ ~failed /\ ~stale /\ ~LastOfFrame(pxCurr.idxExtStart)
                  => outOff' = ring[pxCurr.idxExtStart].off
           /\ QuadInv'
<1> DEFINE idx == pxCurr.idxExtStart
           next == NextSlot(idx)
<1>1. /\ ring \in [Slots -> [id : Nat, off : 0 .. CodeLen - 1, seq : Int]]
      /\ pushes \in Nat /\ pxCurr \in PxInfoType /\ k \in Nat
      /\ failed \in BOOLEAN /\ stale \in BOOLEAN
      /\ \A s \in Slots : ring[s].id \in Nat /\ ring[s].seq \in Int
  BY OffsetTypes
<1>2. idx \in Slots /\ next \in Slots
  BY <1>1, NextSlotType DEF PxInfoType
<1>3. /\ pc = "write" /\ ~DoneCurrent /\ UNCHANGED <<pc, ring, pushes>>
      /\ pxCurr' = [pxCurr EXCEPT !.idxExtStart = next, !.seqPos = pxCurr.seqPos + 1]
      /\ failed' = (failed \/ ~Consecutive(idx))
      /\ stale' = (stale \/ ring[idx].seq # pxCurr.seqPos)
      /\ outOff' = OutOffset(idx)
  BY DEF WriteChunk, MoreToWrite, ringVars
<1>4. pxCurr'.idxExtStart = next /\ pxCurr'.idxExtEnd = pxCurr.idxExtEnd
  BY <1>1, <1>3 DEF PxInfoType
<1>5. ASSUME ~failed, ~stale, ~LastOfFrame(idx) PROVE outOff' = ring[idx].off
  <2>1. CASE k = 0
    BY <1>3, <2>1 DEF OutOffset
  <2>2. CASE k # 0
    <3>1. k > 0
      BY <1>1, <2>2
    <3>2. PICK s \in Slots : /\ Written(s) /\ ring[idx].id = ring[s].id + 1
                             /\ outOff = ring[s].off
      BY <1>3, <1>5, <3>1 DEF QuadInv
    <3>3. Written(idx)
      BY <1>1, <1>2, <3>2 DEF IdInv
    <3>4. ring[idx].off = AddOffset(ring[s].off)
      BY <1>2, <1>5, <3>2, <3>3 DEF OffsetInv
    <3> QED BY <1>3, <2>2, <3>2, <3>4 DEF OutOffset
  <2> QED BY <2>1, <2>2
<1>6. ASSUME ~DoneCurrent', ~failed', ~stale'
      PROVE  Written(idx) /\ ring[next].id = ring[idx].id + 1 /\ outOff' = ring[idx].off
  <2>1. ~failed /\ ~stale /\ Consecutive(idx) /\ ring[idx].seq = pxCurr.seqPos
    BY <1>1, <1>3, <1>6
  <2>2. ring[idx].id + 1 = ring[next].id
    BY <1>4, <1>6, <2>1 DEF Consecutive, DoneCurrent
  <2>3. Written(idx) /\ Written(next)
    <3>1. ring[idx].seq # -BufSize
      BY <1>1, <2>1 DEF BeginInv, PxInfoType
    <3>2. ring[next].id # 0
      BY <1>1, <1>2, <2>2
    <3> QED BY <1>2, <3>1, <3>2 DEF IdInv
  <2>4. ring[idx].seq < ring[next].seq /\ ring[next].seq < pushes
    BY <1>1, <1>2, <2>2, <2>3 DEF IdInv
  <2>5. ~LastOfFrame(idx)
    BY <1>1, <1>2, <2>4 DEF LastOfFrame
  <2> HIDE DEF idx, next
  <2> QED BY <1>5, <2>1, <2>2, <2>3, <2>5
<1>7. QuadInv'
  <2> SUFFICES ASSUME ~DoneCurrent', ~failed', ~stale'
               PROVE  \E s \in Slots : /\ Written(s)' /\ ring'[pxCurr'.idxExtStart].id = ring'[s].id + 1
                                       /\ outOff' = ring'[s].off
    BY DEF QuadInv
  <2>1. Written(idx) /\ ring[next].id = ring[idx].id + 1 /\ outOff' = ring[idx].off
    BY <1>6
  <2> HIDE DEF idx, next
  <2> QED BY <1>2, <1>3, <1>4, <2>1 DEF Written
<1> QED BY <1>5, <1>7

LEMMA QuadStep == IInv /\ IdInv /\ OffsetInv /\ BeginInv /\ QuadInv /\ [Next]_vars => QuadInv'
<1> SUFFICES ASSUME IInv, IdInv, OffsetInv, BeginInv, QuadInv, [Next]_vars PROVE QuadInv'
  OBVIOUS
<1>1. CASE WriteChunk
  BY <1>1, OffsetWrite
<1>2. CASE PopPixel \/ KeepPixel
  BY <1>2 DEF PopPixel, KeepPixel, QuadInv
<1>3. CASE pc' # "write"
  BY <1>3 DEF QuadInv
<1>4. CASE UNCHANGED vars
  BY <1>4 DEF vars, writerVars, ringVars, QuadInv, DoneCurrent, Written
<1>5. CASE Finish \/ WriteFails \/ EndQuad \/ EndOfInput \/ WaitForChunk
  BY <1>3, <1>5 DEF Finish, WriteFails, EndQuad, EndOfInput, WaitForChunk
<1>6. ASSUME NEW ch \in ChunkIn, AnalyzeChunk(ch) PROVE QuadInv'
  BY <1>3, <1>6 DEF AnalyzeChunk, IgnoreChunk, OutsideRoi, ContinuePixel, QueuePixel, QueueFails, DropPixel
<1> QED BY <1>1, <1>2, <1>4, <1>5, <1>6 DEF Next, Writer, Analyzer, Ended

\* The offsets the Writer counts, one read per quad, are those the Analyzer stored with
\* each chunk, in both modes and whatever way the mirror moves: the comparison of input
\* numbers finds every gap at which the count would go wrong.
THEOREM OffsetsCounted == Spec => OffsetsAgree
<1>1. Init => StopInv
  BY DEF Init, StopInv
<1>2. IInv /\ IdInv /\ OffsetInv /\ BeginInv /\ QuadInv /\ [Next]_vars
          => [ out'.chunks # out.chunks /\ ~failed /\ ~stale /\ ~LastOfFrame(pxCurr.idxExtStart)
                   => outOff' = ring[pxCurr.idxExtStart].off ]_vars
  <2> SUFFICES ASSUME IInv, IdInv, OffsetInv, BeginInv, QuadInv, Next,
                      out'.chunks # out.chunks, ~failed, ~stale, ~LastOfFrame(pxCurr.idxExtStart)
               PROVE  outOff' = ring[pxCurr.idxExtStart].off
    OBVIOUS
  <2>1. WriteChunk
    <3>1. out \in [chunks : Nat, quads : Nat, pxInfos : Nat]
      BY DEF IInv, OutOK
    <3>2. CASE EndQuad
      BY <3>1, <3>2 DEF EndQuad
    <3>3. ASSUME NEW ch \in ChunkIn, QueuePixel(ch) PROVE FALSE
      BY <3>1, <3>3 DEF QueuePixel
    <3> QED BY <3>2, <3>3 DEF Next, Writer, Analyzer, Ended, Finish, PopPixel, KeepPixel, WriteFails,
               EndOfInput, WaitForChunk, AnalyzeChunk, IgnoreChunk, OutsideRoi, ContinuePixel,
               QueueFails, DropPixel, vars
  <2> QED BY <2>1, OffsetWrite
<1> QED BY <1>1, <1>2, IInvHolds, StopStep, OffsetInit, OffsetStep, BeginStep, QuadStep, PTL
           DEF Spec, OffsetsAgree

-----------------------------------------------------------------------------
(* Windows and the chunks they were meant to have *)

LEMMA RingSize == BufSize \in Nat \ {0}
BY SizesAssumption

\* From here on only the size of the ring is used.
HIDE CapacityAssumption
HIDE FlagAssumption
HIDE ImageAssumption
HIDE SizesAssumption
USE RingSize

-----------------------------------------------------------------------------
(* Slots as remainders *)

\* A number has one remainder.
LEMMA Remainder ==
    ASSUME NEW a \in Int, NEW q \in Int, NEW r \in Slots, a = BufSize * q + r
    PROVE  a % BufSize = r
BY DEF Slots

LEMMA Division ==
    ASSUME NEW a \in Int
    PROVE  /\ a \div BufSize \in Int /\ a % BufSize \in Slots
           /\ a = BufSize * (a \div BufSize) + (a % BufSize)
BY DEF Slots

\* Chunks that are less than a ring apart: the slots go on, with one wrap.
LEMMA SlotFrom ==
    ASSUME NEW a \in Int, NEW d \in 0 .. BufSize - 1
    PROVE  (a + d) % BufSize = IF (a % BufSize) + d < BufSize
                               THEN (a % BufSize) + d ELSE ((a % BufSize) + d) - BufSize
<1> DEFINE q == a \div BufSize
           r == a % BufSize
<1>1. q \in Int /\ r \in Slots /\ a = BufSize * q + r
  BY Division
<1> HIDE DEF q, r
<1>2. CASE r + d < BufSize
  <2>1. r + d \in Slots /\ a + d = BufSize * q + (r + d)
    BY <1>1, <1>2 DEF Slots
  <2> QED BY <1>1, <1>2, <2>1, Remainder DEF r
<1>3. CASE ~(r + d < BufSize)
  <2> DEFINE q2 == q + 1
             r2 == (r + d) - BufSize
             b == a + d
  <2>1. q2 \in Int /\ r2 \in Slots /\ b \in Int /\ b = BufSize * q2 + r2
    BY <1>1, <1>3 DEF Slots
  <2> HIDE DEF q2, r2, b
  <2>2. b % BufSize = r2
    BY <2>1, Remainder
  <2> QED BY <1>3, <2>2 DEF r, r2, b
<1> QED BY <1>2, <1>3

\* Buffer::next moves on to the slot of the next chunk.
LEMMA NextChunkSlot ==
    ASSUME NEW a \in Int
    PROVE  NextSlot(a % BufSize) = (a + 1) % BufSize
<1>1. a % BufSize \in Slots
  BY Division
<1>2. CASE BufSize = 1
  <2>1. (a + 1) % BufSize \in Slots
    BY Division
  <2> QED BY <1>1, <1>2, <2>1 DEF NextSlot, Slots
<1>3. CASE BufSize > 1
  <2>1. 1 \in 0 .. BufSize - 1
    BY <1>3
  <2>2. (a + 1) % BufSize = IF (a % BufSize) + 1 < BufSize
                            THEN (a % BufSize) + 1 ELSE ((a % BufSize) + 1) - BufSize
    BY <2>1, SlotFrom
  <2> QED BY <1>1, <2>2 DEF NextSlot, Slots
<1> QED BY <1>2, <1>3

\* Buffer::mod finds the slot of a chunk less than a ring before or after.
LEMMA ShiftedSlot ==
    ASSUME NEW a \in Int, NEW d \in 0 .. BufSize - 1
    PROVE  /\ ModSlot((a % BufSize) + d) = (a + d) % BufSize
           /\ ModSlot((a % BufSize) - d) = (a - d) % BufSize
<1> DEFINE r == a % BufSize
           b == a - d
           s == b % BufSize
<1>1. b \in Int /\ b + d = a /\ r \in Slots /\ s \in Slots
  BY Division
<1>2. (a + d) % BufSize = IF r + d < BufSize THEN r + d ELSE (r + d) - BufSize
  BY SlotFrom
<1>3. r = IF s + d < BufSize THEN s + d ELSE (s + d) - BufSize
  BY <1>1, SlotFrom
<1>4. ModSlot(r + d) = (a + d) % BufSize
  <2> HIDE DEF r
  <2> QED BY <1>1, <1>2 DEF ModSlot, Slots
<1>5. ModSlot(r - d) = s
  <2> HIDE DEF r, s
  <2> QED BY <1>1, <1>3 DEF ModSlot, Slots
<1> QED BY <1>4, <1>5

\* Chunks less than a ring apart share a slot only if they are the same.
LEMMA SlotsDiffer ==
    ASSUME NEW a \in Int, NEW b \in Int, a <= b, b - a < BufSize
    PROVE  a % BufSize = b % BufSize <=> a = b
<1> DEFINE d == b - a
           r == a % BufSize
<1>1. d \in 0 .. BufSize - 1 /\ a + d = b /\ r \in Slots
  BY Division
<1>2. b % BufSize = IF r + d < BufSize THEN r + d ELSE (r + d) - BufSize
  BY <1>1, SlotFrom
<1> HIDE DEF r
<1>3. b % BufSize = r <=> d = 0
  BY <1>1, <1>2 DEF Slots
<1> QED BY <1>1, <1>3 DEF r

\* between() on slots is between on chunks, if all are less than a ring apart.
LEMMA BetweenChunks ==
    ASSUME NEW lo \in Int, NEW s \in Int, NEW pos \in Int, NEW e \in Int,
           lo <= s, s < e, lo <= pos, pos - lo < BufSize, e - lo < BufSize
    PROVE  Between(s % BufSize, pos % BufSize, e % BufSize) <=> pos \in s .. e - 1
<1> DEFINE r == lo % BufSize
           At(x) == IF r + (x - lo) < BufSize THEN r + (x - lo) ELSE (r + (x - lo)) - BufSize
<1>1. ASSUME NEW x \in Int, lo <= x, x - lo < BufSize PROVE x % BufSize = At(x)
  <2>1. x - lo \in 0 .. BufSize - 1 /\ lo + (x - lo) = x
    BY <1>1
  <2> QED BY <2>1, SlotFrom
<1>2. s % BufSize = At(s) /\ pos % BufSize = At(pos) /\ e % BufSize = At(e)
  <2>1. lo <= e /\ s - lo < BufSize
    OBVIOUS
  <2> HIDE DEF At
  <2> QED BY <1>1, <2>1
<1>3. r \in Slots
  BY Division
<1> HIDE DEF r
<1>4. Between(At(s), At(pos), At(e)) <=> pos \in s .. e - 1
  BY <1>3 DEF Between, Slots
<1> QED BY <1>2, <1>4
-----------------------------------------------------------------------------
(* The invariant of the windows *)

\* What is known of a window: its slot numbers are those of its chunks, the main
\* lobe lies inside, and all its chunks are in the ring at once.
Fits(px) ==
    /\ px.seqPos <= px.seqStart /\ px.seqStart < px.seqEnd /\ px.seqEnd <= px.seqLast
    /\ px.seqLast - px.seqPos < BufSize
    /\ px.idxStart = px.seqStart % BufSize /\ px.idxEnd = px.seqEnd % BufSize
    /\ px.idxExtStart = px.seqPos % BufSize /\ px.idxExtEnd = px.seqLast % BufSize

\* Of the window that is being copied, seqPos may have passed the main lobe.
Remains(px) ==
    /\ px.seqPos <= px.seqLast /\ px.seqLast - px.seqPos < BufSize
    /\ px.idxExtStart = px.seqPos % BufSize /\ px.idxExtEnd = px.seqLast % BufSize
    /\ px.seqPos < px.seqLast =>
           /\ px.seqStart < px.seqEnd /\ px.seqEnd <= px.seqLast
           /\ px.seqLast - px.seqStart < BufSize
           /\ px.idxStart = px.seqStart % BufSize /\ px.idxEnd = px.seqEnd % BufSize

\* An open pixel has at least one chunk, and no more than the count says.
OpenInv ==
    /\ pushIndex = pushes % BufSize /\ seqFirst <= pushes
    /\ pc \notin Terminal /\ an.prevInRoi =>
           /\ an.idxFirst = seqFirst % BufSize
           /\ seqFirst < pushes /\ pushes - seqFirst <= an.n + 1

QueueInv == \A j \in 1 .. Len(pxFifo) : Fits(pxFifo[j])

WindowInv == OpenInv /\ QueueInv /\ Remains(pxCurr)

LEMMA WindowInit == Init => WindowInv
<1> SUFFICES ASSUME Init PROVE WindowInv
  OBVIOUS
<1>1. 0 % BufSize = 0
  <2>1. 0 \in Slots /\ 0 = BufSize * 0 + 0
    BY DEF Slots
  <2> QED BY <2>1, Remainder
<1>2. OpenInv
  BY <1>1 DEF Init, OpenInv
<1>3. QueueInv
  BY DEF Init, QueueInv
<1>4. Remains(pxCurr)
  BY <1>1 DEF Init, Remains, NoPixel
<1> QED BY <1>2, <1>3, <1>4 DEF WindowInv

\* Where the pixel that a chunk continues or closes began
LEMMA OpenPixel ==
    ASSUME IInv, LobeInv, WindowInv, ~RangeFinder, pc \notin Terminal
    PROVE  /\ FirstSeq \in Int /\ pushes \in Nat /\ PxChunks \in Nat
           /\ PxChunks <= MaxPxChunks
           /\ FirstSlot = FirstSeq % BufSize
           /\ seqFirst <= FirstSeq /\ FirstSeq <= pushes
           /\ pushes - FirstSeq <= PxChunks
           /\ FirstSlot # pushIndex => FirstSeq < pushes
<1>1. PxChunks \in Nat /\ PxChunks <= MaxPxChunks
  BY CountWithinLimit
<1>2. /\ seqFirst \in Int /\ pushes \in Nat /\ seqFirst <= pushes
      /\ pushIndex = pushes % BufSize
  BY DEF IInv, PixelOpenOK, RingOK, WindowInv, OpenInv
<1>3. CASE an.prevInRoi
  <2>1. FirstSlot = an.idxFirst /\ FirstSeq = seqFirst /\ PxChunks = an.n + 1
    BY <1>3 DEF FirstSlot, FirstSeq, PxChunks
  <2>2. an.idxFirst = seqFirst % BufSize /\ seqFirst < pushes /\ pushes - seqFirst <= an.n + 1
    BY <1>3 DEF WindowInv, OpenInv
  <2> QED BY <1>1, <1>2, <2>1, <2>2
<1>4. CASE ~an.prevInRoi
  <2>1. FirstSlot = pushIndex /\ FirstSeq = pushes
    BY <1>4 DEF FirstSlot, FirstSeq
  <2> QED BY <1>1, <1>2, <2>1
<1> QED BY <1>3, <1>4

\* A window that is queued fits: a pixel longer than a code is given no extra
\* chunks, a shorter one is filled up to a code.
LEMMA QueuedFits ==
    ASSUME IInv, LobeInv, WindowInv, ~RangeFinder, pc \notin Terminal,
           NEW ch \in ChunkIn, InImage
    PROVE  Fits(PxInfo(ch)) /\ seqFirst <= PxInfo(ch).seqStart /\ PxInfo(ch).seqEnd = pushes
<1> DEFINE es == ExtraStart(ch)
           ee == ExtraEnd(ch)
           f == FirstSeq
<1>1. /\ f \in Int /\ pushes \in Nat /\ PxChunks \in Nat /\ PxChunks <= MaxPxChunks
      /\ FirstSlot = f % BufSize /\ seqFirst <= f /\ pushes - f <= PxChunks
  BY OpenPixel
<1>2. f < pushes
  BY OpenPixel DEF InImage
<1>3. es \in 0 .. BufSize - 1 /\ ee \in 0 .. BufSize - 1
  BY WindowParts
<1>4. es + ee = ExtraChunks
  <2>1. ExtraChunks \in Nat
    BY <1>1, CodeChunksNat DEF ExtraChunks
  <2>2. SmallLobe \in Int
    BY <2>1 DEF SmallLobe
  <2> QED BY <2>1, <2>2 DEF ExtraStart, ExtraEnd, BigLobe
<1>5. PxChunks + ExtraChunks < BufSize
  BY <1>1, CodeChunksNat, CapacityAssumption, SizesAssumption DEF ExtraChunks
<1>6. pushIndex = pushes % BufSize
  BY DEF WindowInv, OpenInv
<1>7. /\ ModSlot(FirstSlot - es) = (f - es) % BufSize
      /\ ModSlot(pushIndex + ee) = (pushes + ee) % BufSize
  <2> HIDE DEF es, ee, f
  <2>1. ModSlot((f % BufSize) - es) = (f - es) % BufSize
    BY <1>1, <1>3, ShiftedSlot
  <2>2. ModSlot((pushes % BufSize) + ee) = (pushes + ee) % BufSize
    <3>1. pushes \in Int
      BY <1>1
    <3> QED BY <1>3, <3>1, ShiftedSlot
  <2> QED BY <1>1, <1>6, <2>1, <2>2
<1>8. /\ PxInfo(ch).idxStart = FirstSlot /\ PxInfo(ch).idxEnd = pushIndex
      /\ PxInfo(ch).idxExtStart = ModSlot(FirstSlot - es)
      /\ PxInfo(ch).idxExtEnd = ModSlot(pushIndex + ee)
      /\ PxInfo(ch).seqStart = f /\ PxInfo(ch).seqEnd = pushes
      /\ PxInfo(ch).seqPos = f - es /\ PxInfo(ch).seqLast = pushes + ee
  BY DEF PxInfo
<1> HIDE DEF es, ee, f
<1>9. (pushes + ee) - (f - es) < BufSize
  <2>1. ExtraChunks = es + ee
    BY <1>4
  <2> QED BY <1>1, <1>3, <1>5, <2>1
<1> QED BY <1>1, <1>2, <1>3, <1>6, <1>7, <1>8, <1>9 DEF Fits

\* The step that copies a chunk moves on to the next chunk's slot, and the step
\* that takes a pixel takes one that fits.
LEMMA CurrentStep ==
    ASSUME IInv, WindowInv, [Next]_vars
    PROVE  Remains(pxCurr)'
<1>1. pxCurr \in PxInfoType /\ Remains(pxCurr)
  BY DEF IInv, CurrOK, WindowInv
<1>2. CASE PopPixel
  <2>1. pxFifo \in Seq(PxInfoType) /\ pxFifo # << >> /\ pxCurr' = Head(pxFifo)
    BY <1>2 DEF PopPixel, MayPop, IInv, QueueOK
  <2>2. 1 \in 1 .. Len(pxFifo) /\ pxCurr' = pxFifo[1] /\ pxCurr' \in PxInfoType
    BY <2>1
  <2>3. Fits(pxCurr')
    BY <2>2 DEF WindowInv, QueueInv
  <2> QED BY <2>2, <2>3 DEF Fits, Remains, PxInfoType
<1>3. CASE WriteChunk
  <2>1. pxCurr' = [pxCurr EXCEPT !.idxExtStart = NextSlot(pxCurr.idxExtStart),
                                 !.seqPos = pxCurr.seqPos + 1]
    BY <1>3 DEF WriteChunk
  <2>2. /\ pxCurr'.idxExtStart = NextSlot(pxCurr.idxExtStart)
        /\ pxCurr'.seqPos = pxCurr.seqPos + 1
        /\ pxCurr'.idxStart = pxCurr.idxStart /\ pxCurr'.idxEnd = pxCurr.idxEnd
        /\ pxCurr'.idxExtEnd = pxCurr.idxExtEnd
        /\ pxCurr'.seqStart = pxCurr.seqStart /\ pxCurr'.seqEnd = pxCurr.seqEnd
        /\ pxCurr'.seqLast = pxCurr.seqLast
    BY <1>1, <2>1 DEF PxInfoType
  <2>3. /\ pxCurr.seqPos \in Int /\ pxCurr.seqLast \in Int
        /\ pxCurr.seqStart \in Int /\ pxCurr.seqEnd \in Int
    BY <1>1 DEF PxInfoType
  <2>4. pxCurr.seqPos # pxCurr.seqLast
    BY <1>1, <1>3 DEF WriteChunk, MoreToWrite, DoneCurrent, Remains
  <2>5. NextSlot(pxCurr.idxExtStart) = (pxCurr.seqPos + 1) % BufSize
    BY <1>1, <2>3, NextChunkSlot DEF Remains
  <2> QED BY <1>1, <2>2, <2>3, <2>4, <2>5 DEF Remains
<1>4. CASE UNCHANGED pxCurr
  BY <1>1, <1>4 DEF Remains
<1> QED BY <1>2, <1>3, <1>4 DEF Next, Writer, Analyzer, Ended, Finish, KeepPixel, WriteFails,
           EndQuad, EndOfInput, WaitForChunk, AnalyzeChunk, IgnoreChunk, OutsideRoi,
           ContinuePixel, QueuePixel, QueueFails, DropPixel, Analyze, vars, writerVars

LEMMA QueueStep ==
    ASSUME IInv, LobeInv, WindowInv, ~RangeFinder, [Next]_vars
    PROVE  QueueInv'
<1>1. pxFifo \in Seq(PxInfoType)
  BY DEF IInv, QueueOK
<1>2. CASE PopPixel
  <2>1. pxFifo # << >> /\ pxFifo' = Tail(pxFifo)
    BY <1>2 DEF PopPixel, MayPop
  <2>2. /\ Len(pxFifo') = Len(pxFifo) - 1 /\ Len(pxFifo) \in Nat
        /\ \A j \in 1 .. Len(pxFifo') : pxFifo'[j] = pxFifo[j + 1]
    BY <1>1, <2>1
  <2> QED BY <2>2 DEF WindowInv, QueueInv
<1>3. ASSUME NEW ch \in ChunkIn, QueuePixel(ch) \/ QueueFails(ch) PROVE QueueInv'
  <2>1. InImage /\ pc \notin Terminal /\ pxFifo' = Append(pxFifo, PxInfo(ch))
    BY <1>3 DEF QueuePixel, QueueFails, Analyze, TakeChunk, Terminal
  <2>2. Fits(PxInfo(ch)) /\ PxInfo(ch) \in PxInfoType
    BY <2>1, QueuedFits, PxInfoIsTyped
  <2>3. /\ Len(pxFifo') = Len(pxFifo) + 1 /\ Len(pxFifo) \in Nat
        /\ \A j \in 1 .. Len(pxFifo) : pxFifo'[j] = pxFifo[j]
        /\ pxFifo'[Len(pxFifo) + 1] = PxInfo(ch)
    BY <1>1, <2>1, <2>2
  <2>4. \A j \in 1 .. Len(pxFifo') : j \in 1 .. Len(pxFifo) \/ j = Len(pxFifo) + 1
    BY <2>3
  <2> QED BY <2>2, <2>3, <2>4 DEF WindowInv, QueueInv
<1>4. CASE UNCHANGED pxFifo
  BY <1>4 DEF WindowInv, QueueInv
<1> QED BY <1>2, <1>3, <1>4 DEF Next, Writer, Analyzer, Ended, Finish, KeepPixel, WriteChunk,
           WriteFails, EndQuad, EndOfInput, WaitForChunk, AnalyzeChunk, IgnoreChunk, OutsideRoi,
           ContinuePixel, DropPixel, vars

LEMMA OpenStep ==
    ASSUME IInv, LobeInv, WindowInv, ~RangeFinder, [Next]_vars
    PROVE  OpenInv'
<1>1. /\ pushes \in Nat /\ seqFirst \in Int /\ seqFirst <= pushes
      /\ pushIndex = pushes % BufSize
  BY DEF IInv, RingOK, PixelOpenOK, WindowInv, OpenInv
<1>2. ASSUME NEW ch \in ChunkIn, PushChunk(ch)
      PROVE  pushes' = pushes + 1 /\ pushIndex' = pushes' % BufSize
  BY <1>1, <1>2, NextChunkSlot DEF PushChunk
<1>3. CASE UNCHANGED <<ringVars, pixelVars>> /\ (pc \in Terminal => pc' \in Terminal)
  BY <1>3 DEF ringVars, pixelVars, WindowInv, OpenInv
<1>4. ASSUME NEW ch \in ChunkIn, OutsideRoi(ch) PROVE OpenInv'
  <2>1. ~an'.prevInRoi /\ UNCHANGED <<ringVars, seqFirst>>
    BY <1>4 DEF OutsideRoi, IInv, AnOK, LocalsType
  <2> QED BY <1>1, <2>1 DEF ringVars, OpenInv
<1>5. ASSUME NEW ch \in ChunkIn, ContinuePixel(ch) PROVE OpenInv'
  <2>1. pc \notin Terminal /\ PushChunk(ch) /\ seqFirst' = FirstSeq
    BY <1>5 DEF ContinuePixel, Analyze, TakeChunk, Terminal
  <2>2. an'.idxFirst = FirstSlot /\ an'.n = PxChunks
    BY <1>5, AfterChunkTyped DEF ContinuePixel, LocalsType
  <2>3. /\ FirstSeq \in Int /\ PxChunks \in Nat /\ FirstSlot = FirstSeq % BufSize
        /\ FirstSeq <= pushes /\ pushes - FirstSeq <= PxChunks
    BY <2>1, OpenPixel
  <2>4. pushes' = pushes + 1 /\ pushIndex' = pushes' % BufSize
    BY <1>2, <2>1
  <2>5. seqFirst' <= pushes' /\ seqFirst' < pushes' /\ pushes' - seqFirst' <= an'.n + 1
    BY <1>1, <2>1, <2>2, <2>3, <2>4
  <2> QED BY <2>1, <2>2, <2>3, <2>4, <2>5 DEF OpenInv
<1>6. ASSUME NEW ch \in ChunkIn, QueuePixel(ch) \/ DropPixel(ch) PROVE OpenInv'
  <2>1. ChunksToMove(ch) = 0
    BY DEF ChunksToMove
  <2>2. PushChunk(ch) /\ seqFirst' = pushes /\ an' = StartPixel(ch, pushIndex)
    <3>1. CASE QueuePixel(ch)
      BY <3>1 DEF QueuePixel
    <3>2. CASE DropPixel(ch)
      <4>1. pushIndex \in Int
        BY DEF IInv, RingOK, Slots
      <4> QED BY <1>1, <2>1, <3>2, <4>1 DEF DropPixel
    <3> QED BY <1>6, <3>1, <3>2
  <2>3. an'.idxFirst = pushIndex /\ an'.n = 0
    BY <2>2, AfterChunkTyped DEF StartPixel, LocalsType
  <2> QED BY <1>1, <1>2, <2>2, <2>3 DEF OpenInv
<1>7. ASSUME NEW ch \in ChunkIn, QueueFails(ch) PROVE OpenInv'
  <2>1. PushChunk(ch) /\ seqFirst' = pushes /\ pc' \in Terminal
    BY <1>7 DEF QueueFails, Terminal
  <2> QED BY <1>1, <1>2, <2>1 DEF OpenInv
<1>8. CASE Writer \/ EndOfInput \/ WaitForChunk
  <2>1. UNCHANGED <<ringVars, pixelVars>> /\ pc \notin Terminal
    BY <1>8 DEF Writer, Finish, PopPixel, KeepPixel, WriteChunk, WriteFails, EndQuad, MoreToWrite,
                EndOfInput, WaitForChunk, Terminal
  <2> QED BY <1>3, <2>1
<1>9. ASSUME NEW ch \in ChunkIn, IgnoreChunk(ch) PROVE OpenInv'
  <2>1. UNCHANGED <<ringVars, pixelVars>> /\ pc \notin Terminal
    BY <1>9 DEF IgnoreChunk, TakeChunk, Terminal
  <2> QED BY <1>3, <2>1
<1>10. CASE UNCHANGED vars
  BY <1>3, <1>10 DEF vars
<1> QED BY <1>4, <1>5, <1>6, <1>7, <1>8, <1>9, <1>10 DEF Next, Analyzer, AnalyzeChunk, Ended

LEMMA WindowStep ==
    ASSUME ~RangeFinder
    PROVE  IInv /\ LobeInv /\ WindowInv /\ [Next]_vars => WindowInv'
<1> SUFFICES ASSUME IInv, LobeInv, WindowInv, [Next]_vars PROVE WindowInv'
  OBVIOUS
<1> QED BY CurrentStep, QueueStep, OpenStep DEF WindowInv

THEOREM WindowInvHolds == ASSUME ~RangeFinder PROVE Spec => []WindowInv
<1>1. Init => LobeInv
  BY DEF Init, LobeInv
<1> QED BY <1>1, LobeStep, IInvHolds, WindowInit, WindowStep, PTL DEF Spec

\* A window's slot numbers stand for the chunks it was meant to have, although
\* next() and mod() wrap once: copying ends after exactly those chunks.
THEOREM WindowsWrap == ASSUME ~RangeFinder PROVE Spec => []WindowsWrapRight
<1>1. IInv /\ WindowInv => WindowsWrapRight
  <2> SUFFICES ASSUME IInv, WindowInv, NEW px \in Pending
               PROVE  /\ px.idxExtStart = px.seqPos % BufSize
                      /\ px.idxExtEnd = px.seqLast % BufSize
                      /\ px.seqLast - px.seqPos \in 1 .. BufSize - 1
    BY DEF WindowsWrapRight
  <2>1. CASE px \in Queued
    <3>1. PICK j \in 1 .. Len(pxFifo) : px = pxFifo[j]
      BY <2>1 DEF Queued
    <3>2. Fits(px) /\ px \in PxInfoType
      BY <3>1 DEF WindowInv, QueueInv, IInv, QueueOK
    <3> QED BY <3>2 DEF Fits, PxInfoType
  <2>2. CASE px = pxCurr /\ ~DoneCurrent
    <3>1. Remains(px) /\ px \in PxInfoType /\ px.idxExtStart # px.idxExtEnd
      BY <2>2 DEF WindowInv, IInv, CurrOK, DoneCurrent
    <3> QED BY <3>1 DEF Remains, PxInfoType
  <2> QED BY <2>1, <2>2 DEF Pending
<1> QED BY <1>1, WindowInvHolds, IInvHolds, PTL

\* between() recognises the chunks of the main lobe, on both sides of the end of
\* the ring.
THEOREM LobeFound == ASSUME ~RangeFinder PROVE Spec => []MainLobeFound
<1>1. IInv /\ WindowInv => MainLobeFound
  <2> SUFFICES ASSUME IInv, WindowInv, ~DoneCurrent
               PROVE  Between(pxCurr.idxStart, pxCurr.idxExtStart, pxCurr.idxEnd)
                          <=> pxCurr.seqPos \in pxCurr.seqStart .. pxCurr.seqEnd - 1
    BY DEF MainLobeFound
  <2> DEFINE s == pxCurr.seqStart
             e == pxCurr.seqEnd
             pos == pxCurr.seqPos
             last == pxCurr.seqLast
             lo == IF s <= pos THEN s ELSE pos
  <2>1. s \in Int /\ e \in Int /\ pos \in Int /\ last \in Int
    BY DEF IInv, CurrOK, PxInfoType
  <2>2. Remains(pxCurr) /\ pos # last
    BY DEF WindowInv, DoneCurrent, Remains
  <2>3. /\ pos < last /\ s < e /\ e <= last /\ last - pos < BufSize /\ last - s < BufSize
        /\ pxCurr.idxStart = s % BufSize /\ pxCurr.idxEnd = e % BufSize
        /\ pxCurr.idxExtStart = pos % BufSize
    BY <2>1, <2>2 DEF Remains
  <2> HIDE DEF s, e, pos, last
  <2>4. lo \in Int /\ lo <= s /\ lo <= pos /\ pos - lo < BufSize /\ e - lo < BufSize
    BY <2>1, <2>3
  <2> HIDE DEF lo
  <2>5. Between(s % BufSize, pos % BufSize, e % BufSize) <=> pos \in s .. e - 1
    BY <2>1, <2>3, <2>4, BetweenChunks
  <2> QED BY <2>3, <2>5 DEF s, e, pos
<1> QED BY <1>1, WindowInvHolds, IInvHolds, PTL

-----------------------------------------------------------------------------
(* The queue delivers windows in order and whole *)

SpanType == [from : Int, to : Int, first : Int, last : Int]
Spans(q) == [j \in 1 .. Len(q) |-> Span(q[j])]

LEMMA SpansTyped ==
    ASSUME NEW q \in Seq(PxInfoType)
    PROVE  /\ Spans(q) \in Seq(SpanType) /\ Len(Spans(q)) = Len(q)
           /\ \A j \in 1 .. Len(q) : Spans(q)[j] = Span(q[j])
<1>1. Len(q) \in Nat /\ \A j \in 1 .. Len(q) : q[j] \in PxInfoType
  OBVIOUS
<1>2. \A px \in PxInfoType : Span(px) \in SpanType
  BY DEF PxInfoType, Span, SpanType
<1> HIDE DEF Span
<1>3. Spans(q) \in [1 .. Len(q) -> SpanType]
  BY <1>1, <1>2 DEF Spans
<1> QED BY <1>1, <1>3 DEF Spans

\* A window appended to the FIFO
LEMMA SpansAppend ==
    ASSUME NEW q \in Seq(PxInfoType), NEW px \in PxInfoType
    PROVE  LET r == Append(q, px)
           IN  /\ Len(Spans(r)) = Len(Spans(q)) + 1
               /\ SubSeq(Spans(r), 1, Len(Spans(q))) = Spans(q)
               /\ Spans(r)[Len(Spans(r))] = Span(px)
<1> DEFINE r == Append(q, px)
           n == Len(q)
<1>1. /\ n \in Nat /\ r \in Seq(PxInfoType) /\ Len(r) = n + 1
      /\ \A j \in 1 .. n : r[j] = q[j]
      /\ r[n + 1] = px
  OBVIOUS
<1> HIDE DEF r, n
<1>2. /\ Spans(q) \in Seq(SpanType) /\ Len(Spans(q)) = n
      /\ \A j \in 1 .. n : Spans(q)[j] = Span(q[j])
  BY SpansTyped DEF n
<1>3. /\ Spans(r) \in Seq(SpanType) /\ Len(Spans(r)) = n + 1
      /\ \A j \in 1 .. n + 1 : Spans(r)[j] = Span(r[j])
  BY <1>1, SpansTyped
<1>4. SubSeq(Spans(r), 1, n) = Spans(q)
  <2> DEFINE u == SubSeq(Spans(r), 1, n)
  <2>1. /\ u \in Seq(SpanType) /\ Len(u) = n
        /\ \A j \in 1 .. n : u[j] = Spans(r)[j]
    BY <1>1, <1>3
  <2> HIDE DEF u
  <2>2. \A j \in 1 .. n : u[j] = Spans(q)[j]
    BY <1>1, <1>2, <1>3, <2>1
  <2> QED BY <1>2, <2>1, <2>2, SeqEqual DEF u
<1> QED BY <1>1, <1>2, <1>3, <1>4 DEF r

\* A window taken from the FIFO
LEMMA SpansTail ==
    ASSUME NEW q \in Seq(PxInfoType), q # << >>
    PROVE  /\ Spans(q) # << >> /\ Head(Spans(q)) = Span(Head(q))
           /\ Tail(Spans(q)) = Spans(Tail(q))
<1> DEFINE n == Len(q)
           t == Tail(q)
<1>1. /\ n \in Nat /\ n > 0 /\ Head(q) = q[1] /\ t \in Seq(PxInfoType) /\ Len(t) = n - 1
      /\ \A j \in 1 .. n - 1 : t[j] = q[j + 1]
  OBVIOUS
<1> HIDE DEF n, t
<1>2. /\ Spans(q) \in Seq(SpanType) /\ Len(Spans(q)) = n
      /\ \A j \in 1 .. n : Spans(q)[j] = Span(q[j])
  BY SpansTyped DEF n
<1>3. /\ Spans(t) \in Seq(SpanType) /\ Len(Spans(t)) = n - 1
      /\ \A j \in 1 .. n - 1 : Spans(t)[j] = Span(t[j])
  BY <1>1, SpansTyped
<1>4. Spans(q) # << >> /\ Head(Spans(q)) = Spans(q)[1]
  BY <1>1, <1>2
<1>5. Tail(Spans(q)) = Spans(t)
  <2> DEFINE u == Tail(Spans(q))
  <2>1. /\ u \in Seq(SpanType) /\ Len(u) = n - 1
        /\ \A j \in 1 .. n - 1 : u[j] = Spans(q)[j + 1]
    BY <1>2, <1>4
  <2> HIDE DEF u
  <2>2. \A j \in 1 .. n - 1 : u[j] = Spans(t)[j]
    BY <1>1, <1>2, <1>3, <2>1
  <2> QED BY <1>3, <2>1, <2>2, SeqEqual DEF u
<1> QED BY <1>1, <1>2, <1>4, <1>5 DEF t

LEMMA DeliveryInit == Init => Delivery!Init
<1> SUFFICES ASSUME Init PROVE Delivery!Init
  OBVIOUS
<1>1. Spans(pxFifo) = << >>
  <2>1. pxFifo = << >> /\ pxFifo \in Seq(PxInfoType) /\ Len(pxFifo) = 0
    BY DEF Init
  <2>2. Spans(pxFifo) \in Seq(SpanType) /\ Len(Spans(pxFifo)) = 0
    BY <2>1, SpansTyped
  <2> QED BY <2>2, EmptySeq
<1>2. Span(pxCurr) = Delivery!Nothing /\ seqFirst = -1
  BY DEF Init, NoPixel, Span, Delivery!Nothing
<1> QED BY <1>1, <1>2 DEF Delivery!Init, Spans

\* Each step takes a window, delivers a chunk, detects a pixel, skips chunks that
\* belong to none, or is not seen.
LEMMA DeliveryStep ==
    ASSUME IInv, LobeInv, WindowInv, ~RangeFinder, [Next]_vars
    PROVE  \/ Delivery!Next
           \/ UNCHANGED <<Spans(pxFifo), Span(pxCurr), seqFirst>>
<1>1. pxFifo \in Seq(PxInfoType) /\ pxCurr \in PxInfoType /\ Remains(pxCurr)
  BY DEF IInv, QueueOK, CurrOK, WindowInv
<1>2. pushes \in Nat /\ seqFirst \in Int /\ seqFirst <= pushes
  BY DEF IInv, RingOK, PixelOpenOK, WindowInv, OpenInv
<1>3. CASE PopPixel
  <2>1. /\ DoneCurrent /\ pxFifo # << >> /\ pxCurr' = Head(pxFifo) /\ pxFifo' = Tail(pxFifo)
        /\ seqFirst' = seqFirst
    BY <1>3 DEF PopPixel, MayPop, pixelVars
  <2>2. pxCurr.seqPos = pxCurr.seqLast
    BY <1>1, <2>1, SlotsDiffer DEF DoneCurrent, Remains, PxInfoType
  <2>3. /\ Spans(pxFifo) # << >> /\ Head(Spans(pxFifo)) = Span(pxCurr)'
        /\ Tail(Spans(pxFifo)) = Spans(pxFifo)'
    BY <1>1, <2>1, SpansTail
  <2>4. Span(pxCurr).from = Span(pxCurr).to
    BY <2>2 DEF Span
  <2> QED BY <2>1, <2>3, <2>4 DEF Delivery!Next, Delivery!Take, Spans
<1>4. CASE WriteChunk
  <2>1. /\ pxFifo' = pxFifo /\ seqFirst' = seqFirst /\ ~DoneCurrent
        /\ pxCurr' = [pxCurr EXCEPT !.idxExtStart = NextSlot(pxCurr.idxExtStart),
                                    !.seqPos = pxCurr.seqPos + 1]
    BY <1>4 DEF WriteChunk, MoreToWrite, pixelVars
  <2>2. /\ pxCurr'.seqPos = pxCurr.seqPos + 1 /\ pxCurr'.seqLast = pxCurr.seqLast
        /\ pxCurr'.seqStart = pxCurr.seqStart /\ pxCurr'.seqEnd = pxCurr.seqEnd
    BY <1>1, <2>1 DEF PxInfoType
  <2>3. pxCurr.seqPos < pxCurr.seqLast
    BY <1>1, <2>1 DEF DoneCurrent, Remains, PxInfoType
  <2>4. Span(pxCurr).from < Span(pxCurr).to
    BY <2>3 DEF Span
  <2>5. Span(pxCurr)' = [Span(pxCurr) EXCEPT !.from = Span(pxCurr).from + 1]
    BY <2>2 DEF Span
  <2> QED BY <2>1, <2>4, <2>5 DEF Delivery!Next, Delivery!Deliver
<1>5. ASSUME NEW ch \in ChunkIn, QueuePixel(ch) \/ QueueFails(ch) PROVE Delivery!Next
  <2> DEFINE px == PxInfo(ch)
             w == Span(px)
  <2>1. /\ InImage /\ pc \notin Terminal /\ pxFifo' = Append(pxFifo, px)
        /\ seqFirst' = pushes /\ pxCurr' = pxCurr
    BY <1>5 DEF QueuePixel, QueueFails, Analyze, TakeChunk, Terminal, writerVars
  <2>2. Fits(px) /\ px \in PxInfoType /\ seqFirst <= px.seqStart /\ px.seqEnd = pushes
    BY <2>1, QueuedFits, PxInfoIsTyped
  <2> HIDE DEF px
  <2>3. /\ Len(Spans(pxFifo)') = Len(Spans(pxFifo)) + 1
        /\ SubSeq(Spans(pxFifo)', 1, Len(Spans(pxFifo))) = Spans(pxFifo)
        /\ Spans(pxFifo)'[Len(Spans(pxFifo)')] = w
    BY <1>1, <2>1, <2>2, SpansAppend
  <2>4. /\ Delivery!WindowOf(w) /\ seqFirst <= w.first /\ seqFirst' = w.last
    BY <2>1, <2>2 DEF Fits, Span, Delivery!WindowOf
  <2> HIDE DEF w
  <2> QED BY <2>1, <2>3, <2>4 DEF Delivery!Next, Delivery!Detect, Spans
<1>6. ASSUME NEW ch \in ChunkIn, ContinuePixel(ch) \/ DropPixel(ch)
      PROVE  \/ Delivery!Next
             \/ UNCHANGED <<Spans(pxFifo), Span(pxCurr), seqFirst>>
  <2>1. pxFifo' = pxFifo /\ pxCurr' = pxCurr /\ pc \notin Terminal
    BY <1>6 DEF ContinuePixel, DropPixel, Analyze, TakeChunk, Terminal, writerVars
  <2>2. seqFirst' \in Int /\ seqFirst <= seqFirst'
    <3>1. CASE ContinuePixel(ch)
      BY <2>1, <3>1, OpenPixel DEF ContinuePixel
    <3>2. CASE DropPixel(ch)
      <4>1. ChunksToMove(ch) = 0
        BY DEF ChunksToMove
      <4> QED BY <1>2, <3>2, <4>1 DEF DropPixel
    <3> QED BY <1>6, <3>1, <3>2
  <2>3. UNCHANGED <<Spans(pxFifo), Span(pxCurr)>>
    BY <2>1
  <2>4. CASE seqFirst' > seqFirst
    BY <2>1, <2>4 DEF Delivery!Next, Delivery!Skip
  <2>5. CASE seqFirst' = seqFirst
    BY <2>3, <2>5
  <2> QED BY <1>2, <2>2, <2>4, <2>5
<1>7. CASE UNCHANGED <<pxFifo, pxCurr, seqFirst>>
  BY <1>7
<1> QED BY <1>3, <1>4, <1>5, <1>6, <1>7 DEF Next, Writer, Analyzer, Ended, Finish, KeepPixel,
           WriteFails, EndQuad, EndOfInput, WaitForChunk, AnalyzeChunk, IgnoreChunk, OutsideRoi,
           Analyze, vars, writerVars, pixelVars

\* The code delivers the windows of the pixels in the order of the scan, each one
\* whole and chunk by chunk: the ring, the wraps and the quads do not show.
THEOREM ImplementsDelivery == ASSUME ~RangeFinder PROVE Spec => DeliversPixels
<1>1. Init => LobeInv
  BY DEF Init, LobeInv
<1>2. IInv /\ LobeInv /\ WindowInv /\ [Next]_vars
          => [Delivery!Next]_<<[j \in 1 .. Len(pxFifo) |-> Span(pxFifo[j])], Span(pxCurr), seqFirst>>
  BY DeliveryStep DEF Spans
<1> QED BY <1>1, <1>2, LobeStep, IInvHolds, WindowInit, WindowStep, DeliveryInit, PTL
           DEF Spec, DeliversPixels, Delivery!Spec

-----------------------------------------------------------------------------
(* Windows are copied before they are overwritten *)

\* The longest window, the quads that n chunks take, and what is left of the
\* window being copied.
Longest == IF CodeChunks > MaxPxChunks THEN CodeChunks ELSE MaxPxChunks
Quads(n) == (n + QuadSize - 1) \div QuadSize
Left == pxCurr.seqLast - pxCurr.seqPos

\* How large the ring has to be: for the pixels that are held back, all as long as
\* a pixel may be, and for a full FIFO of windows to be copied, besides one window.
\* PCQ.cpp's sizes (ring 320, quads of 4, FIFO 30, pixels of 32) allow it for codes
\* of up to 36 chunks in all four transmit modes.
Proportions ==
    /\ Quads(Longest) <= MaxPxChunks
    /\ Longest + 1 + PxFifoCap * Quads(Longest) <= BufSize
    /\ \A tx \in Modes : Longest + 1 + (2 * (1 + tx)) * MaxPxChunks <= BufSize

\* What the scan must be like: when chunks are skipped while pixels wait, pixels
\* that belong to no pixel of the image set toEmpty, and the mirror is not back
\* before the pixels that waited are taken.
DrainsFirst ==
    \/ pxFifo = << >>
    \/ /\ toEmpty => toEmpty'
       /\ seqFirst' # seqFirst => toEmpty' \/ Len(pxFifo') > Len(pxFifo)

\* Turns of the loop until the window being copied is done
Copied == IF pc = "pop" THEN 0 ELSE k
Wait == Quads(Left + Copied)

\* A pixel that waits will be old at most as old as the ring when it is taken, if
\* the Writer need not hold back pixels before it.
WaitInv ==
    \A j \in 1 .. Len(pxFifo) :
        (pushes - pxFifo[j].seqPos) + Wait + (j - 1) * Quads(Longest) <= BufSize

\* While pixels may be held back they lie one after the other along the scan.
CountInv ==
    ~toEmpty => \A j \in 1 .. Len(pxFifo) :
        pushes - pxFifo[j].seqPos <= Longest + (Len(pxFifo) - j) * MaxPxChunks + (pushes - seqFirst)

\* The Writer has nothing to do only if there is no pixel or it holds them back.
HeldInv ==
    pc \in {"write", "analyze"} /\ k = 0 /\ Left = 0 /\ ~eof =>
        \/ pxFifo = << >>
        \/ ~toEmpty /\ Len(pxFifo) <= 2 * (1 + pxFifo[1].tx)

\* Lengths and modes of windows; the quad that was written when the Analyzer runs
LengthInv ==
    /\ pushes - seqFirst <= MaxPxChunks
    /\ Left \in 0 .. Longest
    /\ \A j \in 1 .. Len(pxFifo) : /\ pxFifo[j].tx \in Modes
                                   /\ pxFifo[j].seqLast - pxFifo[j].seqPos \in 1 .. Longest
    /\ pc = "analyze" => k = QuadSize \/ Left = 0

\* No window is older than the ring.
AliveInv ==
    /\ \A j \in 1 .. Len(pxFifo) : pushes - pxFifo[j].seqPos <= BufSize
    /\ Left > 0 => pushes - pxCurr.seqPos <= BufSize

LagInv ==
    /\ LengthInv /\ AliveInv
    /\ pc \notin Terminal =>
           /\ WaitInv /\ CountInv /\ HeldInv
           /\ Left > 0 => (pushes - pxCurr.seqPos) + Copied <= BufSize

LEMMA LongestType ==
    /\ Longest \in Nat \ {0} /\ MaxPxChunks \in Nat \ {0} /\ MaxPxChunks <= Longest /\ CodeChunks <= Longest
    /\ QuadSize \in 1 .. 4 /\ PxFifoCap \in Nat \ {0}
BY SizesAssumption, CodeChunksNat DEF Longest

\* Quads that n chunks take
LEMMA QuadsOf ==
    ASSUME NEW n \in Nat
    PROVE  /\ Quads(n) \in Nat
           /\ n = 0 => Quads(n) = 0
           /\ n \in 1 .. QuadSize => Quads(n) = 1
           /\ Quads(n + QuadSize) = Quads(n) + 1
           /\ \A m \in Nat : n <= m => Quads(n) <= Quads(m)
<1> QuadSize \in 1 .. 4
  BY SizesAssumption
<1>1. CASE QuadSize = 1
  BY <1>1 DEF Quads
<1>2. CASE QuadSize = 2
  BY <1>2 DEF Quads
<1>3. CASE QuadSize = 3
  BY <1>3 DEF Quads
<1>4. CASE QuadSize = 4
  BY <1>4 DEF Quads
<1> QED BY <1>1, <1>2, <1>3, <1>4

LEMMA QuadsOfLongest ==
    /\ Quads(Longest) \in Nat
    /\ \A n \in 0 .. Longest : Quads(n) \in Nat /\ Quads(n) <= Quads(Longest)
BY LongestType, QuadsOf

\* A factor may be made larger.
LEMMA TimesMore ==
    ASSUME NEW a \in Nat, NEW b \in Nat, NEW c \in Nat, a <= b
    PROVE  a * c <= b * c /\ c * a <= c * b /\ a * c \in Nat /\ b * c \in Nat
OBVIOUS

\* Pixels that are held back: those after the j-th are as long as a pixel may be,
\* those before it take quads.
LEMMA HeldSum ==
    ASSUME NEW n \in Nat, NEW j \in 1 .. n, NEW max \in Nat, NEW quads \in Nat, quads <= max
    PROVE  (n - j) * max + (j - 1) * quads + max <= n * max
<1>1. (j - 1) * quads <= (j - 1) * max
  BY TimesMore
<1>2. (n - j) * max + (j - 1) * max + max = n * max
  OBVIOUS
<1>3. (n - j) * max \in Int /\ (j - 1) * max \in Int /\ (j - 1) * quads \in Int /\ n * max \in Int
  OBVIOUS
<1> QED BY <1>1, <1>2, <1>3

\* What the steps below use of the other invariants
LEMMA LagTypes ==
    ASSUME IInv, WindowInv
    PROVE  /\ pushes \in Nat /\ seqFirst \in Int /\ k \in Nat /\ k <= QuadSize
           /\ pxCurr \in PxInfoType /\ pxFifo \in Seq(PxInfoType) /\ Len(pxFifo) \in Nat
           /\ \A j \in 1 .. Len(pxFifo) : /\ pxFifo[j].seqPos \in Int /\ pxFifo[j].seqLast \in Int
                                          /\ pxFifo[j].seqPos < pxFifo[j].seqLast
           /\ pxCurr.seqPos \in Int /\ pxCurr.seqLast \in Int /\ Left \in Int
           /\ DoneCurrent <=> Left = 0
<1>1. /\ pushes \in Nat /\ seqFirst \in Int /\ k \in Nat /\ k <= QuadSize
      /\ pxCurr \in PxInfoType /\ pxFifo \in Seq(PxInfoType)
  BY SizesAssumption DEF IInv, RingOK, PixelOpenOK, CurrOK, QueueOK
<1>2. pxCurr.seqPos \in Int /\ pxCurr.seqLast \in Int /\ Left \in Int
  BY <1>1 DEF PxInfoType, Left
<1>3. DoneCurrent <=> pxCurr.seqPos = pxCurr.seqLast
  BY <1>2, SlotsDiffer DEF WindowInv, Remains, DoneCurrent
<1>4. ASSUME NEW j \in 1 .. Len(pxFifo)
      PROVE  /\ pxFifo[j].seqPos \in Int /\ pxFifo[j].seqLast \in Int
             /\ pxFifo[j].seqPos < pxFifo[j].seqLast
  <2>1. pxFifo[j] \in PxInfoType /\ Fits(pxFifo[j])
    BY <1>1 DEF WindowInv, QueueInv
  <2> QED BY <2>1 DEF Fits, PxInfoType
<1>5. DoneCurrent <=> Left = 0
  BY <1>2, <1>3 DEF Left
<1>6. Len(pxFifo) \in Nat
  BY <1>1
<1> QED BY <1>1, <1>2, <1>4, <1>5, <1>6

LEMMA LagInit == Init => LagInv
<1> SUFFICES ASSUME Init PROVE LagInv
  OBVIOUS
<1>1. Left = 0 /\ Len(pxFifo) = 0 /\ pushes = 0 /\ seqFirst = -1 /\ pc = "pop" /\ pxFifo = << >>
  BY DEF Init, Left, NoPixel
<1> QED BY <1>1, LongestType DEF LagInv, LengthInv, AliveInv, WaitInv, CountInv, HeldInv

\* A pixel is taken: those behind it move up while its window is copied.
LEMMA LagPop == ASSUME IInv, WindowInv, LagInv, PopPixel PROVE LagInv'
<1> DEFINE n == Len(pxFifo)
           wq == Quads(Longest)
<1>1. /\ pc = "pop" /\ DoneCurrent /\ pxFifo # << >>
      /\ pxCurr' = Head(pxFifo) /\ pxFifo' = Tail(pxFifo) /\ k' = 0 /\ pc' = "write"
      /\ UNCHANGED <<pushes, seqFirst, toEmpty, eof>>
  BY DEF PopPixel, MayPop, ringVars, pixelVars, frameVars
<1>2. /\ n \in Nat /\ n > 0 /\ pxCurr' = pxFifo[1] /\ Len(pxFifo') = n - 1
      /\ \A j \in 1 .. n - 1 : pxFifo'[j] = pxFifo[j + 1]
  BY <1>1, LagTypes
<1>3. LengthInv /\ AliveInv /\ WaitInv /\ CountInv /\ Left = 0
  BY <1>1, LagTypes DEF LagInv, Terminal
<1>4. Left' = pxFifo[1].seqLast - pxFifo[1].seqPos /\ Left' \in 1 .. Longest
  BY <1>2, <1>3 DEF Left, LengthInv
<1>5. LengthInv'
  BY <1>1, <1>2, <1>3, <1>4, LongestType DEF LengthInv
<1>6. Wait = 0 /\ Wait' \in Nat /\ Wait' <= wq /\ wq \in Nat
  <2>1. Wait = Quads(0)
    BY <1>1, <1>3 DEF Wait, Copied
  <2>2. Wait' = Quads(Left')
    BY <1>1, <1>4, LongestType DEF Wait, Copied
  <2> QED BY <2>1, <2>2, <1>4, QuadsOf, QuadsOfLongest, LongestType
<1>7. WaitInv'
  <2> SUFFICES ASSUME NEW j \in 1 .. n - 1
               PROVE  (pushes - pxFifo[j + 1].seqPos) + Wait' + (j - 1) * wq <= BufSize
    BY <1>1, <1>2 DEF WaitInv
  <2>1. (pushes - pxFifo[j + 1].seqPos) + Wait + ((j + 1) - 1) * wq <= BufSize
    BY <1>2, <1>3 DEF WaitInv
  <2>2. pushes - pxFifo[j + 1].seqPos \in Int /\ (j - 1) * wq \in Int
    <3>1. j + 1 \in 1 .. n
      BY <1>2
    <3>2. pushes \in Int /\ pxFifo[j + 1].seqPos \in Int
      BY <3>1, LagTypes
    <3> QED BY <1>2, <1>6, <3>2
  <2>3. ((j + 1) - 1) * wq = (j - 1) * wq + wq
    BY <1>6
  <2> HIDE DEF wq
  <2> QED BY <1>6, <2>1, <2>2, <2>3
<1>8. CountInv'
  <2> SUFFICES ASSUME ~toEmpty, NEW j \in 1 .. n - 1
               PROVE  pushes - pxFifo[j + 1].seqPos
                        <= Longest + ((n - 1) - j) * MaxPxChunks + (pushes - seqFirst)
    BY <1>1, <1>2 DEF CountInv
  <2>1. pushes - pxFifo[j + 1].seqPos
          <= Longest + (n - (j + 1)) * MaxPxChunks + (pushes - seqFirst)
    BY <1>2, <1>3 DEF CountInv
  <2>2. n - (j + 1) = (n - 1) - j
    BY <1>2
  <2> QED BY <2>1, <2>2
<1>9. AliveInv'
  BY <1>1, <1>2, <1>3, <1>4 DEF AliveInv
<1>10. HeldInv'
  BY <1>4 DEF HeldInv
<1>11. (pushes - pxCurr.seqPos)' + Copied' <= BufSize
  BY <1>1, <1>2, <1>3, LagTypes DEF Copied, AliveInv
<1> QED BY <1>5, <1>7, <1>8, <1>9, <1>10, <1>11 DEF LagInv

\* A chunk is copied: the window is one chunk shorter, the quad one longer.
LEMMA LagWrite == ASSUME IInv, WindowInv, LagInv, WriteChunk PROVE LagInv'
<1>1. /\ pc = "write" /\ pc' = "write" /\ k < QuadSize /\ ~DoneCurrent /\ k' = k + 1
      /\ pxCurr' = [pxCurr EXCEPT !.idxExtStart = NextSlot(pxCurr.idxExtStart),
                                  !.seqPos = pxCurr.seqPos + 1]
      /\ UNCHANGED <<pxFifo, pushes, seqFirst, toEmpty, eof>>
  BY DEF WriteChunk, MoreToWrite, ringVars, pixelVars, frameVars
<1>2. pxCurr'.seqPos = pxCurr.seqPos + 1 /\ pxCurr'.seqLast = pxCurr.seqLast
  BY <1>1, LagTypes DEF PxInfoType
<1>3. Left \in Nat /\ Left > 0 /\ Left' = Left - 1
  BY <1>1, <1>2, LagTypes DEF Left, LagInv, LengthInv
<1>4. Wait' = Wait
  <2>1. Left' + Copied' = Left + Copied
    BY <1>1, <1>3, LagTypes DEF Copied
  <2> QED BY <2>1 DEF Wait, Quads
<1>5. LengthInv'
  BY <1>1, <1>3, LongestType DEF LagInv, LengthInv
<1>6. AliveInv' /\ (pushes - pxCurr.seqPos)' + Copied' <= BufSize
  BY <1>1, <1>2, <1>3, LagTypes DEF LagInv, AliveInv, Copied, Terminal
<1>7. WaitInv'
  BY <1>1, <1>4 DEF LagInv, WaitInv, Terminal
<1>8. CountInv'
  BY <1>1 DEF LagInv, CountInv, Terminal
<1>9. HeldInv'
  BY <1>1, LagTypes DEF HeldInv
<1> QED BY <1>5, <1>6, <1>7, <1>8, <1>9 DEF LagInv

\* The other steps of the Writer change nothing but the stage.
LEMMA LagStage ==
    ASSUME IInv, WindowInv, ~RangeFinder, LagInv, Finish \/ KeepPixel \/ WriteFails \/ EndQuad
    PROVE  LagInv'
<1>1. /\ UNCHANGED <<pxFifo, pxCurr, pushes, seqFirst, toEmpty, eof>>
      /\ UNCHANGED <<Left, Quads(Longest)>>
  BY DEF Finish, KeepPixel, WriteFails, EndQuad, ringVars, pixelVars, frameVars, writerVars, Left
<1>2. CASE pc' \in Terminal
  BY <1>1, <1>2 DEF LagInv, LengthInv, AliveInv, Terminal
<1>3. CASE KeepPixel
  <2>1. pc = "pop" /\ pc' = "write" /\ k' = 0 /\ ~MayPop
    BY <1>3 DEF KeepPixel
  <2>2. Copied' = Copied /\ Wait' = Wait
    BY <1>1, <2>1 DEF Copied, Wait
  <2>3. LengthInv' /\ AliveInv' /\ WaitInv' /\ CountInv'
    BY <1>1, <2>1, <2>2 DEF LagInv, LengthInv, AliveInv, WaitInv, CountInv, Terminal
  <2>4. HeldInv'
    <3> SUFFICES ASSUME Left = 0, ~eof, pxFifo # << >>
                 PROVE  ~toEmpty /\ Len(pxFifo) <= 2 * (1 + pxFifo[1].tx)
      BY <1>1 DEF HeldInv
    <3>1. ~toEmpty /\ ~(Len(pxFifo) > 2 * (1 + Head(pxFifo).tx))
      BY <2>1, LagTypes DEF MayPop
    <3>2. Head(pxFifo) = pxFifo[1] /\ Len(pxFifo) \in Nat /\ 1 \in 1 .. Len(pxFifo)
      BY LagTypes
    <3>3. pxFifo[1] \in PxInfoType
      BY <3>2, LagTypes
    <3>4. pxFifo[1].tx \in Int
      BY <3>3 DEF PxInfoType
    <3> QED BY <3>1, <3>2, <3>4
  <2> QED BY <1>1, <2>1, <2>2, <2>3, <2>4 DEF LagInv, Terminal
<1>4. CASE EndQuad /\ pc' = "analyze"
  <2>1. pc = "write" /\ k' = k /\ (k = QuadSize \/ Left = 0)
    BY <1>4, LagTypes DEF EndQuad, writerVars
  <2>2. Copied' = Copied /\ Wait' = Wait
    BY <1>1, <1>4, <2>1 DEF Copied, Wait
  <2>3. LengthInv' /\ AliveInv' /\ WaitInv' /\ CountInv' /\ HeldInv'
    BY <1>1, <1>4, <2>1, <2>2 DEF LagInv, LengthInv, AliveInv, WaitInv, CountInv, HeldInv, Terminal
  <2> QED BY <1>1, <1>4, <2>1, <2>2, <2>3 DEF LagInv, Terminal
<1> QED BY <1>2, <1>3, <1>4 DEF Finish, WriteFails, EndQuad, Terminal

\* A turn of the loop ends: the Writer is one turn nearer to the end of its window,
\* or it had none.
LEMMA TurnEnds ==
    ASSUME IInv, WindowInv, LagInv, pc = "analyze"
    PROVE  /\ Wait \in Nat /\ Quads(Left) \in Nat /\ Quads(Left) <= Quads(Longest)
           /\ k > 0 => Quads(Left) = Wait - 1
           /\ k = 0 => Left = 0 /\ Wait = 0 /\ Quads(Left) = 0
           /\ k \in Nat /\ Left \in Nat /\ Copied = k
<1>1. Left \in 0 .. Longest /\ (k = QuadSize \/ Left = 0) /\ k \in Nat /\ k <= QuadSize
  BY LagTypes DEF LagInv, LengthInv
<1>2. Copied = k /\ Wait = Quads(Left + k)
  BY DEF Copied, Wait
<1>3. Left \in Nat /\ QuadSize \in 1 .. 4
  BY <1>1, LongestType
<1>4. Quads(Left) \in Nat /\ Quads(Left) <= Quads(Longest)
  BY <1>1, QuadsOfLongest
<1>5. CASE k = QuadSize
  <2>1. Quads(Left + QuadSize) = Quads(Left) + 1
    BY <1>3, QuadsOf
  <2> QED BY <1>2, <1>3, <1>4, <1>5, <2>1
<1>6. CASE k # QuadSize /\ k > 0
  <2>1. Left + k = k /\ k \in 1 .. QuadSize /\ Left = 0
    BY <1>1, <1>6
  <2>2. Quads(k) = 1 /\ Quads(0) = 0
    BY <1>1, <2>1, QuadsOf
  <2>3. Wait = 1 /\ Quads(Left) = 0
    BY <1>2, <2>1, <2>2
  <2> QED BY <1>1, <1>2, <1>4, <1>6, <2>1, <2>3
<1>7. CASE k = 0
  <2>1. Left = 0 /\ Left + k = 0
    BY <1>1, <1>3, <1>7
  <2>2. Quads(0) = 0
    BY QuadsOf
  <2>3. Wait = 0 /\ Quads(Left) = 0
    BY <1>2, <2>1, <2>2
  <2> QED BY <1>1, <1>2, <1>4, <1>7, <2>1, <2>3
<1> QED BY <1>1, <1>5, <1>6, <1>7

\* A turn without a chunk that is pushed
LEMMA LagIdle ==
    ASSUME IInv, WindowInv, LagInv, DrainsFirst, pc = "analyze", pc' = "pop",
           UNCHANGED <<pxFifo, pxCurr, k, pushes, seqFirst>>, toEmpty' => toEmpty
    PROVE  LagInv'
<1>1. Left' = Left /\ Copied' = 0 /\ Wait' = Quads(Left)
  <2>1. Left' = Left /\ Copied' = 0 /\ Left \in Nat
    BY TurnEnds DEF Left, Copied
  <2> QED BY <2>1 DEF Wait
<1>2. /\ Wait \in Nat /\ Wait' \in Nat /\ Wait' <= Wait
      /\ Left > 0 => Copied > 0
  <2>1. k \in Nat /\ (k > 0 \/ k = 0)
    BY LagTypes
  <2> QED BY <1>1, <2>1, TurnEnds
<1>3. LengthInv' /\ AliveInv'
  BY <1>1 DEF LagInv, LengthInv, AliveInv
<1>4. WaitInv'
  <2> SUFFICES ASSUME NEW j \in 1 .. Len(pxFifo)
               PROVE  (pushes - pxFifo[j].seqPos) + Wait' + (j - 1) * Quads(Longest) <= BufSize
    BY DEF WaitInv
  <2>1. (pushes - pxFifo[j].seqPos) + Wait + (j - 1) * Quads(Longest) <= BufSize
    BY DEF LagInv, WaitInv, Terminal
  <2>2. pushes - pxFifo[j].seqPos \in Int /\ (j - 1) * Quads(Longest) \in Int
    BY LagTypes, QuadsOfLongest
  <2> QED BY <1>2, <2>1, <2>2
<1>5. CountInv'
  BY DEF LagInv, CountInv, DrainsFirst, Terminal
<1>6. HeldInv'
  BY DEF HeldInv
<1>7. Left > 0 => (pushes - pxCurr.seqPos)' + Copied' <= BufSize
  BY <1>1, LagTypes DEF LagInv, AliveInv
<1> QED BY <1>1, <1>3, <1>4, <1>5, <1>6, <1>7 DEF LagInv

\* A chunk is pushed: the windows that wait are one chunk older, which the Writer's
\* turn makes up for unless it holds them back; then they are few.
LEMMA OldWindows ==
    ASSUME IInv, WindowInv, LagInv, Proportions, pc = "analyze", ~eof
    PROVE  /\ \A j \in 1 .. Len(pxFifo) :
                  ((pushes + 1) - pxFifo[j].seqPos) + Quads(Left) + (j - 1) * Quads(Longest) <= BufSize
           /\ Left > 0 => (pushes + 1) - pxCurr.seqPos <= BufSize
<1> DEFINE n == Len(pxFifo)
           wq == Quads(Longest)
           max == MaxPxChunks
<1>1. WaitInv /\ CountInv /\ HeldInv /\ LengthInv /\ (Left > 0 => (pushes - pxCurr.seqPos) + Copied <= BufSize)
  BY DEF LagInv, Terminal
<1>2. k \in Nat /\ pushes \in Nat /\ seqFirst \in Int /\ n \in Nat /\ pxCurr.seqPos \in Int
  BY LagTypes
<1>3. Left > 0 => (pushes + 1) - pxCurr.seqPos <= BufSize
  BY <1>1, <1>2, TurnEnds
<1>4. ASSUME NEW j \in 1 .. n
      PROVE  ((pushes + 1) - pxFifo[j].seqPos) + Quads(Left) + (j - 1) * wq <= BufSize
  <2> DEFINE age == pushes - pxFifo[j].seqPos
             before == (j - 1) * wq
  <2>0. wq \in Nat /\ max \in Nat /\ wq <= max /\ Longest \in Nat
    BY QuadsOfLongest, LongestType DEF Proportions
  <2>1. /\ age \in Int /\ (pushes + 1) - pxFifo[j].seqPos = age + 1
        /\ before \in Int /\ (n - j) * max \in Int /\ n * max \in Int
    <3>1. pxFifo[j].seqPos \in Int
      BY LagTypes
    <3>2. j \in Int
      OBVIOUS
    <3> HIDE DEF wq, n, max
    <3> QED BY <1>2, <2>0, <3>1, <3>2
  <2>2. CASE k > 0
    <3>1. age + Wait + before <= BufSize
      BY <1>1 DEF WaitInv
    <3>2. Wait \in Nat /\ Quads(Left) = Wait - 1
      BY <2>2, TurnEnds
    <3>3. age + 1 + Quads(Left) + before <= BufSize
      <4> HIDE DEF age, before
      <4> QED BY <2>1, <3>1, <3>2
    <3> QED BY <2>1, <3>3
  <2>3. CASE k = 0
    <3>1. Left = 0 /\ Quads(Left) = 0 /\ pxFifo # << >>
      BY <2>3, TurnEnds
    <3>2. ~toEmpty /\ n <= 2 * (1 + pxFifo[1].tx)
      BY <1>1, <2>3, <3>1 DEF HeldInv
    <3>3. age <= Longest + (n - j) * max + (pushes - seqFirst)
      BY <1>1, <3>2 DEF CountInv
    <3>4. pushes - seqFirst <= max
      BY <1>1 DEF LengthInv
    <3>5. (n - j) * max + before + max <= n * max
      <4> HIDE DEF wq, n, max
      <4> QED BY <1>2, <2>0, HeldSum
    <3>6. Longest + 1 + n * max <= BufSize
      <4> DEFINE hold == 2 * (1 + pxFifo[1].tx)
      <4>1. 1 \in 1 .. n
        OBVIOUS
      <4>2. pxFifo[1].tx \in Modes
        BY <1>1, <4>1 DEF LengthInv
      <4>3. pxFifo[1] \in PxInfoType
        BY <4>1, LagTypes
      <4>4. hold \in Nat
        BY <4>3 DEF PxInfoType
      <4>5. Longest + 1 + hold * max <= BufSize
        BY <4>2 DEF Proportions
      <4>6. n <= hold
        BY <3>2
      <4> HIDE DEF hold, n, max
      <4>7. n * max <= hold * max /\ hold * max \in Nat
        BY <1>2, <2>0, <4>4, <4>6, TimesMore
      <4> QED BY <2>0, <2>1, <4>5, <4>7
    <3>7. age + 1 + Quads(Left) + before <= BufSize
      <4> HIDE DEF age, before, n, max
      <4> QED BY <1>2, <2>0, <2>1, <3>1, <3>3, <3>4, <3>5, <3>6
    <3> QED BY <2>1, <3>7
  <2> QED BY <1>2, <2>2, <2>3
<1> QED BY <1>3, <1>4

\* A window that is queued is not longer than a pixel or a code.
LEMMA NewWindow ==
    ASSUME IInv, LobeInv, WindowInv, ~RangeFinder, pc \notin Terminal,
           NEW ch \in ChunkIn, InImage
    PROVE  /\ PxInfo(ch) \in PxInfoType /\ PxInfo(ch).tx \in Modes
           /\ PxInfo(ch).seqPos \in Int /\ pushes - PxInfo(ch).seqPos <= Longest
           /\ PxInfo(ch).seqLast - PxInfo(ch).seqPos \in 1 .. Longest
<1> DEFINE px == PxInfo(ch)
           es == ExtraStart(ch)
           ee == ExtraEnd(ch)
           f == FirstSeq
<1>1. /\ f \in Int /\ pushes \in Nat /\ PxChunks \in Nat /\ PxChunks <= MaxPxChunks
      /\ pushes - f <= PxChunks
  BY OpenPixel
<1>2. es \in Nat /\ ee \in Nat
  BY WindowParts
<1>3. es + ee = ExtraChunks
  <2>1. ExtraChunks \in Nat
    BY <1>1, CodeChunksNat DEF ExtraChunks
  <2>2. SmallLobe \in Int
    BY <2>1 DEF SmallLobe
  <2> QED BY <2>1, <2>2 DEF ExtraStart, ExtraEnd, BigLobe
<1>4. PxChunks + ExtraChunks <= Longest
  BY <1>1, CodeChunksNat, LongestType DEF ExtraChunks
<1>5. px \in PxInfoType /\ Fits(px)
  BY PxInfoIsTyped, QueuedFits
<1>6. px.seqPos = f - es /\ px.seqLast = pushes + ee /\ px.tx = ch.tx /\ ch.tx \in Modes
  BY DEF PxInfo, ChunkIn
<1> HIDE DEF px, es, ee, f
<1>7. px.seqPos < px.seqLast
  <2>1. px.seqPos <= px.seqStart /\ px.seqStart < px.seqEnd /\ px.seqEnd <= px.seqLast
    BY <1>5 DEF Fits
  <2>2. px.seqPos \in Int /\ px.seqStart \in Int /\ px.seqEnd \in Int /\ px.seqLast \in Int
    BY <1>5 DEF PxInfoType
  <2> QED BY <2>1, <2>2
<1>8. ExtraChunks = es + ee /\ Longest \in Nat
  BY <1>3, LongestType
<1> QED BY <1>1, <1>2, <1>4, <1>5, <1>6, <1>7, <1>8 DEF px

\* What the actions that push a chunk have in common
LEMMA PushFacts ==
    ASSUME IInv, LobeInv, StopInv, WindowInv, ~RangeFinder, NEW ch \in ChunkIn,
           \/ ContinuePixel(ch) \/ QueuePixel(ch) \/ QueueFails(ch) \/ DropPixel(ch)
    PROVE  /\ pc = "analyze" /\ ~eof /\ pc \notin Terminal
           /\ pushes' = pushes + 1 /\ UNCHANGED <<pxCurr, k, Left>>
           /\ seqFirst' \in Int /\ pushes' - seqFirst' <= MaxPxChunks
           /\ pc' = "pop" \/ (QueueFails(ch) /\ pc' \in Terminal)
<1>1. Analyze(ch) /\ PushChunk(ch) /\ (pc' = "pop" \/ (QueueFails(ch) /\ pc' \in Terminal))
  <2>1. CASE QueueFails(ch)
    <3>1. Analyze(ch) /\ PushChunk(ch) /\ pc' \in Terminal
      BY <2>1 DEF QueueFails, Terminal
    <3> QED BY <2>1, <3>1
  <2>2. CASE ContinuePixel(ch) \/ QueuePixel(ch) \/ DropPixel(ch)
    BY <2>2 DEF ContinuePixel, QueuePixel, DropPixel
  <2> QED BY <2>1, <2>2
<1>2. pc = "analyze" /\ pc \notin Terminal /\ i < NChunks /\ ~Ignored /\ UNCHANGED <<pxCurr, k>>
  BY <1>1 DEF Analyze, TakeChunk, writerVars, Terminal
<1>3. ~eof
  <2>1. i \in Nat /\ NChunks \in Nat
    BY SizesAssumption DEF IInv, ControlOK
  <2> QED BY <1>2, <2>1 DEF StopInv, Ignored
<1>4. pushes' = pushes + 1 /\ pushes \in Nat
  BY <1>1, LagTypes DEF PushChunk
<1>5. Left' = Left
  BY <1>2 DEF Left
<1>6. seqFirst' \in Int /\ pushes' - seqFirst' <= MaxPxChunks
  <2>1. CASE ContinuePixel(ch)
    <3>1. seqFirst' = FirstSeq /\ PxChunks # MaxPxChunks
      BY <2>1 DEF ContinuePixel, NewPixel
    <3>2. FirstSeq \in Int /\ PxChunks \in Nat /\ PxChunks <= MaxPxChunks /\ pushes - FirstSeq <= PxChunks
      BY <1>2, OpenPixel
    <3>3. MaxPxChunks \in Nat
      BY LongestType
    <3> QED BY <1>4, <3>1, <3>2, <3>3
  <2>2. CASE QueuePixel(ch) \/ QueueFails(ch) \/ DropPixel(ch)
    <3>1. ChunksToMove(ch) = 0
      BY DEF ChunksToMove
    <3>2. seqFirst' = pushes
      BY <1>4, <2>2, <3>1 DEF QueuePixel, QueueFails, DropPixel
    <3> QED BY <1>4, <3>2, LongestType
  <2> QED BY <2>1, <2>2
<1> QED BY <1>1, <1>2, <1>3, <1>4, <1>5, <1>6

\* A chunk is pushed that queues no pixel.
LEMMA LagPush ==
    ASSUME IInv, LobeInv, StopInv, WindowInv, LagInv, Proportions, DrainsFirst, ~RangeFinder,
           NEW ch \in ChunkIn, ContinuePixel(ch) \/ DropPixel(ch)
    PROVE  LagInv'
<1> DEFINE wq == Quads(Longest)
<1>1. /\ pc = "analyze" /\ ~eof /\ pc \notin Terminal /\ pc' = "pop"
      /\ pushes' = pushes + 1 /\ UNCHANGED <<pxFifo, pxCurr, k, Left>>
      /\ seqFirst' \in Int /\ pushes' - seqFirst' <= MaxPxChunks
  BY PushFacts DEF ContinuePixel, DropPixel
<1>2. /\ \A j \in 1 .. Len(pxFifo) :
             ((pushes + 1) - pxFifo[j].seqPos) + Quads(Left) + (j - 1) * wq <= BufSize
      /\ Left > 0 => (pushes + 1) - pxCurr.seqPos <= BufSize
  BY <1>1, OldWindows
<1>3. Copied' = 0 /\ Wait' = Quads(Left) /\ Quads(Left) \in Nat /\ wq \in Nat
  <2>1. Copied' = 0 /\ Left \in Nat /\ Quads(Left) \in Nat
    BY <1>1, TurnEnds DEF Copied
  <2>2. Left' + Copied' = Left
    BY <1>1, <2>1
  <2> QED BY <2>1, <2>2, QuadsOfLongest DEF Wait, Quads
<1>4. LengthInv'
  BY <1>1 DEF LagInv, LengthInv
<1>5. WaitInv'
  BY <1>1, <1>2, <1>3 DEF WaitInv
<1>6. ASSUME NEW j \in 1 .. Len(pxFifo)
      PROVE  (pushes + 1) - pxFifo[j].seqPos <= BufSize
  <2>1. (j - 1) * wq \in Nat
    BY <1>3, LagTypes
  <2>2. (pushes + 1) - pxFifo[j].seqPos \in Int
    BY LagTypes
  <2> HIDE DEF wq
  <2> QED BY <1>2, <1>3, <2>1, <2>2
<1>7. AliveInv'
  BY <1>1, <1>2, <1>6 DEF AliveInv
<1>8. CountInv'
  <2> SUFFICES ASSUME ~toEmpty', NEW j \in 1 .. Len(pxFifo)
               PROVE  (pushes + 1) - pxFifo[j].seqPos
                          <= Longest + (Len(pxFifo) - j) * MaxPxChunks + (pushes' - seqFirst')
    BY <1>1 DEF CountInv
  <2>1. ~toEmpty /\ seqFirst' = seqFirst
    BY <1>1, LagTypes DEF DrainsFirst
  <2>2. pushes - pxFifo[j].seqPos
            <= Longest + (Len(pxFifo) - j) * MaxPxChunks + (pushes - seqFirst)
    BY <1>1, <2>1 DEF LagInv, CountInv
  <2>3. /\ pushes \in Int /\ pxFifo[j].seqPos \in Int /\ seqFirst \in Int
        /\ Longest \in Int /\ (Len(pxFifo) - j) * MaxPxChunks \in Int
    BY LagTypes, LongestType
  <2> QED BY <1>1, <2>1, <2>2, <2>3
<1>9. HeldInv'
  BY <1>1 DEF HeldInv
<1>10. Left' > 0 => (pushes - pxCurr.seqPos)' + Copied' <= BufSize
  BY <1>1, <1>2, <1>3, LagTypes
<1> QED BY <1>1, <1>4, <1>5, <1>7, <1>8, <1>9, <1>10 DEF LagInv

\* A chunk is pushed that queues a pixel: it is as old as its window is long, and
\* waits for the windows before it.
LEMMA LagQueue ==
    ASSUME IInv, LobeInv, StopInv, WindowInv, LagInv, Proportions, DrainsFirst, ~RangeFinder,
           NEW ch \in ChunkIn, QueuePixel(ch) \/ QueueFails(ch)
    PROVE  LagInv'
<1> DEFINE n == Len(pxFifo)
           wq == Quads(Longest)
           max == MaxPxChunks
           px == PxInfo(ch)
<1>1. /\ pc = "analyze" /\ ~eof /\ pc \notin Terminal /\ InImage
      /\ pushes' = pushes + 1 /\ UNCHANGED <<pxCurr, k, Left>>
      /\ pxFifo' = Append(pxFifo, px) /\ seqFirst' = pushes
      /\ pushes' - seqFirst' <= max
      /\ (pc' = "pop" /\ QueuePixel(ch)) \/ pc' \in Terminal
  BY PushFacts DEF QueuePixel, QueueFails
<1>2. /\ \A j \in 1 .. n : ((pushes + 1) - pxFifo[j].seqPos) + Quads(Left) + (j - 1) * wq <= BufSize
      /\ Left > 0 => (pushes + 1) - pxCurr.seqPos <= BufSize
  BY <1>1, OldWindows
<1>3. /\ px \in PxInfoType /\ px.tx \in Modes /\ px.seqPos \in Int /\ pushes - px.seqPos <= Longest
      /\ px.seqLast - px.seqPos \in 1 .. Longest
  BY <1>1, NewWindow
<1>4. /\ n \in Nat /\ Len(pxFifo') = n + 1 /\ pxFifo'[n + 1] = px
      /\ \A j \in 1 .. n : pxFifo'[j] = pxFifo[j]
      /\ \A j \in 1 .. n + 1 : j \in 1 .. n \/ j = n + 1
  BY <1>1, <1>3, LagTypes
<1>5. /\ Quads(Left) \in Nat /\ wq \in Nat /\ Quads(Left) <= wq /\ Longest \in Nat /\ max \in Nat
      /\ pushes \in Nat /\ PxFifoCap \in Nat
      /\ Longest + 1 + PxFifoCap * wq <= BufSize /\ PxFifoCap * wq \in Nat
  <2>1. Quads(Left) \in Nat /\ Quads(Left) <= wq
    BY <1>1, TurnEnds
  <2>2. wq \in Nat /\ Longest \in Nat /\ max \in Nat /\ PxFifoCap \in Nat /\ pushes \in Nat
    BY QuadsOfLongest, LongestType, LagTypes
  <2>3. Longest + 1 + PxFifoCap * wq <= BufSize
    BY DEF Proportions
  <2> HIDE DEF wq, max
  <2> QED BY <2>1, <2>2, <2>3
<1>6. LengthInv'
  <2>1. LengthInv
    BY DEF LagInv
  <2>2. pc' # "analyze"
    BY <1>1 DEF Terminal
  <2> HIDE DEF n, px
  <2> QED BY <1>1, <1>3, <1>4, <2>1, <2>2 DEF LengthInv
<1>7. ASSUME NEW j \in 1 .. n
      PROVE  (pushes + 1) - pxFifo[j].seqPos <= BufSize
  <2> DEFINE before == (j - 1) * wq
             age == (pushes + 1) - pxFifo[j].seqPos
  <2>1. before \in Nat
    <3>1. j - 1 \in Nat
      BY LagTypes
    <3> HIDE DEF wq
    <3> QED BY <1>5, <3>1
  <2>2. age \in Int
    BY LagTypes
  <2>3. age + Quads(Left) + before <= BufSize
    BY <1>2
  <2> HIDE DEF age, before
  <2>4. age <= BufSize
    BY <1>5, <2>1, <2>2, <2>3
  <2> QED BY <2>4 DEF age
<1>8. AliveInv'
  <2>1. (pushes + 1) - px.seqPos <= BufSize
    BY <1>3, <1>5
  <2> HIDE DEF n, px
  <2> QED BY <1>1, <1>2, <1>4, <1>7, <2>1 DEF AliveInv
<1>9. CASE pc' \in Terminal
  BY <1>6, <1>8, <1>9 DEF LagInv
<1>10. CASE pc' = "pop" /\ QueuePixel(ch)
  <2>1. Copied' = 0 /\ Wait' = Quads(Left) /\ n < PxFifoCap
    <3>1. Copied' = 0 /\ Left \in Nat
      BY <1>1, <1>10, TurnEnds DEF Copied
    <3>2. Left' + Copied' = Left
      BY <1>1, <3>1
    <3> QED BY <1>10, <3>1, <3>2 DEF Wait, Quads, QueuePixel
  <2>2. WaitInv'
    <3>1. (n + 1) * wq <= PxFifoCap * wq /\ ((n + 1) - 1) * wq + wq = (n + 1) * wq
          /\ ((n + 1) - 1) * wq \in Int /\ (n + 1) * wq \in Int
      <4>1. n + 1 \in Nat /\ n + 1 <= PxFifoCap
        BY <1>4, <1>5, <2>1
      <4> HIDE DEF n, wq
      <4> QED BY <1>4, <1>5, <4>1, TimesMore
    <3>2. ((pushes + 1) - px.seqPos) + Quads(Left) + ((n + 1) - 1) * wq <= BufSize
      <4> DEFINE a == ((n + 1) - 1) * wq
                 b == (n + 1) * wq
      <4> HIDE DEF a, b, wq, px
      <4> QED BY <1>3, <1>5, <3>1 DEF a, b
    <3>3. ASSUME NEW j \in 1 .. n + 1
          PROVE  ((pushes + 1) - pxFifo'[j].seqPos) + Quads(Left) + (j - 1) * wq <= BufSize
      <4> HIDE DEF n, wq, px
      <4> QED BY <1>2, <1>4, <3>2
    <3> HIDE DEF n, px
    <3> QED BY <1>1, <1>4, <2>1, <3>3 DEF WaitInv
  <2>3. CountInv'
    <3> SUFFICES ASSUME NEW j \in 1 .. n + 1
                 PROVE  (pushes + 1) - pxFifo'[j].seqPos <= Longest + ((n + 1) - j) * max + 1
      <4>1. pushes' - seqFirst' = 1
        BY <1>1, <1>5
      <4> HIDE DEF n, px
      <4> QED BY <1>1, <1>4, <4>1 DEF CountInv
    <3>1. CASE j = n + 1
      <4> DEFINE a == ((n + 1) - j) * max
      <4>1. a = 0
        BY <1>4, <1>5, <3>1
      <4>2. pxFifo'[j] = px
        BY <1>4, <3>1
      <4> HIDE DEF n, px, a
      <4> QED BY <1>3, <1>5, <4>1, <4>2 DEF a
    <3>2. CASE j \in 1 .. n
      <4>1. ~toEmpty
        BY <1>10, <3>2 DEF DrainsFirst, QueuePixel
      <4>2. pushes - pxFifo[j].seqPos <= Longest + (n - j) * max + (pushes - seqFirst)
        BY <1>1, <3>2, <4>1 DEF LagInv, CountInv
      <4>3. pushes - seqFirst <= max /\ seqFirst \in Int /\ pxFifo[j].seqPos \in Int
        BY <3>2, LagTypes DEF LagInv, LengthInv
      <4>4. ((n + 1) - j) * max = (n - j) * max + max /\ (n - j) * max \in Int
        BY <1>4, <1>5
      <4>5. (pushes + 1) - pxFifo[j].seqPos <= Longest + (n - j) * max + max + 1
        <5> DEFINE a == (n - j) * max
        <5> HIDE DEF a, n, max
        <5> QED BY <1>5, <4>2, <4>3, <4>4 DEF a
      <4>6. pxFifo'[j] = pxFifo[j]
        BY <1>4, <3>2
      <4> DEFINE a == (n - j) * max
                 b == ((n + 1) - j) * max
      <4> HIDE DEF a, b, n, max, px
      <4> QED BY <1>5, <4>3, <4>4, <4>5, <4>6 DEF a, b
    <3> QED BY <1>4, <3>1, <3>2
  <2>4. HeldInv'
    BY <1>10 DEF HeldInv
  <2>5. Left' > 0 => (pushes - pxCurr.seqPos)' + Copied' <= BufSize
    BY <1>1, <1>2, <2>1, LagTypes
  <2> QED BY <1>6, <1>8, <2>2, <2>3, <2>4, <2>5 DEF LagInv
<1> QED BY <1>1, <1>9, <1>10

\* The age of the windows through all steps
LEMMA LagStep ==
    ASSUME ~RangeFinder, Proportions
    PROVE  IInv /\ LobeInv /\ StopInv /\ WindowInv /\ LagInv /\ [Next]_vars /\ [DrainsFirst]_vars => LagInv'
<1> SUFFICES ASSUME IInv, LobeInv, StopInv, WindowInv, LagInv, [Next]_vars, [DrainsFirst]_vars
             PROVE  LagInv'
  OBVIOUS
<1>1. CASE UNCHANGED vars
  BY <1>1 DEF vars, frameVars, writerVars, ringVars, pixelVars, LagInv, LengthInv, AliveInv, WaitInv,
              CountInv, HeldInv, Left, Copied, Wait, Quads
<1>2. CASE Writer
  BY <1>2, LagPop, LagWrite, LagStage DEF Writer
<1>3. ASSUME DrainsFirst, EndOfInput \/ WaitForChunk PROVE LagInv'
  <2>1. /\ pc = "analyze" /\ pc' = "pop"
        /\ UNCHANGED <<pxFifo, pxCurr, k, pushes, seqFirst>> /\ (toEmpty' => toEmpty)
    BY <1>3 DEF EndOfInput, WaitForChunk, ringVars, writerVars, pixelVars
  <2> QED BY <1>3, <2>1, LagIdle
<1>4. ASSUME DrainsFirst, NEW ch \in ChunkIn, IgnoreChunk(ch) \/ OutsideRoi(ch) PROVE LagInv'
  <2>1. /\ pc = "analyze" /\ pc' = "pop"
        /\ UNCHANGED <<pxFifo, pxCurr, k, pushes, seqFirst>> /\ (toEmpty' => toEmpty)
    <3>1. CASE IgnoreChunk(ch)
      BY <3>1 DEF IgnoreChunk, TakeChunk, ringVars, writerVars, pixelVars
    <3>2. CASE OutsideRoi(ch)
      BY <3>2 DEF OutsideRoi, Analyze, TakeChunk, ringVars, writerVars
    <3> QED BY <1>4, <3>1, <3>2
  <2> QED BY <1>4, <2>1, LagIdle
<1>5. ASSUME DrainsFirst, NEW ch \in ChunkIn, AnalyzeChunk(ch) PROVE LagInv'
  BY <1>4, <1>5, LagPush, LagQueue DEF AnalyzeChunk
<1> QED BY <1>1, <1>2, <1>3, <1>5 DEF Next, Analyzer, Ended

\* No window that is still to be copied has lost a chunk.
LEMMA LagInvImpliesNotOverwritten == IInv /\ WindowInv /\ LagInv => NotOverwritten
<1> SUFFICES ASSUME IInv, WindowInv, LagInv, NEW px \in Pending PROVE pushes - px.seqPos <= BufSize
  BY DEF NotOverwritten
<1>1. CASE px \in Queued
  <2>1. PICK j \in 1 .. Len(pxFifo) : px = pxFifo[j]
    BY <1>1 DEF Queued
  <2> QED BY <2>1 DEF LagInv, AliveInv
<1>2. CASE ~DoneCurrent /\ px = pxCurr
  <2>1. Left > 0
    BY <1>2, LagTypes DEF LagInv, LengthInv
  <2> QED BY <1>2, <2>1 DEF LagInv, AliveInv
<1> QED BY <1>1, <1>2 DEF Pending

\* The ring never refuses a chunk, and yet no window loses one: if the ring is large
\* enough for the pixels that are held back and for a full FIFO of windows, and no
\* chunks are skipped while pixels wait, whatever else the scan does.
THEOREM NeverOverwritten ==
    ASSUME ~RangeFinder, Proportions
    PROVE  Spec /\ [][DrainsFirst]_vars => []NotOverwritten
<1>1. Init => LobeInv /\ StopInv
  BY DEF Init, LobeInv, StopInv
<1> QED BY <1>1, IInvHolds, LobeStep, StopStep, WindowInit, WindowStep, LagInit, LagStep,
           LagInvImpliesNotOverwritten, PTL DEF Spec

-----------------------------------------------------------------------------
(* A scan that stays inside the image *)

\* Every pixel of the scan is a pixel of the image.
InsideImage ==
    /\ \A x \in Xs, xx \in Xs : (x + xx + 4) \div 8 \in 0 .. ImgH - 1
    /\ Ys \subseteq 0 .. ImgV - 1

\* Only the first chunk belongs to no pixel, so that nothing waits when it sets toEmpty;
\* from then on pixels lie one after the other.
InsideInv ==
    /\ (toEmpty \/ ~an.prevInRoi) /\ pc \notin Terminal => pxFifo = << >>
    /\ an.prevInRoi => an.p0 \in Xs /\ an.pLast \in Xs /\ an.pPrev.y \in Ys
    /\ ~an.prevInRoi => an.pPrev.y = P0.y

\* The region of interest is larger than the image.
LEMMA InsideIsInRoi ==
    ASSUME InsideImage, NEW ch \in ChunkIn
    PROVE  InRoi(ch) /\ ch.y # P0.y /\ ch.x \in Xs /\ ch.y \in Ys
<1>1. ch.x \in Xs /\ ch.y \in Ys /\ ch.tx \in 0 .. 3
  BY ImageAssumption DEF ChunkIn
<1>2. ch.x \in Int /\ ch.y \in Int /\ ImgH \in Nat /\ ImgV \in Nat
  BY <1>1, ImageAssumption
<1>3. (ch.x + ch.x + 4) \div 8 \in 0 .. ImgH - 1 /\ ch.y \in 0 .. ImgV - 1
  BY <1>1 DEF InsideImage
<1>4. -4 <= ch.x /\ ch.x <= ImgH * 4
  BY <1>2, <1>3
<1>5. MaxSidelobeX(ch) \in Nat /\ MaxSidelobeX(ch) >= 4 /\ MaxSidelobeY(ch) \in Nat
  BY <1>1 DEF MaxSidelobeX, MaxSidelobeY
<1> QED BY <1>1, <1>2, <1>3, <1>4, <1>5 DEF InRoi, P0

\* An open pixel is one of the image.
LEMMA InsideIsInImage ==
    ASSUME IInv, LobeInv, WindowInv, ~RangeFinder, InsideImage, InsideInv,
           pc \notin Terminal, an.prevInRoi
    PROVE  InImage
<1>1. an.p0 \in Xs /\ an.pLast \in Xs /\ an.pPrev.y \in Ys
  BY DEF InsideInv
<1>2. PixelX \in 0 .. ImgH - 1 /\ an.pPrev.y \in 0 .. ImgV - 1
  BY <1>1 DEF InsideImage, PixelX
<1>3. /\ FirstSeq = seqFirst /\ FirstSlot = FirstSeq % BufSize /\ pushIndex = pushes % BufSize
      /\ seqFirst < pushes /\ pushes - seqFirst <= PxChunks /\ PxChunks <= MaxPxChunks
      /\ PxChunks \in Nat /\ seqFirst \in Int /\ pushes \in Nat
  BY OpenPixel, LagTypes DEF FirstSeq, WindowInv, OpenInv
<1>4. pushes - seqFirst < BufSize
  BY <1>3, LongestType, CapacityAssumption, SizesAssumption
<1>5. FirstSlot # pushIndex
  <2>1. pushes \in Int /\ seqFirst <= pushes /\ seqFirst # pushes
    BY <1>3
  <2>2. seqFirst % BufSize # pushes % BufSize
    BY <1>3, <1>4, <2>1, SlotsDiffer
  <2> QED BY <1>3, <2>2
<1> QED BY <1>2, <1>5 DEF InImage

LEMMA InsideInit == Init => InsideInv
BY DEF Init, InsideInv

\* The locals after a chunk that is pushed, in the parts that say where the pixel is
LEMMA NextLocals ==
    ASSUME IInv, NEW ch \in ChunkIn
    PROVE  /\ ContinuePixel(ch) =>
                  /\ an'.prevInRoi /\ an'.p0 = an.p0 /\ an'.pLast = ch.x /\ an'.pPrev = an.pPrev
           /\ QueuePixel(ch) \/ DropPixel(ch) =>
                  /\ an'.prevInRoi /\ an'.p0 = ch.x /\ an'.pLast = ch.x /\ an'.pPrev.y = ch.y
<1>1. /\ AfterChunk(ch) \in LocalsType /\ AfterChunk(ch).prevInRoi
      /\ AfterChunk(ch).p0 = an.p0 /\ AfterChunk(ch).pLast = ch.x
      /\ AfterChunk(ch).pPrev = an.pPrev
  BY AfterChunkTyped DEF AfterChunk, IInv, AnOK, LocalsType
<1>2. ASSUME ContinuePixel(ch)
      PROVE  an'.prevInRoi /\ an'.p0 = an.p0 /\ an'.pLast = ch.x /\ an'.pPrev = an.pPrev
  <2>1. an' = [AfterChunk(ch) EXCEPT !.idxFirst = FirstSlot, !.n = PxChunks]
    BY <1>2 DEF ContinuePixel
  <2> QED BY <1>1, <2>1 DEF LocalsType
<1>3. ASSUME QueuePixel(ch) \/ DropPixel(ch)
      PROVE  an'.prevInRoi /\ an'.p0 = ch.x /\ an'.pLast = ch.x /\ an'.pPrev.y = ch.y
  <2>1. PICK first : an' = StartPixel(ch, first)
    BY <1>3 DEF QueuePixel, DropPixel
  <2> QED BY <1>1, <2>1 DEF StartPixel, LocalsType
<1> QED BY <1>2, <1>3

\* What a chunk of such a scan does
LEMMA InsideChunk ==
    ASSUME ~RangeFinder, InsideImage, IInv, LobeInv, WindowInv, InsideInv,
           NEW ch \in ChunkIn, AnalyzeChunk(ch)
    PROVE  InsideInv' /\ DrainsFirst
<1>1. InRoi(ch) /\ ch.y # P0.y /\ ch.x \in Xs /\ ch.y \in Ys
  BY InsideIsInRoi
<1>2. pc \notin Terminal
  BY DEF AnalyzeChunk, IgnoreChunk, OutsideRoi, ContinuePixel, QueuePixel, QueueFails, DropPixel,
         Analyze, TakeChunk, Terminal
<1>3. CASE IgnoreChunk(ch)
  BY <1>2, <1>3 DEF IgnoreChunk, ringVars, pixelVars, InsideInv, DrainsFirst
<1>4. CASE ContinuePixel(ch)
  <2>1. an.prevInRoi
    BY <1>1, <1>4 DEF ContinuePixel, NewPixel, InsideInv
  <2>2. seqFirst' = seqFirst /\ UNCHANGED <<pxFifo, toEmpty>>
    BY <1>4, <2>1 DEF ContinuePixel, FirstSeq
  <2>3. an'.prevInRoi /\ an'.p0 = an.p0 /\ an'.pLast = ch.x /\ an'.pPrev = an.pPrev
    BY <1>4, NextLocals
  <2> QED BY <1>1, <1>2, <2>1, <2>2, <2>3 DEF InsideInv, DrainsFirst
<1>5. CASE DropPixel(ch)
  <2>1. ~an.prevInRoi
    BY <1>2, <1>5, InsideIsInImage DEF DropPixel
  <2>2. pxFifo = << >> /\ pxFifo' = pxFifo
    BY <1>2, <1>5, <2>1 DEF InsideInv, DropPixel
  <2>3. an'.prevInRoi /\ an'.p0 = ch.x /\ an'.pLast = ch.x /\ an'.pPrev.y = ch.y
    BY <1>5, NextLocals
  <2> QED BY <1>1, <2>2, <2>3 DEF InsideInv, DrainsFirst
<1>6. CASE QueuePixel(ch)
  <2>1. ~toEmpty' /\ pxFifo' = Append(pxFifo, PxInfo(ch)) /\ (toEmpty => pxFifo = << >>)
    BY <1>2, <1>6 DEF InsideInv, QueuePixel
  <2>2. an'.prevInRoi /\ an'.p0 = ch.x /\ an'.pLast = ch.x /\ an'.pPrev.y = ch.y
    BY <1>6, NextLocals
  <2>3. Len(pxFifo') > Len(pxFifo)
    BY <2>1, PxInfoIsTyped, LagTypes
  <2> QED BY <1>1, <2>1, <2>2, <2>3 DEF InsideInv, DrainsFirst
<1>7. CASE QueueFails(ch)
  <2>1. pc' \in Terminal /\ UNCHANGED <<an, toEmpty>> /\ pxFifo' = Append(pxFifo, PxInfo(ch))
    BY <1>7 DEF QueueFails, Terminal
  <2>2. Len(pxFifo') > Len(pxFifo)
    BY <2>1, PxInfoIsTyped, LagTypes
  <2> QED BY <2>1, <2>2 DEF InsideInv, DrainsFirst
<1> QED BY <1>1, <1>3, <1>4, <1>5, <1>6, <1>7 DEF AnalyzeChunk, OutsideRoi

LEMMA InsideStep ==
    ASSUME ~RangeFinder, InsideImage
    PROVE  IInv /\ LobeInv /\ WindowInv /\ InsideInv /\ [Next]_vars => InsideInv' /\ [DrainsFirst]_vars
<1> SUFFICES ASSUME IInv, LobeInv, WindowInv, InsideInv, [Next]_vars
             PROVE  InsideInv' /\ [DrainsFirst]_vars
  OBVIOUS
<1>1. CASE UNCHANGED vars
  BY <1>1 DEF vars, pixelVars, InsideInv
<1>2. CASE PopPixel
  <2>1. /\ pxFifo # << >> /\ pxFifo' = Tail(pxFifo) /\ pc \notin Terminal
        /\ UNCHANGED <<an, toEmpty, seqFirst>>
    BY <1>2 DEF PopPixel, MayPop, pixelVars, Terminal
  <2> QED BY <2>1 DEF InsideInv, DrainsFirst
<1>3. CASE \/ Finish \/ KeepPixel \/ WriteChunk \/ WriteFails \/ EndQuad
           \/ EndOfInput \/ WaitForChunk
  <2>1. UNCHANGED <<an, toEmpty, seqFirst, pxFifo>> /\ pc \notin Terminal
    BY <1>3 DEF Finish, KeepPixel, WriteChunk, WriteFails, EndQuad, MoreToWrite, EndOfInput,
                WaitForChunk, pixelVars, Terminal
  <2> QED BY <2>1 DEF InsideInv, DrainsFirst
<1>4. ASSUME NEW ch \in ChunkIn, AnalyzeChunk(ch) PROVE InsideInv' /\ DrainsFirst
  BY <1>4, InsideChunk
<1> QED BY <1>1, <1>2, <1>3, <1>4 DEF Next, Writer, Analyzer, Ended

\* The same for a scan of which nothing is assumed but that it stays inside the image,
\* in whatever order it goes through the pixels.
THEOREM InsideNeverOverwritten ==
    ASSUME ~RangeFinder, Proportions, InsideImage
    PROVE  Spec => []NotOverwritten
<1>1. Init => LobeInv
  BY DEF Init, LobeInv
<1>2. Spec => [][DrainsFirst]_vars
  BY <1>1, IInvHolds, LobeStep, WindowInit, WindowStep, InsideInit, InsideStep, PTL DEF Spec
<1> QED BY <1>2, NeverOverwritten, PTL

-----------------------------------------------------------------------------
(* Chunks that are not those meant do not go unnoticed *)

\* The first chunk that is kept is not the second chunk of the input: a slot that is
\* not written yet reads as chunk 0, whose neighbour that would be.
FirstKept == pushes = 0 /\ pushes' = 1 => i # 1

\* What is in the ring: a slot is unwritten or holds one of the chunks that belong
\* there, the latest BufSize chunks are there, and input numbers grow with push numbers.
Unwritten(s) == ring[s].id = 0 /\ ring[s].seq = -BufSize
Holds(s) ==
    /\ ring[s].seq \in 0 .. pushes - 1 /\ s = ring[s].seq % BufSize
    /\ ring[s].id \in 0 .. i - 1
    /\ ring[s].seq = 0 => ring[s].id # 1
ChunksInv ==
    /\ \A s \in Slots : Unwritten(s) \/ Holds(s)
    /\ \A q \in Nat : pushes - BufSize <= q /\ q < pushes => ring[q % BufSize].seq = q
    /\ \A s \in Slots, t \in Slots :
           0 <= ring[s].seq /\ ring[s].seq < ring[t].seq => ring[s].id < ring[t].id

\* A pixel begins at a chunk that was pushed.
PushedInv ==
    /\ an.prevInRoi /\ pc \notin Terminal => seqFirst >= 0
    /\ \A j \in 1 .. Len(pxFifo) : pxFifo[j].seqStart >= 0 /\ pxFifo[j].seqEnd <= pushes
    /\ Left > 0 => pushes > 0 /\ pxCurr.seqLast > 0

\* Copying a wrong chunk fails, and so does going on to a chunk that is not there yet.
ReportInv ==
    /\ stale => failed
    /\ Left > 0 /\ pxCurr.seqPos >= pushes => failed

LEMMA ReportInit == Init => ChunksInv /\ PushedInv /\ ReportInv
<1> SUFFICES ASSUME Init PROVE ChunksInv /\ PushedInv /\ ReportInv
  OBVIOUS
<1>1. Left = 0 /\ Len(pxFifo) = 0 /\ pushes = 0 /\ ~an.prevInRoi /\ ~stale
  BY DEF Init, Left, NoPixel
<1>2. \A s \in Slots : ring[s].id = 0 /\ ring[s].seq = -BufSize /\ -BufSize < 0
  BY RingSize DEF Init
<1>3. ChunksInv
  BY <1>1, <1>2, RingSize DEF ChunksInv, Unwritten
<1> QED BY <1>1, <1>3 DEF PushedInv, ReportInv

\* A chunk that is pushed takes the place of the oldest.
LEMMA ChunksPush ==
    ASSUME IInv, WindowInv, ChunksInv, FirstKept, NEW ch \in ChunkIn, PushChunk(ch), i' = i + 1
    PROVE  ChunksInv'
<1>1. /\ ring \in [Slots -> [id : Nat, off : 0 .. CodeLen - 1, seq : Int]]
      /\ pushIndex \in Slots /\ pushes \in Nat /\ i \in Nat
      /\ pushIndex = pushes % BufSize
  BY DEF IInv, RingOK, ControlOK, WindowInv, OpenInv
<1>2. /\ pushes' = pushes + 1
      /\ ring'[pushIndex].id = i /\ ring'[pushIndex].seq = pushes
      /\ \A s \in Slots : s # pushIndex => ring'[s] = ring[s]
  BY <1>1 DEF PushChunk
<1>3. ASSUME NEW s \in Slots PROVE (Unwritten(s) \/ Holds(s))'
  <2>1. CASE s = pushIndex
    BY <1>1, <1>2, <2>1 DEF Holds, FirstKept
  <2>2. CASE s # pushIndex
    <3>1. ring'[s] = ring[s] /\ (Unwritten(s) \/ Holds(s))
      BY <1>2, <2>2 DEF ChunksInv
    <3>2. Unwritten(s) => Unwritten(s)'
      BY <3>1 DEF Unwritten
    <3>3. Holds(s) => Holds(s)'
      BY <1>1, <1>2, <3>1 DEF Holds
    <3> QED BY <3>1, <3>2, <3>3
  <2> QED BY <2>1, <2>2
<1>4. ASSUME NEW q \in Nat, pushes' - BufSize <= q, q < pushes'
      PROVE  ring'[q % BufSize].seq = q
  <2>1. CASE q = pushes
    BY <1>1, <1>2, <2>1
  <2>2. CASE q # pushes
    <3>1. q < pushes /\ pushes - BufSize <= q /\ pushes - q < BufSize
      BY <1>1, <1>2, <1>4, <2>2, RingSize
    <3>2. q % BufSize # pushes % BufSize /\ q % BufSize \in Slots
      <4>1. q \in Int /\ pushes \in Int /\ q <= pushes /\ q # pushes
        BY <1>1, <2>2, <3>1
      <4> QED BY <3>1, <4>1, SlotsDiffer, Division
    <3> QED BY <1>1, <1>2, <3>1, <3>2 DEF ChunksInv
  <2> QED BY <2>1, <2>2
<1>5. ASSUME NEW s \in Slots, NEW t \in Slots, 0 <= ring'[s].seq, ring'[s].seq < ring'[t].seq
      PROVE  ring'[s].id < ring'[t].id
  <2>1. ring[s].seq \in Int /\ ring[t].seq \in Int /\ ring[s].id \in Int
    BY <1>1
  <2>2. (ring[s].seq < 0 \/ ring[s].id < i) /\ ring[s].seq < pushes /\ ring[t].seq < pushes
    BY <1>1, RingSize DEF ChunksInv, Unwritten, Holds
  <2>3. CASE t = pushIndex
    <3>1. ring'[t].seq = pushes /\ ring'[t].id = i /\ s # pushIndex
      BY <1>1, <1>2, <1>5, <2>3
    <3>2. ring'[s] = ring[s] /\ 0 <= ring[s].seq
      BY <1>2, <1>5, <3>1
    <3> QED BY <2>1, <2>2, <3>1, <3>2
  <2>4. CASE t # pushIndex
    BY <1>1, <1>2, <1>5, <2>1, <2>2, <2>4 DEF ChunksInv
  <2> QED BY <2>3, <2>4
<1> QED BY <1>3, <1>4, <1>5 DEF ChunksInv

LEMMA ChunksStep ==
    ASSUME ~RangeFinder
    PROVE  IInv /\ WindowInv /\ ChunksInv /\ [Next]_vars /\ [FirstKept]_vars => ChunksInv'
<1> SUFFICES ASSUME IInv, WindowInv, ChunksInv, [Next]_vars, [FirstKept]_vars PROVE ChunksInv'
  OBVIOUS
<1>1. i \in Nat
  BY DEF IInv, ControlOK
<1>2. CASE UNCHANGED ringVars /\ i' \in {i, i + 1}
  BY <1>1, <1>2 DEF ringVars, ChunksInv, Unwritten, Holds
<1>3. CASE UNCHANGED vars
  BY <1>2, <1>3 DEF vars, frameVars
<1>4. CASE Writer \/ EndOfInput \/ WaitForChunk
  BY <1>2, <1>4 DEF Writer, Finish, PopPixel, KeepPixel, WriteChunk, WriteFails, EndQuad,
                    EndOfInput, WaitForChunk, frameVars
<1>5. ASSUME FirstKept, NEW ch \in ChunkIn, AnalyzeChunk(ch) PROVE ChunksInv'
  <2>1. i' = i + 1
    BY <1>5 DEF AnalyzeChunk, IgnoreChunk, OutsideRoi, ContinuePixel, QueuePixel, QueueFails,
                DropPixel, Analyze, TakeChunk
  <2>2. CASE IgnoreChunk(ch) \/ OutsideRoi(ch)
    BY <1>2, <2>1, <2>2 DEF IgnoreChunk, OutsideRoi
  <2>3. CASE ContinuePixel(ch) \/ QueuePixel(ch) \/ QueueFails(ch) \/ DropPixel(ch)
    BY <1>5, <2>1, <2>3, ChunksPush DEF ContinuePixel, QueuePixel, QueueFails, DropPixel
  <2> QED BY <1>5, <2>2, <2>3 DEF AnalyzeChunk
<1> QED BY <1>3, <1>4, <1>5 DEF Next, Analyzer, Ended

LEMMA PushedStep ==
    ASSUME ~RangeFinder
    PROVE  IInv /\ LobeInv /\ WindowInv /\ PushedInv /\ [Next]_vars => PushedInv'
<1> SUFFICES ASSUME IInv, LobeInv, WindowInv, PushedInv, [Next]_vars PROVE PushedInv'
  OBVIOUS
<1>1. pushes \in Nat /\ seqFirst \in Int /\ an \in LocalsType
  BY LagTypes DEF IInv, AnOK
<1>2. CASE PopPixel
  <2>1. /\ pxFifo \in Seq(PxInfoType) /\ pxFifo # << >> /\ UNCHANGED <<an, seqFirst, pushes>>
        /\ pxCurr' = Head(pxFifo) /\ pxFifo' = Tail(pxFifo) /\ pc \notin Terminal
    BY <1>2, LagTypes DEF PopPixel, MayPop, pixelVars, ringVars, Terminal
  <2>2. /\ pxCurr' = pxFifo[1] /\ 1 \in 1 .. Len(pxFifo) /\ pxFifo[1] \in PxInfoType
        /\ Len(pxFifo') = Len(pxFifo) - 1 /\ Len(pxFifo) \in Nat
        /\ \A j \in 1 .. Len(pxFifo') : pxFifo'[j] = pxFifo[j + 1]
    BY <2>1
  <2>3. Fits(pxFifo[1]) /\ pxFifo[1].seqStart >= 0 /\ pxFifo[1].seqEnd <= pushes
    BY <2>2 DEF WindowInv, QueueInv, PushedInv
  <2>4. pushes > 0 /\ pxCurr'.seqLast > 0
    BY <1>1, <2>2, <2>3 DEF Fits, PxInfoType
  <2> QED BY <2>1, <2>2, <2>4 DEF PushedInv
<1>3. CASE WriteChunk
  <2>1. /\ UNCHANGED <<an, seqFirst, pushes, pxFifo, pc>> /\ ~DoneCurrent
        /\ pxCurr' = [pxCurr EXCEPT !.idxExtStart = NextSlot(pxCurr.idxExtStart),
                                    !.seqPos = pxCurr.seqPos + 1]
    BY <1>3 DEF WriteChunk, MoreToWrite, pixelVars, ringVars
  <2>2. pxCurr'.seqLast = pxCurr.seqLast /\ pxCurr.seqPos < pxCurr.seqLast /\ Left > 0
    <3>1. pxCurr \in PxInfoType /\ Left # 0 /\ Left >= 0
      BY <2>1, LagTypes DEF WindowInv, Remains, Left, PxInfoType
    <3> QED BY <2>1, <3>1, LagTypes DEF PxInfoType, Left
  <2> QED BY <2>1, <2>2 DEF PushedInv
<1>4. ASSUME UNCHANGED <<pxCurr, pxFifo, seqFirst, pushes>>,
             pc \in Terminal => pc' \in Terminal, an'.prevInRoi => an.prevInRoi
      PROVE  PushedInv'
  BY <1>4 DEF PushedInv, Left
<1>5. CASE Finish \/ KeepPixel \/ WriteFails \/ EndQuad \/ EndOfInput \/ WaitForChunk
  <2>1. UNCHANGED <<pxCurr, pxFifo, seqFirst, pushes, an>> /\ pc \notin Terminal
    BY <1>5 DEF Finish, KeepPixel, WriteFails, EndQuad, MoreToWrite, EndOfInput, WaitForChunk,
                writerVars, pixelVars, ringVars, Terminal
  <2> QED BY <1>4, <2>1
<1>6. CASE UNCHANGED vars
  BY <1>4, <1>6 DEF vars, writerVars, pixelVars, ringVars
<1>7. ASSUME NEW ch \in ChunkIn, IgnoreChunk(ch) \/ OutsideRoi(ch) PROVE PushedInv'
  <2>1. CASE IgnoreChunk(ch)
    BY <1>4, <2>1 DEF IgnoreChunk, TakeChunk, writerVars, pixelVars, ringVars, Terminal
  <2>2. CASE OutsideRoi(ch)
    <3>1. ~an'.prevInRoi
      BY <1>1, <2>2 DEF OutsideRoi, LocalsType
    <3> QED BY <1>4, <2>2, <3>1 DEF OutsideRoi, Analyze, TakeChunk, writerVars, ringVars, Terminal
  <2> QED BY <1>7, <2>1, <2>2
<1>8. \A j \in 1 .. Len(pxFifo) : pxFifo[j].seqEnd \in Int
  <2>1. \A j \in 1 .. Len(pxFifo) : pxFifo[j] \in PxInfoType
    BY LagTypes
  <2> QED BY <2>1 DEF PxInfoType
<1>9. ASSUME NEW ch \in ChunkIn,
             \/ ContinuePixel(ch) \/ QueuePixel(ch) \/ QueueFails(ch) \/ DropPixel(ch)
      PROVE  PushedInv'
  <2>1. PushChunk(ch) /\ pc \notin Terminal /\ pxCurr' = pxCurr
    BY <1>9 DEF ContinuePixel, QueuePixel, QueueFails, DropPixel, Analyze, TakeChunk, writerVars, Terminal
  <2>2. pushes' = pushes + 1 /\ Left' = Left
    BY <2>1 DEF PushChunk, Left
  <2>3. FirstSeq \in Int /\ FirstSeq >= 0
    BY <1>1, <2>1 DEF FirstSeq, PushedInv
  <2>4. seqFirst' >= 0
    <3>1. ChunksToMove(ch) = 0
      BY DEF ChunksToMove
    <3> QED BY <1>1, <1>9, <2>3, <3>1 DEF ContinuePixel, QueuePixel, QueueFails, DropPixel
  <2>5. CASE pxFifo' = pxFifo
    <3> QED BY <1>1, <1>8, <2>1, <2>2, <2>4, <2>5 DEF PushedInv
  <2>6. CASE pxFifo' = Append(pxFifo, PxInfo(ch))
    <3> DEFINE px == PxInfo(ch)
               n == Len(pxFifo)
    <3>1. px \in PxInfoType /\ px.seqStart = FirstSeq /\ px.seqEnd = pushes
      BY PxInfoIsTyped DEF PxInfo
    <3>2. /\ n \in Nat /\ Len(pxFifo') = n + 1 /\ pxFifo'[n + 1] = px
          /\ \A j \in 1 .. n : pxFifo'[j] = pxFifo[j]
          /\ \A j \in 1 .. n + 1 : j \in 1 .. n \/ j = n + 1
      BY <2>6, <3>1, LagTypes
    <3> HIDE DEF px, n
    <3>3. \A j \in 1 .. Len(pxFifo') : pxFifo'[j].seqStart >= 0 /\ pxFifo'[j].seqEnd <= pushes'
      BY <1>1, <1>8, <2>2, <2>3, <3>1, <3>2 DEF PushedInv, n
    <3> QED BY <1>1, <2>1, <2>2, <2>4, <3>3 DEF PushedInv
  <2> QED BY <1>9, <2>5, <2>6 DEF ContinuePixel, QueuePixel, QueueFails, DropPixel
<1> QED BY <1>2, <1>3, <1>5, <1>6, <1>7, <1>9 DEF Next, Writer, Analyzer, AnalyzeChunk, Ended

\* Before the first chunk there is nothing in the ring.
LEMMA EmptySlot ==
    ASSUME IInv, ChunksInv, NEW q \in Int, q < 0, pushes - BufSize <= q
    PROVE  Unwritten(q % BufSize)
<1> DEFINE s == q % BufSize
<1>1. s \in Slots
  BY Division
<1>2. ASSUME Holds(s) PROVE FALSE
  <2>1. /\ ring[s].seq \in Int /\ q <= ring[s].seq /\ ring[s].seq - q < BufSize
        /\ ring[s].seq # q /\ s = ring[s].seq % BufSize
    BY <1>2 DEF Holds, IInv, RingOK
  <2> DEFINE p == ring[s].seq
  <2>2. q % BufSize # p % BufSize
    <3> HIDE DEF s
    <3> QED BY <2>1, SlotsDiffer
  <2> QED BY <2>1, <2>2
<1> QED BY <1>1, <1>2 DEF ChunksInv

\* A chunk that is copied is the one meant, or the copy fails.
LEMMA ReportWrite ==
    ASSUME IInv, WindowInv, ChunksInv, PushedInv, ReportInv, NotOverwritten, WriteChunk, ~failed
    PROVE  ReportInv'
<1> DEFINE q == pxCurr.seqPos
           s == q % BufSize
           next == (q + 1) % BufSize
<1>1. /\ q \in Int /\ pxCurr.seqLast \in Int /\ pushes \in Nat /\ i \in Nat
      /\ pxCurr \in PxInfoType /\ ring \in [Slots -> [id : Nat, off : 0 .. CodeLen - 1, seq : Int]]
  BY LagTypes DEF IInv, RingOK, ControlOK
<1>2. /\ ~DoneCurrent /\ pushes' = pushes
      /\ pxCurr' = [pxCurr EXCEPT !.idxExtStart = NextSlot(pxCurr.idxExtStart), !.seqPos = q + 1]
      /\ failed' = (failed \/ ~Consecutive(pxCurr.idxExtStart))
      /\ stale' = (stale \/ ring[pxCurr.idxExtStart].seq # q)
  BY DEF WriteChunk, MoreToWrite, ringVars
<1>3. /\ pxCurr.idxExtStart = s /\ pxCurr.idxExtEnd = pxCurr.seqLast % BufSize
      /\ q < pxCurr.seqLast /\ pxCurr.seqLast - q < BufSize
  BY <1>1, <1>2, LagTypes DEF WindowInv, Remains, Left
<1>4. Left > 0 /\ ~stale /\ q < pushes /\ pushes > 0 /\ pxCurr.seqLast > 0
  BY <1>1, <1>3 DEF Left, ReportInv, PushedInv
<1>5. pushes - q <= BufSize
  BY <1>2 DEF NotOverwritten, Pending
<1>6. pxCurr'.seqPos = q + 1 /\ pxCurr'.seqLast = pxCurr.seqLast
  BY <1>1, <1>2 DEF PxInfoType
<1>7. s \in Slots /\ next \in Slots /\ NextSlot(s) = next
  <2>1. q \in Int /\ q + 1 \in Int
    BY <1>1
  <2> HIDE DEF q
  <2> QED BY <2>1, Division, NextChunkSlot
<1>8. ASSUME q + 1 # pxCurr.seqLast
      PROVE  /\ next # s /\ next # pxCurr.idxExtEnd
             /\ ring[s].id + 1 # ring[next].id => failed'
  <2>1. q + 1 < pxCurr.seqLast /\ (q + 1) - q < BufSize
    BY <1>1, <1>3, <1>8
  <2>2. next # s
    <3>1. q \in Int /\ q + 1 \in Int /\ q <= q + 1 /\ q # q + 1
      BY <1>1
    <3> HIDE DEF q
    <3> QED BY <2>1, <3>1, SlotsDiffer
  <2>3. next # pxCurr.seqLast % BufSize
    <3>1. q + 1 \in Int /\ pxCurr.seqLast - (q + 1) < BufSize
      BY <1>1, <1>3
    <3> QED BY <1>1, <2>1, <3>1, SlotsDiffer
  <2> QED BY <1>2, <1>3, <1>7, <2>2, <2>3 DEF Consecutive
<1>9. CASE q >= 0
  <2>1. ring[s].seq = q /\ ~stale'
    <3>1. q \in Nat /\ pushes - BufSize <= q /\ q < pushes
      BY <1>1, <1>4, <1>5, <1>9
    <3>2. ring[s].seq = q
      BY <3>1 DEF ChunksInv
    <3> QED BY <1>2, <1>3, <1>4, <3>2
  <2>2. ASSUME q + 1 # pxCurr.seqLast, q + 1 >= pushes PROVE failed'
    <3>1. next # s /\ (ring[s].id + 1 # ring[next].id => failed')
      BY <1>8, <2>2
    <3>2. q = pushes - 1
      BY <1>1, <1>4, <2>2
    <3>3. CASE Unwritten(next)
      BY <1>1, <1>7, <3>1, <3>3 DEF Unwritten
    <3>4. CASE Holds(next)
      <4>1. ring[next].seq # q
        BY <3>1, <3>4 DEF Holds
      <4>2. 0 <= ring[next].seq /\ ring[next].seq < ring[s].seq
        BY <1>1, <2>1, <3>2, <3>4, <4>1 DEF Holds
      <4>3. ring[next].id < ring[s].id
        BY <1>7, <4>2 DEF ChunksInv
      <4> HIDE DEF s, next
      <4> QED BY <1>1, <1>7, <3>1, <4>3
    <3> QED BY <1>7, <3>3, <3>4 DEF ChunksInv
  <2>3. Left' > 0 => q + 1 # pxCurr.seqLast
    BY <1>1, <1>6 DEF Left
  <2> QED BY <1>2, <1>6, <2>1, <2>2, <2>3 DEF ReportInv
<1>10. CASE q < 0
  <2>1. next # s /\ (ring[s].id + 1 # ring[next].id => failed')
    BY <1>1, <1>4, <1>8, <1>10
  <2>2. ring[s].id = 0
    BY <1>1, <1>5, <1>10, EmptySlot DEF Unwritten
  <2>3. ring[next].id # 1
    <3>1. CASE q + 1 < 0
      BY <1>1, <1>5, <3>1, EmptySlot DEF Unwritten
    <3>2. CASE q + 1 = 0
      <4>1. next = 0 % BufSize /\ pushes - BufSize <= 0 /\ 0 < pushes
        BY <1>1, <1>4, <1>5, <3>2
      <4>2. ring[next].seq = 0
        BY <4>1 DEF ChunksInv
      <4>3. Holds(next)
        BY <1>7, <4>2, RingSize DEF ChunksInv, Unwritten
      <4> QED BY <4>2, <4>3 DEF Holds
    <3> QED BY <1>1, <1>10, <3>1, <3>2
  <2>4. failed'
    BY <2>1, <2>2, <2>3
  <2> QED BY <2>4 DEF ReportInv
<1> QED BY <1>1, <1>9, <1>10

LEMMA ReportStep ==
    ASSUME ~RangeFinder
    PROVE  IInv /\ WindowInv /\ ChunksInv /\ PushedInv /\ ReportInv /\ NotOverwritten /\ [Next]_vars
               => ReportInv'
<1> SUFFICES ASSUME IInv, WindowInv, ChunksInv, PushedInv, ReportInv, NotOverwritten, [Next]_vars
             PROVE  ReportInv'
  OBVIOUS
<1>1. pushes \in Nat /\ pxCurr.seqPos \in Int
  BY LagTypes
<1>2. CASE PopPixel
  <2>1. /\ pxFifo \in Seq(PxInfoType) /\ pxFifo # << >> /\ pushes' = pushes
        /\ pxCurr' = Head(pxFifo) /\ ~stale' /\ ~failed'
    BY <1>2, LagTypes DEF PopPixel, MayPop, ringVars
  <2>2. pxCurr' = pxFifo[1] /\ 1 \in 1 .. Len(pxFifo) /\ pxFifo[1] \in PxInfoType
    BY <2>1
  <2>3. Fits(pxFifo[1]) /\ pxFifo[1].seqEnd <= pushes
    BY <2>2 DEF WindowInv, QueueInv, PushedInv
  <2>4. pxFifo[1].seqPos < pushes
    BY <1>1, <2>2, <2>3 DEF Fits, PxInfoType
  <2> QED BY <1>1, <2>1, <2>2, <2>4 DEF ReportInv, PxInfoType
<1>3. CASE WriteChunk
  <2>1. failed => failed'
    BY <1>3 DEF WriteChunk
  <2>2. failed \in BOOLEAN
    BY DEF IInv, FlagsOK
  <2> QED BY <1>3, <2>1, <2>2, ReportWrite DEF ReportInv
<1>4. ASSUME UNCHANGED <<pxCurr, stale, failed>>, pushes' = pushes \/ pushes' = pushes + 1
      PROVE  ReportInv'
  BY <1>1, <1>4 DEF ReportInv, Left
<1>5. CASE Finish \/ KeepPixel \/ WriteFails \/ EndQuad \/ EndOfInput \/ WaitForChunk
  BY <1>4, <1>5 DEF Finish, KeepPixel, WriteFails, EndQuad, EndOfInput, WaitForChunk, writerVars, ringVars
<1>6. CASE UNCHANGED vars
  BY <1>4, <1>6 DEF vars, writerVars, ringVars
<1>7. ASSUME NEW ch \in ChunkIn, AnalyzeChunk(ch) PROVE ReportInv'
  <2>1. UNCHANGED writerVars
    BY <1>7 DEF AnalyzeChunk, IgnoreChunk, OutsideRoi, ContinuePixel, QueuePixel, QueueFails,
                DropPixel, Analyze
  <2>2. pushes' = pushes \/ pushes' = pushes + 1
    BY <1>7 DEF AnalyzeChunk, IgnoreChunk, OutsideRoi, ContinuePixel, QueuePixel, QueueFails,
                DropPixel, PushChunk, ringVars
  <2> QED BY <1>4, <2>1, <2>2 DEF writerVars
<1> QED BY <1>2, <1>3, <1>5, <1>6, <1>7 DEF Next, Writer, Analyzer, Ended

\* A pixel with a chunk that is not the one meant is reported, as long as no window
\* loses a chunk and the first chunk that is kept is not the second of the input.
THEOREM GarbageIsReported ==
    ASSUME ~RangeFinder
    PROVE  Spec /\ []NotOverwritten /\ [][FirstKept]_vars => []GarbageReported
<1>1. Init => LobeInv
  BY DEF Init, LobeInv
<1>2. ReportInv => GarbageReported
  BY DEF ReportInv, GarbageReported
<1> QED BY <1>1, <1>2, IInvHolds, LobeStep, WindowInit, WindowStep, ReportInit, ChunksStep, PushedStep,
           ReportStep, PTL DEF Spec

\* A scan of the image from the start of a code begins with a chunk that is kept.
BeginsInv == i > 0 /\ pc \notin Terminal => pushes > 0
EndsInv == eof => i > 0 \/ i >= NChunks

LEMMA BeginsStep ==
    ASSUME ~RangeFinder, InsideImage, ~MidCodeStart
    PROVE  IInv /\ BeginsInv /\ EndsInv /\ [Next]_vars => BeginsInv' /\ EndsInv' /\ [FirstKept]_vars
<1> SUFFICES ASSUME IInv, BeginsInv, EndsInv, [Next]_vars
             PROVE  BeginsInv' /\ EndsInv' /\ [FirstKept]_vars
  OBVIOUS
<1>1. i \in Nat /\ pushes \in Nat /\ NChunks \in Nat
  BY SizesAssumption DEF IInv, ControlOK, RingOK
<1>2. CASE UNCHANGED vars
  BY <1>2 DEF vars, frameVars, ringVars, BeginsInv, EndsInv
<1>3. CASE Writer \/ EndOfInput \/ WaitForChunk
  <2>1. UNCHANGED <<i, pushes>> /\ pc \notin Terminal /\ (eof' => eof \/ i >= NChunks)
    BY <1>3 DEF Writer, Finish, PopPixel, KeepPixel, WriteChunk, WriteFails, EndQuad, MoreToWrite,
                EndOfInput, WaitForChunk, frameVars, ringVars, Terminal
  <2> QED BY <1>1, <2>1 DEF BeginsInv, EndsInv, FirstKept
<1>4. ASSUME NEW ch \in ChunkIn, AnalyzeChunk(ch) PROVE BeginsInv' /\ EndsInv' /\ FirstKept
  <2>1. TakeChunk(ch) /\ pc \notin Terminal
    BY <1>4 DEF AnalyzeChunk, IgnoreChunk, OutsideRoi, ContinuePixel, QueuePixel, QueueFails,
                DropPixel, Analyze, TakeChunk, Terminal
  <2>2. i' = i + 1 /\ i < NChunks /\ Frame(ch)
    BY <2>1 DEF TakeChunk
  <2>3. EndsInv'
    BY <1>1, <2>2 DEF EndsInv
  <2>4. CASE i > 0
    <3>1. pushes > 0 /\ (pushes' = pushes \/ pushes' = pushes + 1)
      BY <1>4, <2>1, <2>4 DEF BeginsInv, AnalyzeChunk, IgnoreChunk, OutsideRoi, ContinuePixel,
                QueuePixel, QueueFails, DropPixel, PushChunk, ringVars
    <3> QED BY <1>1, <2>3, <3>1 DEF BeginsInv, FirstKept
  <2>5. CASE i = 0
    <3>1. ~eof /\ ch.codeStart
      BY <1>1, <2>2, <2>5 DEF EndsInv, Frame
    <3>2. Received(ch) /\ ~Ignored /\ InRoi(ch)
      BY <3>1, InsideIsInRoi DEF Received, Ignored
    <3>3. PushChunk(ch)
      BY <1>4, <3>2 DEF AnalyzeChunk, IgnoreChunk, OutsideRoi, ContinuePixel, QueuePixel,
                        QueueFails, DropPixel
    <3>4. pushes' > 0
      BY <1>1, <3>3 DEF PushChunk
    <3> QED BY <2>3, <2>5, <3>4 DEF BeginsInv, FirstKept
  <2> QED BY <1>1, <2>4, <2>5
<1> QED BY <1>2, <1>3, <1>4 DEF Next, Analyzer, Ended

\* With nothing assumed of the scan but that it stays inside the image and that the
\* input begins with a code, no window loses a chunk and no wrong chunk goes unnoticed.
THEOREM InsideGarbageReported ==
    ASSUME ~RangeFinder, Proportions, InsideImage, ~MidCodeStart
    PROVE  Spec => []GarbageReported
<1>1. Init => BeginsInv /\ EndsInv
  BY DEF Init, BeginsInv, EndsInv
<1>2. Spec => [][FirstKept]_vars
  BY <1>1, IInvHolds, BeginsStep, PTL DEF Spec
<1> QED BY <1>2, InsideNeverOverwritten, GarbageIsReported, PTL
=============================================================================
