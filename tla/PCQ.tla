-------------------------------- MODULE PCQ --------------------------------
(***************************************************************************)
(* The pixel-chunk queue (PCQ) of the RAST block: +Pipe/+RAST/PCQ.cpp,     *)
(* function pixelate.  One loop runs two stages in turn:                   *)
(*                                                                         *)
(*   Writer    takes the oldest detected pixel out of a small FIFO and     *)
(*             copies up to QuadSize chunks of its window out of a ring;   *)
(*   Analyzer  takes one input chunk, puts it into the ring, and decides   *)
(*             whether it closes the current pixel, whose window it then   *)
(*             queues.                                                     *)
(*                                                                         *)
(* The ring has a push index and nothing else: it never refuses a chunk,   *)
(* and a window is two slot numbers, so that nothing in the code relates a *)
(* window to the chunks it was meant for.  The sequence numbers (seq,      *)
(* seqStart, seqEnd, seqPos, seqLast, seqFirst, pushes) are history: they  *)
(* number the chunks in push order and let the properties say which chunk  *)
(* a slot number stood for.  No guard reads them.                          *)
(*                                                                         *)
(* Chunk payloads, noise estimates (nest), time stamps and the statistics  *)
(* reported for plots are left out.                                        *)
(***************************************************************************)
EXTENDS Integers, Sequences

CONSTANTS
    BufSize,      \* slots of the chunk ring (320)
    QuadSize,     \* chunks the Writer copies per iteration (4)
    PxFifoCap,    \* pixels the FIFO may hold (30)
    MaxPxChunks,  \* cMaxPxChunks (32)
    ChunkSize,    \* samples per chunk (64)
    CodeLen,      \* cLenCodeData, samples per code
    ChunkRate,    \* iterations per input chunk (1..4)
    NChunks,      \* input chunks of the frame
    TxFactor,     \* cTxRxFactor, which sizes the output arrays (1, 2 or 4)
    ImgH, ImgV,   \* image size in pixels
    RangeFinder,  \* regs.rangeFinder
    SideLobeDir,  \* regs.sideLobeDir
    Xs, Ys,       \* where the mirror can point: quarter columns, rows
    Modes,        \* transmit modes of the chunks
    Dirs,         \* scan directions of the chunks
    MaxYStep,     \* rows the mirror moves in one chunk
    MinDwell,     \* chunks the mirror stays in a column, in range-finder mode
    MidCodeStart  \* the input may begin in the middle of a code (see Frame)

ASSUME SizesAssumption ==
    /\ BufSize \in Nat \ {0} /\ QuadSize \in 1..4 /\ PxFifoCap \in Nat \ {0}
    /\ MaxPxChunks \in Nat \ {0} /\ ChunkSize \in Nat \ {0} /\ CodeLen \in Nat \ {0}
    /\ ChunkRate \in 1..4 /\ NChunks \in Nat /\ TxFactor \in {1, 2, 4}
    /\ MaxYStep \in Nat /\ MinDwell \in Nat \ {0}
ASSUME ImageAssumption ==
    /\ ImgH \in Nat /\ ImgV \in Nat
    /\ Xs \subseteq Int /\ Ys \subseteq Int
    /\ Modes \subseteq 0..3 /\ Dirs \subseteq BOOLEAN
ASSUME FlagAssumption ==
    /\ RangeFinder \in BOOLEAN /\ SideLobeDir \in BOOLEAN /\ MidCodeStart \in BOOLEAN

\* cCodeChunks: chunks that cover one code
CodeChunks == (CodeLen - 1) \div ChunkSize + 1

ASSUME CapacityAssumption ==
    /\ CodeChunks < BufSize /\ MaxPxChunks < BufSize /\ QuadSize <= BufSize
    /\ ChunkSize <= CodeLen

Slots == 0 .. BufSize - 1

\* Mutants of the slot arithmetic: a wrap one slot too late, and no wrap
ModSlotLateWrap(idx) == IF idx < 0 THEN idx + BufSize
                        ELSE IF idx > BufSize THEN idx - BufSize ELSE idx
BetweenNoWrap(s, idx, e) == s <= idx /\ idx < e

\* Buffer::next and Buffer::mod: one conditional wrap, not a modulo
NextSlot(idx) == IF idx = BufSize - 1 THEN 0 ELSE idx + 1
ModSlot(idx) == IF idx < 0 THEN idx + BufSize
                ELSE IF idx >= BufSize THEN idx - BufSize ELSE idx

\* Buffer::between, the test for "inside the main lobe"
Between(s, idx, e) ==
    IF s < e THEN s <= idx /\ idx < e ELSE s <= idx \/ idx < e

\* Mutant: the offset is wrapped one sample too late
AddOffsetLateWrap(off) == IF off + ChunkSize > CodeLen THEN off + ChunkSize - CodeLen
                                                       ELSE off + ChunkSize
\* Template offsets are added up with one conditional wrap as well
AddOffset(off) == IF off + ChunkSize >= CodeLen THEN off + ChunkSize - CodeLen
                                                ELSE off + ChunkSize
SubOffset(off) == IF off - ChunkSize < 0 THEN off - ChunkSize + CodeLen
                                         ELSE off - ChunkSize

\* Array sizes chosen by mexFunction
MaxChunks  == (NChunks + 1) * 4 * TxFactor
MaxQuads   == (NChunks + 1) * TxFactor
MaxPxInfos == NChunks + 1

Point == [x : Int, y : Int]
P0 == [x |-> -16384, y |-> -2048]

VARIABLES
    pc,         \* stage the loop is in, or how it ended
    i,          \* index of the next input chunk
    iClock,     \* iterations since the last input chunk was taken
    eof,        \* the frame has ended
    ring,       \* chunkFifo.m_buf: id, offset and sequence number per slot
    pushIndex,  \* chunkFifo.m_pushIndex
    pxFifo,     \* pixels detected and not yet taken by the Writer
    pxCurr,     \* pixel the Writer is copying
    k,          \* chunks copied in this iteration
    outOff,     \* template offset of the last output chunk
    out,        \* output counters: chunks, quads, pixel infos
    failed,     \* nConsecutiveChunksFails went up for the pixel being copied
    an,         \* the Analyzer's locals
    toEmpty,    \* toEmptyPxFifo
    beam,       \* environment: where the mirror points and for how long, and the
                \* region of interest so far
    pushes,     \* history: chunks pushed so far
    seqFirst,   \* history: sequence number idxFirstChunk stands for
    stale       \* history: a slot copied for that pixel did not hold the chunk meant

writerVars == <<pxCurr, k, outOff, failed, stale>>
frameVars  == <<i, iClock, eof, beam>>
ringVars   == <<ring, pushIndex, pushes>>
pixelVars  == <<an, seqFirst>>
vars == <<pc, frameVars, ringVars, pxFifo, out, writerVars, pixelVars, toEmpty>>

Terminal == {"done", "errFifo", "errChunks", "errQuads", "errPxInfos", "undefined"}

NoPixel == [idxStart |-> 0, idxEnd |-> 0, idxExtStart |-> 0, idxExtEnd |-> 0,
            tx |-> 0, main |-> 0, seqStart |-> 0, seqEnd |-> 0, seqPos |-> 0, seqLast |-> 0]

Init ==
    /\ pc = "pop"
    /\ i = 0 /\ iClock = 0 /\ eof = FALSE
    /\ ring = [s \in Slots |-> [id |-> 0, off |-> 0, seq |-> -BufSize]]
    /\ pushIndex = 0 /\ pushes = 0
    /\ pxFifo = << >> /\ pxCurr = NoPixel
    /\ k = 0 /\ outOff = 0
    /\ out = [chunks |-> 0, quads |-> 0, pxInfos |-> 0]
    /\ failed = FALSE /\ stale = FALSE
    /\ an = [p0 |-> P0.x, pLast |-> P0.x, pPrev |-> P0, tOffset |-> 0,
             codeStartReceived |-> FALSE, idxFirst |-> -1, n |-> -1,
             prevRoi |-> FALSE, prevInRoi |-> FALSE]
    /\ seqFirst = -1
    /\ toEmpty = FALSE
    /\ beam \in [x : Xs, still : {MinDwell}, y : Ys, roi : {"before"}]

-----------------------------------------------------------------------------
(* Writer *)

DoneCurrent == pxCurr.idxExtStart = pxCurr.idxExtEnd

\* Mutant: the Writer waits for more pixels than the ring has room for
MayPopLate ==
    /\ DoneCurrent /\ pxFifo # << >>
    /\ \/ eof
       \/ toEmpty
       \/ RangeFinder
       \/ Len(pxFifo) > 2 * (2 + Head(pxFifo).tx)

\* Mutant: a pixel is taken before the one before it is copied
MayPopEarly ==
    /\ pxFifo # << >>
    /\ \/ eof
       \/ toEmpty
       \/ RangeFinder
       \/ Len(pxFifo) > 2 * (1 + Head(pxFifo).tx)

\* The Writer holds a pixel back until enough later pixels are queued for its
\* trailing side lobe to be in the ring, unless no more are to come.
MayPop ==
    /\ DoneCurrent /\ pxFifo # << >>
    /\ \/ eof
       \/ toEmpty
       \/ RangeFinder
       \/ Len(pxFifo) > 2 * (1 + Head(pxFifo).tx)

Finish ==
    /\ pc = "pop" /\ eof /\ DoneCurrent /\ pxFifo = << >>
    /\ pc' = "done"
    /\ UNCHANGED <<frameVars, ringVars, pxFifo, out, writerVars, pixelVars, toEmpty>>

PopPixel ==
    /\ pc = "pop" /\ MayPop
    /\ pxCurr' = Head(pxFifo) /\ pxFifo' = Tail(pxFifo)
    /\ failed' = FALSE /\ stale' = FALSE
    /\ k' = 0 /\ pc' = "write"
    /\ UNCHANGED <<frameVars, ringVars, out, outOff, pixelVars, toEmpty>>

KeepPixel ==
    /\ pc = "pop" /\ ~MayPop
    /\ ~(eof /\ DoneCurrent /\ pxFifo = << >>)
    /\ k' = 0 /\ pc' = "write"
    /\ UNCHANGED <<frameVars, ringVars, pxFifo, out, pxCurr, outOff, failed, stale,
                   pixelVars, toEmpty>>

MoreToWrite == pc = "write" /\ k < QuadSize /\ ~DoneCurrent

\* Mutant: only the chunks of the main lobe are compared with their neighbours
ConsecutiveInLobe(idx) ==
    LET next == NextSlot(idx)
    IN  \/ next = pxCurr.idxExtEnd
        \/ ~Between(pxCurr.idxStart, idx, pxCurr.idxEnd)
        \/ ring[idx].id + 1 = ring[next].id

\* Two neighbours of a window must be two neighbours of the input.
Consecutive(idx) ==
    LET next == NextSlot(idx)
    IN  next = pxCurr.idxExtEnd \/ ring[idx].id + 1 = ring[next].id

\* Mutant: the offset is never taken from the chunk again
OutOffsetCounted(idx) == AddOffset(outOff)

OutOffset(idx) == IF k = 0 THEN ring[idx].off ELSE AddOffset(outOff)

WriteChunk ==
    LET idx == pxCurr.idxExtStart
    IN  /\ MoreToWrite
        /\ out.chunks # MaxChunks /\ out.quads # MaxQuads
        /\ pxCurr' = [pxCurr EXCEPT !.idxExtStart = NextSlot(idx), !.seqPos = @ + 1]
        /\ failed' = (failed \/ ~Consecutive(idx))
        /\ stale' = (stale \/ ring[idx].seq # pxCurr.seqPos)
        /\ outOff' = OutOffset(idx)
        /\ out' = [out EXCEPT !.chunks = @ + 1]
        /\ k' = k + 1
        /\ UNCHANGED <<pc, frameVars, ringVars, pxFifo, pixelVars, toEmpty>>

WriteFails ==
    /\ MoreToWrite
    /\ out.chunks = MaxChunks \/ out.quads = MaxQuads
    /\ pc' = IF out.chunks = MaxChunks THEN "errChunks" ELSE "errQuads"
    /\ UNCHANGED <<frameVars, ringVars, pxFifo, out, writerVars, pixelVars, toEmpty>>

\* The test after the loop reads valids[nChunkQuads]: past the array when it is
\* full, and from there on anything may follow.
EndQuad ==
    /\ pc = "write" /\ (k = QuadSize \/ DoneCurrent)
    /\ pc' = IF out.quads = MaxQuads THEN "undefined" ELSE "analyze"
    /\ out' = IF k > 0 THEN [out EXCEPT !.quads = @ + 1] ELSE out
    /\ UNCHANGED <<frameVars, ringVars, pxFifo, writerVars, pixelVars, toEmpty>>

-----------------------------------------------------------------------------
(* Analyzer *)

\* The input the rest of the pipe delivers: the mirror moves a bounded number of
\* rows per chunk, or in range-finder mode stays in a column for some chunks; the
\* region-of-interest flag is one block that ends before the input does
\* (roiFlag.m); codes follow each other without a gap and the first
\* chunk starts one (patternGenerator.m), which recorded input need not do.
RoiPhases == {"before", "in", "after"}
NextRoi(roi) == IF roi THEN "in" ELSE IF beam.roi = "before" THEN "before" ELSE "after"

Still(x) == IF x # beam.x THEN 1
            ELSE IF beam.still < MinDwell THEN beam.still + 1 ELSE MinDwell

Frame(ch) ==
    /\ ch.y - beam.y \in -MaxYStep .. MaxYStep
    /\ RangeFinder /\ ch.x # beam.x => beam.still = MinDwell
    /\ ch.roi => beam.roi # "after" /\ i < NChunks - 1
    /\ IF ch.codeStart THEN an.tOffset = 0 ELSE MidCodeStart \/ i # 0

ChunkIn == [x : Xs, y : Ys, tx : Modes, dir : Dirs, codeStart : BOOLEAN, roi : BOOLEAN]

\* Mutant: the end of the input does not end the frame
EndOfInputOpen ==
    /\ pc = "analyze" /\ i >= NChunks
    /\ pc' = "pop"
    /\ UNCHANGED <<i, iClock, eof, beam, ringVars, pxFifo, out, writerVars, pixelVars,
                   toEmpty>>

EndOfInput ==
    /\ pc = "analyze" /\ i >= NChunks
    /\ eof' = TRUE /\ pc' = "pop"
    /\ UNCHANGED <<i, iClock, beam, ringVars, pxFifo, out, writerVars, pixelVars, toEmpty>>

WaitForChunk ==
    /\ pc = "analyze" /\ i < NChunks /\ iClock + 1 # ChunkRate
    /\ iClock' = iClock + 1 /\ pc' = "pop"
    /\ UNCHANGED <<i, eof, beam, ringVars, pxFifo, out, writerVars, pixelVars, toEmpty>>

Ends(ch) == an.prevRoi /\ ~ch.roi

TakeChunk(ch) ==
    /\ pc = "analyze" /\ i < NChunks /\ iClock + 1 = ChunkRate /\ Frame(ch)
    /\ i' = i + 1 /\ iClock' = 0
    /\ eof' = (eof \/ Ends(ch))
    /\ beam' = [x |-> ch.x, still |-> Still(ch.x), y |-> ch.y, roi |-> NextRoi(ch.roi)]

IgnoredNever == FALSE      \* mutant: the end of the frame is forgotten
Ignored == eof /\ ~an.prevRoi
Received(ch) == an.codeStartReceived \/ ch.codeStart

\* A chunk after the end of the frame, or before the first code start.
IgnoreChunk(ch) ==
    /\ TakeChunk(ch)
    /\ Ignored \/ ~Received(ch)
    /\ pc' = "pop"
    /\ UNCHANGED <<ringVars, pxFifo, out, writerVars, pixelVars, toEmpty>>

MaxSidelobeY(ch) == IF RangeFinder THEN 0 ELSE 2 + 2 * ch.tx
MaxSidelobeX(ch) == IF RangeFinder THEN 4 ELSE 6 + 8 * ch.tx
InRoi(ch) ==
    /\ -MaxSidelobeY(ch) <= ch.y /\ ch.y <= ImgV + MaxSidelobeY(ch)
    /\ -MaxSidelobeX(ch) <= ch.x /\ ch.x <= ImgH * 4 + MaxSidelobeX(ch)

CodeOffset(ch) == IF ch.codeStart THEN 0 ELSE an.tOffset
ChunkOffset(ch) == IF eof \/ Ends(ch) THEN SubOffset(CodeOffset(ch)) ELSE CodeOffset(ch)

\* Common to every chunk that is analysed
Analyze(ch) == TakeChunk(ch) /\ ~Ignored /\ Received(ch) /\ UNCHANGED writerVars

OutsideRoi(ch) ==
    /\ Analyze(ch) /\ ~InRoi(ch)
    /\ pc' = "pop"
    /\ an' = [an EXCEPT !.tOffset = AddOffset(CodeOffset(ch)), !.codeStartReceived = TRUE,
                        !.prevRoi = ch.roi, !.prevInRoi = FALSE]
    /\ toEmpty' = (toEmpty /\ ~an.prevInRoi)
    /\ UNCHANGED <<ringVars, pxFifo, out, seqFirst>>

\* The chunk goes into the next slot, whatever that slot holds.
PushChunk(ch) ==
    /\ ring' = [ring EXCEPT ![pushIndex] =
                   [id |-> i, off |-> ChunkOffset(ch), seq |-> pushes]]
    /\ pushIndex' = NextSlot(pushIndex)
    /\ pushes' = pushes + 1

FirstSlot == IF an.prevInRoi THEN an.idxFirst ELSE pushIndex
FirstSeq  == IF an.prevInRoi THEN seqFirst ELSE pushes

\* nCurrPxChunks: counted one by one, or by slot numbers in range-finder mode
PxChunks ==
    IF RangeFinder
    THEN IF pushIndex < FirstSlot THEN pushIndex - FirstSlot + BufSize
                                  ELSE pushIndex - FirstSlot
    ELSE (IF an.prevInRoi THEN an.n ELSE 0) + 1

\* Mutant: no limit on the length of a pixel
NewPixelUnlimited(ch) ==
    \/ ch.y # an.pPrev.y
    \/ RangeFinder /\ ch.x # an.pPrev.x

NewPixel(ch) ==
    \/ ch.y # an.pPrev.y
    \/ RangeFinder /\ ch.x # an.pPrev.x
    \/ PxChunks = MaxPxChunks

\* (p0.x + pLast.x + 4) >> (extraResExp + 1), with extraResExp = 2
PixelX == (an.p0 + an.pLast + 4) \div 8
InImage ==
    /\ PixelX \in 0 .. ImgH - 1 /\ an.pPrev.y \in 0 .. ImgV - 1
    /\ FirstSlot # pushIndex

ExtraChunks == IF RangeFinder \/ PxChunks >= CodeChunks THEN 0 ELSE CodeChunks - PxChunks
SmallLobe == ExtraChunks \div 2
BigLobe == ExtraChunks - SmallLobe
ExtraStart(ch) == IF SideLobeDir # ch.dir THEN BigLobe ELSE SmallLobe
ExtraEnd(ch) == IF SideLobeDir # ch.dir THEN SmallLobe ELSE BigLobe

PxInfo(ch) ==
    [idxStart |-> FirstSlot, idxEnd |-> pushIndex,
     idxExtStart |-> ModSlot(FirstSlot - ExtraStart(ch)),
     idxExtEnd |-> ModSlot(pushIndex + ExtraEnd(ch)),
     tx |-> ch.tx, main |-> PxChunks,
     seqStart |-> FirstSeq, seqEnd |-> pushes,
     seqPos |-> FirstSeq - ExtraStart(ch), seqLast |-> pushes + ExtraEnd(ch)]

\* The Analyzer's locals after a chunk inside the region of interest
AfterChunk(ch) ==
    [an EXCEPT !.tOffset = AddOffset(CodeOffset(ch)), !.codeStartReceived = TRUE,
               !.prevRoi = ch.roi, !.prevInRoi = TRUE, !.pLast = ch.x]
StartPixel(ch, first) ==
    [AfterChunk(ch) EXCEPT !.p0 = ch.x, !.pPrev = [x |-> ch.x, y |-> ch.y],
                           !.n = 0, !.idxFirst = first]

ContinuePixel(ch) ==
    /\ Analyze(ch) /\ InRoi(ch) /\ ~NewPixel(ch)
    /\ PushChunk(ch)
    /\ an' = [AfterChunk(ch) EXCEPT !.idxFirst = FirstSlot, !.n = PxChunks]
    /\ seqFirst' = FirstSeq
    /\ pc' = "pop"
    /\ UNCHANGED <<pxFifo, out, toEmpty>>

QueuePixel(ch) ==
    /\ Analyze(ch) /\ InRoi(ch) /\ NewPixel(ch) /\ InImage
    /\ Len(pxFifo) < PxFifoCap /\ out.pxInfos # MaxPxInfos
    /\ PushChunk(ch)
    /\ pxFifo' = Append(pxFifo, PxInfo(ch))
    /\ out' = [out EXCEPT !.pxInfos = @ + 1]
    /\ an' = StartPixel(ch, pushIndex) /\ seqFirst' = pushes
    /\ toEmpty' = FALSE
    /\ pc' = "pop"

\* REQUIRE(ASIC_PxFIFO_size_limit_is_30) comes after the push and before the
\* check of the output array.
QueueFails(ch) ==
    /\ Analyze(ch) /\ InRoi(ch) /\ NewPixel(ch) /\ InImage
    /\ Len(pxFifo) >= PxFifoCap \/ out.pxInfos = MaxPxInfos
    /\ pc' = IF Len(pxFifo) >= PxFifoCap THEN "errFifo" ELSE "errPxInfos"
    /\ PushChunk(ch)
    /\ pxFifo' = Append(pxFifo, PxInfo(ch))
    /\ seqFirst' = pushes
    /\ UNCHANGED <<out, an, toEmpty>>

\* Mutant: a chunk that begins a quad is moved on by a whole quad
ChunksToMoveUnmasked(ch) ==
    IF RangeFinder THEN QuadSize - ((ChunkOffset(ch) \div ChunkSize) % QuadSize) ELSE 0

\* In range-finder mode the next pixel is moved on to a quad of the template:
\* to slots that are not written yet, and without a wrap.
ChunksToMove(ch) ==
    IF RangeFinder THEN (QuadSize - ((ChunkOffset(ch) \div ChunkSize) % QuadSize)) % QuadSize
                   ELSE 0

DropPixel(ch) ==
    /\ Analyze(ch) /\ InRoi(ch) /\ NewPixel(ch) /\ ~InImage
    /\ PushChunk(ch)
    /\ toEmpty' = TRUE
    /\ an' = StartPixel(ch, pushIndex + ChunksToMove(ch))
    /\ seqFirst' = pushes + ChunksToMove(ch)
    /\ pc' = "pop"
    /\ UNCHANGED <<pxFifo, out>>

-----------------------------------------------------------------------------

Ended == pc \in Terminal /\ UNCHANGED vars

Writer == Finish \/ PopPixel \/ KeepPixel \/ WriteChunk \/ WriteFails \/ EndQuad
AnalyzeChunk(ch) ==
    \/ IgnoreChunk(ch) \/ OutsideRoi(ch) \/ ContinuePixel(ch)
    \/ QueuePixel(ch) \/ QueueFails(ch) \/ DropPixel(ch)
Analyzer == EndOfInput \/ WaitForChunk \/ \E ch \in ChunkIn : AnalyzeChunk(ch)

Next == Writer \/ Analyzer \/ Ended

Spec == Init /\ [][Next]_vars

\* The loop is straight-line code of one thread: it always takes its next step.
FairSpec == Spec /\ WF_vars(Writer \/ Analyzer)

-----------------------------------------------------------------------------
(* Properties *)

PxInfoType ==
    [idxStart : Nat, idxEnd : Slots, idxExtStart : Slots, idxExtEnd : Slots,
     tx : 0..3, main : Int, seqStart : Int, seqEnd : Int, seqPos : Int, seqLast : Int]

\* The state is well typed; the slot numbers of a queued window are slots of
\* the ring, which is what Buffer::get checks (ValidBufferIndex).
TypeOK ==
    /\ pc \in {"pop", "write", "analyze"} \cup Terminal
    /\ i \in 0 .. NChunks /\ iClock \in 0 .. ChunkRate - 1 /\ eof \in BOOLEAN
    /\ ring \in [Slots -> [id : Nat, off : 0 .. CodeLen - 1, seq : Int]]
    /\ pushIndex \in Slots /\ pushes \in Nat
    /\ pxFifo \in Seq(PxInfoType) /\ pxCurr \in PxInfoType
    /\ k \in 0 .. QuadSize /\ outOff \in 0 .. CodeLen - 1
    /\ out \in [chunks : Nat, quads : Nat, pxInfos : Nat]
    /\ failed \in BOOLEAN /\ stale \in BOOLEAN /\ toEmpty \in BOOLEAN
    /\ an \in [p0 : Int, pLast : Int, pPrev : Point, tOffset : 0 .. CodeLen - 1,
               codeStartReceived : BOOLEAN, idxFirst : Int, n : Int,
               prevRoi : BOOLEAN, prevInRoi : BOOLEAN]
    /\ seqFirst \in Int
    /\ beam \in [x : Xs, still : 1 .. MinDwell, y : Ys, roi : RoiPhases]

Queued == {pxFifo[j] : j \in 1 .. Len(pxFifo)}
\* Windows that still have to be copied, the current one included
Pending == Queued \cup (IF DoneCurrent THEN {} ELSE {pxCurr})

\* The main lobe of a pixel has at most cMaxPxChunks chunks (PCQ.cpp line 387
\* has this as a CHECK, commented out).
MainLobeBounded == \A px \in Queued : px.main <= MaxPxChunks

\* Slot numbers and sequence numbers stay in step: a window ends at its slot
\* idxExtEnd exactly when all the chunks it was meant to have are copied.
WindowsWrapRight ==
    \A px \in Pending :
        /\ px.idxExtStart = px.seqPos % BufSize
        /\ px.idxExtEnd = px.seqLast % BufSize
        /\ px.seqLast - px.seqPos \in 1 .. BufSize - 1

\* between() finds the chunks of the main lobe, across the end of the ring too.
MainLobeFound ==
    ~DoneCurrent =>
        (Between(pxCurr.idxStart, pxCurr.idxExtStart, pxCurr.idxEnd)
            <=> pxCurr.seqPos \in pxCurr.seqStart .. pxCurr.seqEnd - 1)

\* No chunk that still has to be copied is overwritten: the ring never refuses
\* a chunk, so only the Writer's pace and the FIFO's limit keep windows alive.
NotOverwritten == \A px \in Pending : pushes - px.seqPos <= BufSize

\* RAST.m rejects a frame in which stats.consecutiveChunksFail is set ("garbage
\* chunks used"): it is set by every pixel with a chunk that is not the one meant.
GarbageReported == stale /\ DoneCurrent => failed

\* The arrays of chunks and of quads fill up together at the earliest, so that a
\* frame stopped by the chunk limit has used up its quads as well, and the array
\* of pixel infos never fills up.
LimitsTogether == (pc = "errChunks" => out.quads = MaxQuads) /\ pc # "errPxInfos"

\* After the end of the frame the Analyzer changes nothing any more.
AnalyzerStops == [][eof => UNCHANGED <<ringVars, an, out.pxInfos>>]_vars

\* The offsets the Writer counts along a quad are those the Analyzer stored, for a
\* pixel that has not failed so far: the Writer reads an offset once per quad and
\* relies on the comparison of input numbers for the rest.  The chunk that ended the
\* frame is the exception, which is stored one chunk back.
LastOfFrame(idx) == eof /\ ring[idx].seq = pushes - 1
OffsetsAgree ==
    [][ out'.chunks # out.chunks /\ ~failed /\ ~stale /\ ~LastOfFrame(pxCurr.idxExtStart)
            => outOff' = ring[pxCurr.idxExtStart].off ]_vars

\* The loop ends, with every queued pixel copied or an error reported.
Termination == <>(pc \in Terminal)

\* Seen through the sequence numbers, the two stages are a queue of windows that
\* are copied whole, one chunk after the other, in the order of their pixels
\* along the scan: the ring, its slot numbers and the Writer's quads are hidden.
Span(px) == [from |-> px.seqPos, to |-> px.seqLast,
             first |-> px.seqStart, last |-> px.seqEnd]
Delivery == INSTANCE PixelDelivery WITH
                queue <- [j \in 1 .. Len(pxFifo) |-> Span(pxFifo[j])],
                cur <- Span(pxCurr), edge <- seqFirst
DeliversPixels == Delivery!Spec
=============================================================================
