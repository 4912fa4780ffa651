----------------------------- MODULE CmaFilter -----------------------------
(***************************************************************************)
(* The CMA filter of the RAST block: +Pipe/+RAST/cmaFilter.cpp, function   *)
(* smooth.  Pixels arrive in the order the CMAC completed them.  Every row *)
(* keeps its last three pixels in a small FIFO; a pixel is smoothed with   *)
(* its neighbours one arrival after it became the middle one, and what is  *)
(* left is smoothed when the input ends.                                   *)
(*                                                                         *)
(* The code finds the pixel to smooth by rowIndex, a slot of the FIFO's    *)
(* buffer, and not by its place in the queue: rowIndex and the FIFO's own  *)
(* m_start move on different events.  Smoothing itself (weights, robust IR *)
(* estimate, the modes that bypass it) is left out; which pixels it reads  *)
(* in the row is modelled.                                                 *)
(***************************************************************************)
EXTENDS Integers, Sequences

CONSTANTS
    NRows,      \* cScanlineLength
    NCols,      \* columns of the image
    MaxPixels   \* bound on the length of the input (nXY)

ASSUME ImageAssumption == NRows \in Nat /\ NCols \in Nat /\ MaxPixels \in Nat

Rows == 0 .. NRows - 1
Cols == 0 .. NCols - 1
None == -1

\* FIFO<Point, 2>: four slots, indices wrap by a mask
FifoSlots == 4
Next4(s) == (s + 1) % FifoSlots
MaxRefs == 3

VARIABLES
    phase,        \* "stream", "flush", "done"
    refs,         \* cmaRefs[y]: columns of the row's last pixels, oldest first
    start,        \* cmaRefs[y].m_start: slot of the oldest
    rowIndex,     \* slot of the next pixel to smooth
    rowCounters,  \* pixels to wait for before the row is smoothed
    rowPtrs,      \* position of the newest pixel in the row of three
    flushRow,     \* row being flushed
    nIn,          \* pixels taken from the input
    arrived,      \* history: the row's pixels, in the order of arrival
    smoothed,     \* history: the row's pixels, in the order of smoothing
    window,       \* history: the pixel smoothed last, with its row neighbours
    invalidPop    \* CHECK(InvalidRefPop) has fired

rowVars == <<refs, start, rowIndex, rowCounters, rowPtrs>>
vars == <<phase, rowVars, flushRow, nIn, arrived, smoothed, window, invalidPop>>

Init ==
    /\ phase = "stream" /\ flushRow = 0 /\ nIn = 0
    /\ refs = [y \in Rows |-> << >>]
    /\ start = [y \in Rows |-> 0]
    /\ rowIndex = [y \in Rows |-> 0]
    /\ rowCounters = [y \in Rows |-> 2]
    /\ rowPtrs = [y \in Rows |-> 0]
    /\ arrived = [y \in Rows |-> << >>]
    /\ smoothed = [y \in Rows |-> << >>]
    /\ window = [y |-> None, j |-> 0, left |-> None, right |-> None]
    /\ invalidPop = FALSE

\* indexToOrder(rowIndex[y]): place of that slot in the queue, 0 for the oldest
Order(y) == (rowIndex[y] - start[y]) % FifoSlots

\* Mutant: the oldest of three is not taken for the missing right neighbour
RowWindowOpen(y, o) ==
    LET left == IF o > 0 THEN refs[y][o] ELSE None
        right == IF o + 1 < Len(refs[y]) THEN refs[y][o + 2] ELSE None
    IN  IF rowPtrs[y] = 0 THEN <<right, left>> ELSE <<left, right>>

\* Columns read left and right of the pixel at place o of row y.  A last pixel
\* takes the oldest one of the three instead of a right neighbour, and the two
\* change sides when rowPtrs says so.
RowWindow(y, o) ==
    LET n == Len(refs[y])
        left == IF o > 0 THEN refs[y][o] ELSE None
        right == IF o + 1 < n THEN refs[y][o + 2]
                 ELSE IF n = MaxRefs THEN refs[y][1] ELSE None
    IN  IF rowPtrs[y] = 0 THEN <<right, left>> ELSE <<left, right>>

NextPtr(y) == IF rowPtrs[y] = 2 THEN 0 ELSE rowPtrs[y] + 1

\* smooth() of the pixel rowIndex points at
SmoothNext(y) ==
    LET w == RowWindow(y, Order(y))
    IN  /\ smoothed' = [smoothed EXCEPT ![y] = Append(@, refs[y][Order(y) + 1])]
        /\ window' = [y |-> y, j |-> Len(smoothed[y]) + 1, left |-> w[1], right |-> w[2]]

Waiting(y) == rowCounters[y] # 0

\* Mutant: the smoothing position never moves
IndexAfterSmoothKept(y) == rowIndex[y]
\* rowIndex[y] when the new pixel is about to be added
IndexAfterSmooth(y) == IF Waiting(y) THEN rowIndex[y] ELSE Next4(rowIndex[y])

Full(y) == Len(refs[y]) = MaxRefs
\* The oldest pixel has to leave and is not smoothed yet
PopsUnsmoothed(y) == Full(y) /\ start[y] = IndexAfterSmooth(y)

\* Mutant: four references are kept
KeptRefsAll(y) == refs[y]
KeptRefs(y) == IF Full(y) THEN Tail(refs[y]) ELSE refs[y]

Push(y, x) ==
    /\ refs' = [refs EXCEPT ![y] = Append(KeptRefs(y), x)]
    /\ start' = [start EXCEPT ![y] = IF Full(y) THEN Next4(@) ELSE @]
    /\ rowIndex' = [rowIndex EXCEPT ![y] = IF PopsUnsmoothed(y) THEN Next4(start[y])
                                           ELSE IndexAfterSmooth(y)]
    /\ invalidPop' = (invalidPop \/ PopsUnsmoothed(y))
    /\ rowPtrs' = [rowPtrs EXCEPT ![y] = NextPtr(y)]
    /\ rowCounters' = [rowCounters EXCEPT ![y] = IF @ # 0 THEN @ - 1 ELSE 0]
    /\ arrived' = [arrived EXCEPT ![y] = Append(@, x)]

\* The CMAC completes the columns of a row in rising order (CMAC!RowsRise).
Arrives(y, x) ==
    /\ phase = "stream" /\ nIn < MaxPixels
    /\ arrived[y] # << >> => arrived[y][Len(arrived[y])] < x
    /\ nIn' = nIn + 1

\* One iteration of the loop over the input
TakeFirst(y, x) ==
    /\ Arrives(y, x) /\ Waiting(y)
    /\ Push(y, x)
    /\ UNCHANGED <<phase, flushRow, smoothed, window>>

TakeAndSmooth(y, x) ==
    /\ Arrives(y, x) /\ ~Waiting(y)
    /\ SmoothNext(y) /\ Push(y, x)
    /\ UNCHANGED <<phase, flushRow>>

EndOfInput ==
    /\ phase = "stream"
    /\ phase' = "flush"
    /\ UNCHANGED <<rowVars, flushRow, nIn, arrived, smoothed, window, invalidPop>>

\* Mutant: the newest pixel counts as smoothed
UnsmoothedButLast(y) == Order(y) + 1 < Len(refs[y])
Unsmoothed(y) == Order(y) < Len(refs[y])

FlushPixel(y) ==
    /\ phase = "flush" /\ flushRow = y /\ Unsmoothed(y)
    /\ SmoothNext(y)
    /\ rowIndex' = [rowIndex EXCEPT ![y] = Next4(@)]
    /\ rowPtrs' = [rowPtrs EXCEPT ![y] = NextPtr(y)]
    /\ UNCHANGED <<phase, refs, start, rowCounters, flushRow, nIn, arrived, invalidPop>>

\* Mutant: the loop does not go on to the next row
FlushNextRowStuck(y) ==
    /\ phase = "flush" /\ flushRow = y /\ ~Unsmoothed(y)
    /\ UNCHANGED vars

FlushNextRow(y) ==
    /\ phase = "flush" /\ flushRow = y /\ ~Unsmoothed(y)
    /\ flushRow' = y + 1
    /\ UNCHANGED <<phase, rowVars, nIn, arrived, smoothed, window, invalidPop>>

Finish ==
    /\ phase = "flush" /\ flushRow = NRows
    /\ phase' = "done"
    /\ UNCHANGED <<rowVars, flushRow, nIn, arrived, smoothed, window, invalidPop>>

Ended == phase = "done" /\ UNCHANGED vars

Step ==
    \/ \E y \in Rows :
          \/ \E x \in Cols : TakeFirst(y, x) \/ TakeAndSmooth(y, x)
          \/ FlushPixel(y) \/ FlushNextRow(y)
    \/ EndOfInput \/ Finish

Next == Step \/ Ended

Spec == Init /\ [][Next]_vars

\* One thread runs the loops; the input is finite, so that it ends.
FairSpec == Spec /\ WF_vars(Step)

-----------------------------------------------------------------------------
(* Properties *)

\* The state is well typed, and three of a FIFO's four slots are used: "FIFOs of
\* size 4 but max 3 should be used" (cmaFilter.cpp line 109).
TypeOK ==
    /\ phase \in {"stream", "flush", "done"}
    /\ refs \in [Rows -> Seq(Cols)] /\ \A y \in Rows : Len(refs[y]) <= MaxRefs
    /\ start \in [Rows -> 0 .. 3] /\ rowIndex \in [Rows -> 0 .. 3]
    /\ rowCounters \in [Rows -> 0 .. 2] /\ rowPtrs \in [Rows -> 0 .. 2]
    /\ flushRow \in 0 .. NRows /\ nIn \in Nat
    /\ arrived \in [Rows -> Seq(Cols)] /\ smoothed \in [Rows -> Seq(Cols)]
    /\ invalidPop \in BOOLEAN

\* CHECK(InvalidRefPop) "should not happen": no pixel leaves its row's FIFO
\* before it is smoothed.
NoInvalidPop == ~invalidPop

\* CHECK(ValidPixel): smooth() is called for a pixel that is in the FIFO.
SmoothsQueued ==
    \A y \in Rows : phase = "stream" /\ ~Waiting(y) => Order(y) < Len(refs[y])

\* A row's pixels are smoothed in the order they arrived, none left out and none
\* twice, however the rows interleave, and in the end all of them are: the caller
\* allocates nXY entries of output and reads them all.
SmoothedInOrder ==
    \A y \in Rows :
        /\ Len(smoothed[y]) <= Len(arrived[y])
        /\ smoothed[y] = SubSeq(arrived[y], 1, Len(smoothed[y]))
        /\ phase = "done" => Len(smoothed[y]) = Len(arrived[y])

\* A pixel is smoothed with the pixels that arrived just before and just after
\* it in its row; only the last one of a row of three or more takes the one two
\* before it.
NeighboursAdjacent ==
    window.y # None =>
        LET s == arrived[window.y]
            j == window.j
            before == IF j > 1 THEN s[j - 1] ELSE None
            after == IF j < Len(s) THEN s[j + 1]
                     ELSE IF j > 2 THEN s[j - 2] ELSE None
        IN  <<window.left, window.right>> \in {<<before, after>>, <<after, before>>}

\* The filter ends: no row is flushed for ever.
Termination == <>(phase = "done")
=============================================================================
