-------------------------------- MODULE CBUF --------------------------------
(***************************************************************************)
(* The column buffer: +Pipe/+CBUF/CBUF.m (lines 21-93, buffer not          *)
(* bypassed) with maxrun.cpp and stepInc.cpp.  The RAST block gives pixels *)
(* in the order of the scan, rows interleaved.  The buffer holds the       *)
(* columns between a left and a right pointer: the right one is the        *)
(* furthest column so far, the left one follows a requested position as    *)
(* fast as columns can be released.  Pixels left of the buffer underflow,  *)
(* pixels that come while it is too wide overflow; both are discarded.     *)
(*                                                                         *)
(* Positions are counted in Scale-ths of a column, so that the time        *)
(* between two pixels, as a share of the time to release a column, is an   *)
(* integer.  The code works on whole vectors; the model takes a pixel per  *)
(* step and discards at the end, as the code does.                         *)
(***************************************************************************)
EXTENDS Integers

CONSTANTS
    ImgH, ImgV,     \* image size
    Scale,          \* positions per column
    XBitShifts,     \* log2 of the columns that share a release distance
    XRelease,       \* release distance, in columns, by section
    MaxBufferSize,  \* 64, 85 or 120 columns, by the height of the image
    Dts             \* times between pixels, in 1/Scale of a column's release

ASSUME ImageAssumption ==
    /\ ImgH \in Nat \ {0} /\ ImgV \in Nat \ {0}
    /\ Scale \in Nat \ {0} /\ MaxBufferSize \in Nat
ASSUME ReleaseAssumption ==
    /\ XBitShifts \in Nat
    /\ XRelease \in [0 .. 15 -> Nat]
    /\ \A x \in 1 .. ImgH : (x - 1) \div 2 ^ XBitShifts \in 0 .. 15
ASSUME TimeAssumption == Dts \subseteq Nat

Rows == 1 .. ImgV
Cols == 1 .. ImgH
Cells == 1 .. ImgH * ImgV

\* Linear index of a pixel: images are stored column by column
Cell(x, y) == (x - 1) * ImgV + y

VARIABLES
    phase,      \* "run", "done"
    n,          \* pixels taken
    rowX,       \* last column taken of each row, 0 for none
    right,      \* bufRightPointer
    left,       \* actBufLeftPointer
    underflow,  \* underflowInd: the pixels that underflow, by their place in the scan
    overflow,   \* overflowInd, likewise
    zeroed,     \* cells of the images set to 0
    lost,       \* history: cells of the pixels that underflow
    asked,      \* history: greatest left pointer asked for
    paced       \* history: the right pointer was never faster than the left one may be

vars == <<phase, n, rowX, right, left, underflow, overflow, zeroed, lost, asked, paced>>

Init ==
    /\ phase = "run" /\ n = 0
    /\ rowX = [y \in Rows |-> 0]
    /\ right = 0 /\ left = 0
    /\ underflow = {} /\ overflow = {} /\ zeroed = {}
    /\ lost = {} /\ asked = 0 /\ paced = TRUE

Lesser(a, b) == IF a < b THEN a ELSE b
Greater(a, b) == IF a < b THEN b ELSE a

\* maxrun: the right pointer never goes back
Right(x) == IF n = 0 THEN x * Scale ELSE Greater(right, x * Scale)

\* The columns share 16 release distances (xlutIndx, with its assertion)
Section(x) == (x - 1) \div 2 ^ XBitShifts
Release(x) == XRelease[Section(x)] * Scale

\* optBufLeftPointer
OptLeft(x) == Greater(0, Right(x) - Release(x))

\* Mutants of stepInc: a full step is taken whatever the distance; steps to the
\* right are held to half the time
StepIncWhole(opt, dt) == IF n = 0 THEN opt ELSE IF opt < left THEN left - dt ELSE left + dt
StepIncHalf(opt, dt) ==
    IF n = 0 THEN opt ELSE left + Greater(Lesser(opt - left, dt \div 2), -dt)
\* stepInc: towards the pointer asked for, at most dt either way
StepInc(opt, dt) ==
    IF n = 0 THEN opt ELSE left + Greater(Lesser(opt - left, dt), -dt)

Underflows(x, dt) == x * Scale < StepInc(OptLeft(x), dt)
Overflows(x, dt) == Right(x) - StepInc(OptLeft(x), dt) > MaxBufferSize * Scale

\* A pixel comes out of the RAST block; columns of a row rise
TakePixel(x, y, dt) ==
    /\ phase = "run" /\ x > rowX[y]
    /\ n' = n + 1
    /\ rowX' = [rowX EXCEPT ![y] = x]
    /\ right' = Right(x)
    /\ left' = StepInc(OptLeft(x), dt)
    /\ underflow' = IF Underflows(x, dt) THEN underflow \cup {n + 1} ELSE underflow
    /\ overflow' = IF Overflows(x, dt) THEN overflow \cup {n + 1} ELSE overflow
    /\ lost' = IF Underflows(x, dt) THEN lost \cup {Cell(x, y)} ELSE lost
    /\ asked' = Greater(asked, OptLeft(x))
    /\ paced' = (paced /\ (n > 0 => Right(x) - right <= dt))
    /\ UNCHANGED <<phase, zeroed>>

\* The images are indexed with the vectors, which are in the order of the scan
Discard ==
    /\ phase = "run" /\ n > 0
    /\ phase' = "done"
    /\ zeroed' = underflow \cup overflow
    /\ UNCHANGED <<n, rowX, right, left, underflow, overflow, lost, asked, paced>>

Ended == phase = "done" /\ UNCHANGED vars

Next ==
    \/ \E x \in Cols, y \in Rows, dt \in Dts : TakePixel(x, y, dt)
    \/ Discard
    \/ Ended

Spec == Init /\ [][Next]_vars

-----------------------------------------------------------------------------
(* Properties *)

\* The state is well typed: pointers stay inside the image and every vector has
\* one entry per pixel taken.
TypeOK ==
    /\ phase \in {"run", "done"} /\ n \in 0 .. ImgH * ImgV
    /\ rowX \in [Rows -> 0 .. ImgH]
    /\ right \in 0 .. ImgH * Scale /\ left \in 0 .. ImgH * Scale
    /\ underflow \subseteq 1 .. n /\ overflow \subseteq 1 .. n
    /\ zeroed \subseteq Cells /\ lost \subseteq Cells
    /\ asked \in 0 .. ImgH * Scale /\ paced \in BOOLEAN

\* "CBUF overflow (slow axis is changing too fast)" (CBUF.m line 87): as long as
\* the right pointer is no faster than columns can be released, and no section
\* asks for more than the buffer holds, nothing overflows, however the release
\* distances differ from one section to the next.
OverflowMeansTooFast ==
    paced /\ (\A s \in DOMAIN XRelease : XRelease[s] <= MaxBufferSize) => overflow = {}

\* Columns are released on request only: the left pointer, which lags behind on
\* both sides, never passes the furthest position some pixel asked for, and with
\* it never the right pointer.  A pixel that underflows had its column given up
\* by itself or by an earlier one.
ReleasedOnRequest == left <= asked /\ asked <= right

\* "discard underflow pixels" (CBUF.m line 80)
DiscardsUnderflow == phase = "done" => lost \subseteq zeroed
=============================================================================
